------------------------- MODULE ChatProtocolProofs -------------------------
(***************************************************************************)
(* The two loops of the file collection stay in step whatever process ends *)
(* and when, never wait for each other, and what the master saves is what  *)
(* the client read: for any number of logs of any length.                  *)
(***************************************************************************)
EXTENDS ChatProtocol, Integers, TLAPS

(***************************************************************************)
(* The inductive invariant.                                                *)
(***************************************************************************)
ToMaster == wire.in["master"]
ToClient == wire.in["client"]
Talking == master.pc \in {"ask", "answer", "give", "save"}
Serving == client.pc \notin {"accept", "dead"}

\* An end that is closed receives nothing, and only a side whose peer is gone
\* has been, or will be, reset.
Nets == {"fine", "doomed", "reset", "broken"}
Sound(w) ==
  /\ w \in [in : [Sides -> Seq(Items)], held : SUBSET Sides, net : [Sides -> Nets]]
  /\ \A s \in Sides : s \notin w.held => w.in[s] = <<>>
  /\ \A s \in Sides : w.net[s] # "fine" => Peer(s) \notin w.held

\* Who holds an end of the connection.
EndsHeld ==
  /\ "master" \in wire.held <=> Talking
  /\ Serving => "client" \in wire.held
  /\ client.pc = "dead" => "client" \notin wire.held
  /\ client.pc = "accept" => client = Idle("accept")
  /\ master.pc = "sleep" => wire.held = {} /\ master.i = 0
  /\ lost => ~(Sides \subseteq wire.held)

\* What a side has yet to receive is what it waits for, or will.
EndsLast(q) ==
  \A k \in DOMAIN q : q[k] \in Blocks \/ (q[k] = EOT /\ k = Len(q))
ClientHears ==
  \/ ToClient = <<>>
  \/ client.pc \in {"accept", "request"} /\ ToClient = <<Name(client.i)>>
  \/ client.pc = "command" /\ ToClient = <<GiveMe>>
MayHear(q) ==
  \/ q = <<>>
  \/ master.pc = "answer" /\ (q = <<OK>> \/ q = <<Wrong>>)
  \/ master.pc = "save" /\ EndsLast(q)
MasterHears == MayHear(ToMaster)

\* Where the two loops are while neither process has ended.
Abreast == client.i = master.i /\ "client" \in wire.held
Ahead ==
  \/ client.pc = "request" /\ client.i = master.i + 1
  \/ client.pc = "accept" /\ master.i + 1 = LogCount /\ "client" \notin wire.held
Quiet == ToClient = <<>> /\ ToMaster = <<>>

Asking == /\ master.pc = "ask" /\ Quiet
          /\ Abreast /\ client.pc \in {"accept", "request"}
Answering ==
  /\ master.pc = "answer"
  /\ \/ /\ ToClient = <<Name(master.i)>> /\ ToMaster = <<>>
        /\ Abreast /\ client.pc \in {"accept", "request"}
     \/ Quiet /\ Abreast /\ client.pc \in {"ok", "wrong"}
     \/ ToClient = <<>> /\ ToMaster = <<OK>> /\ Abreast /\ client.pc = "command"
     \/ ToClient = <<>> /\ ToMaster = <<Wrong>> /\ Ahead
Giving == master.pc = "give" /\ Quiet /\ Abreast /\ client.pc = "command"
Saving ==
  /\ master.pc = "save"
  /\ \/ /\ ToClient = <<GiveMe>> /\ ToMaster = <<>>
        /\ Abreast /\ client.pc = "command"
     \/ /\ ToClient = <<>> /\ Abreast /\ client.pc \in {"send", "mark"}
        /\ ToMaster \in Seq(Blocks)
     \/ /\ ToClient = <<>> /\ Ahead
        /\ CharSigned => ToMaster # <<>> /\ Last(ToMaster) = EOT

InPhase == Talking /\ ~lost => Asking \/ Answering \/ Giving \/ Saving

TurnInv == TypeOK /\ Sound(wire) /\ EndsHeld /\ ClientHears /\ MasterHears /\ InPhase

\* How much of what the master has yet to receive of log j is text.
Coming(j) == IF master.pc = "save" /\ master.i = j THEN ToMaster ELSE <<>>
Texts(q) == IF q # <<>> /\ q[Len(q)] = EOT THEN Len(q) - 1 ELSE Len(q)

\* What the client has sent of log j, or could have.
SoFar(j) == IF client.pc = "send" /\ client.i = j
              THEN read[j].texts ELSE Transmission(read[j])

Unread == \A j \in Logs :
  "client" \in wire.held /\ (\/ j > client.i
                             \/ j = client.i /\ client.pc \notin {"send", "mark"})
    => read[j] = NothingRead
LineRead ==
  client.line = IF client.pc \in {"send", "mark"} THEN read[client.i].line ELSE 0

\* What is saved, and then what is coming, is a beginning of what was sent.
Follows(s, q, t) ==
  /\ Len(s) + Texts(q) <= Len(t)
  /\ \A k \in 1 .. Len(s) : s[k] = t[k]
  /\ \A k \in 1 .. Texts(q) : q[k] = t[Len(s) + k]
InOrder == \A j \in Logs : Follows(saved[j], Coming(j), SoFar(j))

\* It is all of it, for the logs both are through with and for the one the
\* master is saving.
Through(j) ==
  \/ master.pc = "sleep"
  \/ Talking /\ (j < master.i \/ (j = master.i /\ (master.pc = "save" \/ Ahead)))
AllThere == ~lost => \A j \in Logs :
  Through(j) => Len(saved[j]) + Texts(Coming(j)) = Len(SoFar(j))

TextInv == TurnInv /\ Unread /\ LineRead /\ InOrder /\ AllThere

(***************************************************************************)
(* The items of the two streams, and the types of the state's parts.       *)
(***************************************************************************)
LEMMA ItemsApart ==
  /\ OK # Wrong /\ OK # GiveMe /\ Wrong # GiveMe /\ EOT \notin {OK, Wrong, GiveMe}
  /\ {OK, Wrong, GiveMe, EOT} \cap Blocks = {}
  /\ \A j : /\ Name(j) \notin {OK, Wrong, GiveMe, EOT} \cup Blocks
            /\ Name(j).is = "name"
  /\ OK.is # "name" /\ GiveMe.is # "name"
  /\ \A j, k : Name(j) = Name(k) => j = k
<1>1. \A b \in Blocks : b.is = "block"
  BY DEF Blocks, Block
<1>2. /\ OK.is = "OK" /\ Wrong.is = "wrong" /\ GiveMe.is = "give me" /\ EOT.is = "EOT"
      /\ \A j : Name(j).is = "name" /\ Name(j).of = j
  BY DEF OK, Wrong, GiveMe, EOT, Name
<1>3. ASSUME NEW j, NEW k, Name(j) = Name(k)
      PROVE  j = k
  <2>1. Name(j).of = Name(k).of
    BY <1>3
  <2> QED
    BY <1>2, <2>1
<1>4. \A j : Name(j) \notin {OK, Wrong, GiveMe, EOT} \cup Blocks
  BY <1>1, <1>2
<1>5. {OK, Wrong, GiveMe, EOT} \cap Blocks = {}
  BY <1>1, <1>2
<1> QED
  BY <1>2, <1>3, <1>4, <1>5

LEMMA ItemsTyped ==
  /\ {OK, Wrong, GiveMe, EOT} \subseteq Items /\ Blocks \subseteq Items
  /\ \A j \in Logs : Name(j) \in Items
  /\ \A n \in 1 .. MaxBlocks : Block(n) \in Blocks
BY DEF Items, Blocks

LEMMA Singletons ==
  /\ \A x : /\ <<x>> # <<>> /\ Len(<<x>>) = 1 /\ Head(<<x>>) = x
            /\ Tail(<<x>>) = <<>> /\ <<x>>[1] = x
  /\ \A x, y : <<x>> = <<y>> => x = y
OBVIOUS

LEMMA LogsAre ==
  /\ LogCount \in Nat /\ 0 < LogCount /\ MaxBlocks \in Nat /\ 0 \in Logs
  /\ \A j : j \in Logs <=> j \in Nat /\ j < LogCount
BY ChatAssumption DEF Logs

LEMMA TwoSides ==
  /\ Peer("master") = "client" /\ Peer("client") = "master"
  /\ Sides = {"master", "client"} /\ "master" # "client"
BY DEF Peer, Sides

MasterPcs == {"sleep", "ask", "answer", "give", "save", "killed", "exited"}
ClientPcs == {"accept", "request", "ok", "wrong", "command", "send", "mark", "dead"}
ClientType == [pc : ClientPcs, i : Logs, n : 0 .. MaxBlocks, line : 0 .. MaxBlocks]
ReadType == [texts : Seq(Blocks), line : 0 .. MaxBlocks]

LEMMA TypesAre ==
  TypeOK <=> /\ master \in [pc : MasterPcs, i : Logs] /\ client \in ClientType
             /\ wire \in [in : [Sides -> Seq(Items)], held : SUBSET Sides,
                          net : [Sides -> Nets]]
             /\ saved \in [Logs -> Seq(Items)] /\ read \in [Logs -> ReadType]
             /\ lost \in BOOLEAN
BY DEF TypeOK, MasterPcs, ClientPcs, ClientType, Nets, ReadType

(***************************************************************************)
(* What each call does to a connection.                                    *)
(***************************************************************************)
Wire(q, h, n) == [in |-> q, held |-> h, net |-> n]

SoundParts(q, h, n) ==
  /\ q \in [Sides -> Seq(Items)] /\ h \in SUBSET Sides /\ n \in [Sides -> Nets]
  /\ \A s \in Sides : s \notin h => q[s] = <<>>
  /\ \A s \in Sides : n[s] # "fine" => Peer(s) \notin h

LEMMA SoundWire ==
  ASSUME NEW q, NEW h, NEW n, SoundParts(q, h, n)
  PROVE  /\ Sound(Wire(q, h, n))
         /\ Wire(q, h, n).in = q /\ Wire(q, h, n).held = h /\ Wire(q, h, n).net = n
BY DEF Sound, Wire, SoundParts

LEMMA FreshIs ==
  /\ Sound(Fresh) /\ Fresh.held = Sides
  /\ Fresh.in["master"] = <<>> /\ Fresh.in["client"] = <<>>
<1>1. Fresh \in [in : [Sides -> Seq(Items)], held : SUBSET Sides, net : [Sides -> Nets]]
  BY DEF Fresh, Nets
<1> QED
  BY <1>1, TwoSides DEF Fresh, Sound

LEMMA LeftIs ==
  ASSUME NEW w, Sound(w), NEW s \in Sides, NEW rudely
  PROVE  /\ Sound(Left(w, s, rudely))
         /\ Left(w, s, rudely).held = w.held \ {s}
         /\ Left(w, s, rudely).in[s] = <<>>
         /\ Left(w, s, rudely).in[Peer(s)] = w.in[Peer(s)]
<1> DEFINE v == Left(w, s, rudely)
<1>1. Peer(s) \in Sides /\ Peer(s) # s /\ Peer(Peer(s)) = s /\ \A p \in Sides : p = s \/ p = Peer(s)
  BY TwoSides
<1>2. /\ v.in = [w.in EXCEPT ![s] = <<>>] /\ v.held = w.held \ {s}
      /\ v.net = [w.net EXCEPT ![Peer(s)] = "reset"] \/ v.net = w.net
      /\ v = [in |-> v.in, held |-> v.held, net |-> v.net]
  BY DEF Left
<1>3. /\ w.in \in [Sides -> Seq(Items)] /\ w.held \subseteq Sides
      /\ w.net \in [Sides -> Nets]
  BY DEF Sound
<1>4. /\ v.in \in [Sides -> Seq(Items)] /\ v.in[s] = <<>> /\ v.in[Peer(s)] = w.in[Peer(s)]
  BY <1>1, <1>2, <1>3
<1>5. v.net \in [Sides -> Nets] /\ v.net[s] = w.net[s]
  BY <1>1, <1>2, <1>3 DEF Nets
<1> HIDE DEF v
<1>6. SoundParts(v.in, v.held, v.net)
  BY <1>1, <1>2, <1>3, <1>4, <1>5 DEF Sound, SoundParts
<1>8. v = Wire(v.in, v.held, v.net)
  BY <1>2 DEF Wire
<1>9. Sound(v)
  BY <1>6, <1>8, SoundWire
<1> QED
  BY <1>2, <1>4, <1>9 DEF v

LEMMA ClosedIs ==
  ASSUME NEW w, Sound(w), NEW s \in Sides
  PROVE  /\ Sound(Closed(w, s))
         /\ Closed(w, s).held = w.held \ {s}
         /\ Closed(w, s).in[s] = <<>>
         /\ Closed(w, s).in[Peer(s)] = w.in[Peer(s)]
<1> DEFINE rudely == w.in[s] # <<>>
<1>1. Closed(w, s) = Left(w, s, rudely)
  BY DEF Closed
<1> HIDE DEF rudely
<1> QED
  BY <1>1, LeftIs

LEMMA SentIs ==
  ASSUME NEW w, Sound(w), NEW s \in Sides, w.net[s] # "broken", s \in w.held,
         NEW item \in Items
  PROVE  /\ Sound(Sent(w, s, item))
         /\ Sent(w, s, item).held = w.held
         /\ Sent(w, s, item).in[s] = w.in[s]
         /\ Sent(w, s, item).in[Peer(s)] = IF Peer(s) \in w.held
                                             THEN Append(w.in[Peer(s)], item)
                                             ELSE w.in[Peer(s)]
<1>1. Peer(s) \in Sides /\ Peer(s) # s /\ Peer(Peer(s)) = s /\ \A p \in Sides : p = s \/ p = Peer(s)
  BY TwoSides
<1>3. /\ w.in \in [Sides -> Seq(Items)] /\ w.held \subseteq Sides
      /\ w.net \in [Sides -> Nets]
      /\ w = [in |-> w.in, held |-> w.held, net |-> w.net]
  BY DEF Sound
<1>4. CASE Peer(s) \in w.held
  <2>1. w.net[s] = "fine"
    BY <1>4 DEF Sound
  <2>2. Sent(w, s, item) = [w EXCEPT !.in = [w.in EXCEPT ![Peer(s)] = Append(w.in[Peer(s)], item)]]
    BY <1>4, <2>1 DEF Sent
  <2> DEFINE q == [w.in EXCEPT ![Peer(s)] = Append(w.in[Peer(s)], item)]
  <2>3. q \in [Sides -> Seq(Items)] /\ q[s] = w.in[s] /\ q[Peer(s)] = Append(w.in[Peer(s)], item)
    BY <1>1, <1>3
  <2> HIDE DEF q
  <2>4. Sent(w, s, item) = Wire(q, w.held, w.net)
    BY <1>3, <2>2 DEF q, Wire
  <2>5. SoundParts(q, w.held, w.net)
    BY <1>1, <1>3, <1>4, <2>3 DEF Sound, SoundParts
  <2>6. /\ Sound(Wire(q, w.held, w.net)) /\ Wire(q, w.held, w.net).in = q
        /\ Wire(q, w.held, w.net).held = w.held
    BY <2>5, SoundWire
  <2> QED
    BY <1>4, <2>3, <2>4, <2>6
<1>5. CASE Peer(s) \notin w.held
  <2>1. PICK state \in Nets : Sent(w, s, item) = [w EXCEPT !.net = [w.net EXCEPT ![s] = state]]
    BY <1>5 DEF Sent, Nets
  <2> DEFINE n == [w.net EXCEPT ![s] = state]
  <2>3. n \in [Sides -> Nets] /\ n[Peer(s)] = w.net[Peer(s)]
    BY <1>1, <1>3
  <2> HIDE DEF n
  <2>4. Sent(w, s, item) = Wire(w.in, w.held, n)
    BY <1>3, <2>1 DEF n, Wire
  <2>5. SoundParts(w.in, w.held, n)
    BY <1>1, <1>3, <1>5, <2>3 DEF Sound, SoundParts
  <2>6. /\ Sound(Wire(w.in, w.held, n)) /\ Wire(w.in, w.held, n).in = w.in
        /\ Wire(w.in, w.held, n).held = w.held
    BY <2>5, SoundWire
  <2> QED
    BY <1>5, <2>4, <2>6
<1> QED
  BY <1>4, <1>5

LEMMA TakenIs ==
  ASSUME Sound(wire), NEW s \in Sides, CanTake(s)
  PROVE  /\ Sound(Taken(s)) /\ Taken(s).held = wire.held
         /\ Taken(s).in[s] = Tail(wire.in[s])
         /\ Taken(s).in[Peer(s)] = wire.in[Peer(s)]
<1>1. Peer(s) \in Sides /\ Peer(s) # s /\ \A p \in Sides : p = s \/ p = Peer(s)
  BY TwoSides
<1>2. /\ wire.in \in [Sides -> Seq(Items)] /\ wire.held \subseteq Sides
      /\ wire.net \in [Sides -> Nets]
      /\ wire = [in |-> wire.in, held |-> wire.held, net |-> wire.net]
  BY DEF Sound
<1> DEFINE q == [wire.in EXCEPT ![s] = Tail(wire.in[s])]
<1>3. wire.in[s] \in Seq(Items) /\ wire.in[s] # <<>> /\ s \in wire.held
  BY <1>2 DEF CanTake, Sound
<1>4. q \in [Sides -> Seq(Items)] /\ q[s] = Tail(wire.in[s]) /\ q[Peer(s)] = wire.in[Peer(s)]
  BY <1>1, <1>2, <1>3
<1>5. Taken(s) = [wire EXCEPT !.in = q]
  BY DEF Taken
<1> HIDE DEF q
<1>6. Taken(s) = Wire(q, wire.held, wire.net)
  BY <1>2, <1>5 DEF Wire
<1>7. SoundParts(q, wire.held, wire.net)
  BY <1>1, <1>2, <1>3, <1>4 DEF Sound, SoundParts
<1>8. /\ Sound(Wire(q, wire.held, wire.net)) /\ Wire(q, wire.held, wire.net).in = q
      /\ Wire(q, wire.held, wire.net).held = wire.held
  BY <1>7, SoundWire
<1> QED
  BY <1>4, <1>6, <1>8

LEMMA ToldIs ==
  ASSUME Sound(wire), NEW s \in Sides
  PROVE  /\ Sound(Told(s)) /\ Told(s).held = wire.held
         /\ Told(s).in = wire.in
<1>1. Peer(s) \in Sides /\ Peer(s) # s /\ \A p \in Sides : p = s \/ p = Peer(s)
  BY TwoSides
<1>2. /\ wire.in \in [Sides -> Seq(Items)] /\ wire.held \subseteq Sides
      /\ wire.net \in [Sides -> Nets]
      /\ wire = [in |-> wire.in, held |-> wire.held, net |-> wire.net]
  BY DEF Sound
<1> DEFINE n == [wire.net EXCEPT ![s] = IF wire.net[s] = "reset" THEN "broken" ELSE wire.net[s]]
<1>3. /\ n \in [Sides -> Nets] /\ n[Peer(s)] = wire.net[Peer(s)]
      /\ n[s] # "fine" => wire.net[s] # "fine"
  BY <1>1, <1>2 DEF Nets
<1>4. Told(s) = [wire EXCEPT !.net = n]
  BY DEF Told
<1> HIDE DEF n
<1>5. Told(s) = Wire(wire.in, wire.held, n)
  BY <1>2, <1>4 DEF Wire
<1>6. SoundParts(wire.in, wire.held, n)
  BY <1>1, <1>2, <1>3 DEF Sound, SoundParts
<1>7. /\ Sound(Wire(wire.in, wire.held, n)) /\ Wire(wire.in, wire.held, n).in = wire.in
      /\ Wire(wire.in, wire.held, n).held = wire.held
  BY <1>6, SoundWire
<1> QED
  BY <1>5, <1>7

LEMMA NoneComesIs ==
  ASSUME Sound(wire), NEW s \in Sides
  PROVE  NoneComes(s) <=> wire.in[s] = <<>> /\ Peer(s) \notin wire.held
BY DEF NoneComes, Sound

(***************************************************************************)
(* The turns: the steps that keep TurnInv.                                 *)
(***************************************************************************)
\* Where nobody has ended, both ends are held or the client is through.
LEMMA TurnFacts ==
  ASSUME TurnInv
  PROVE  /\ master.pc \in MasterPcs /\ client.pc \in ClientPcs
         /\ master.i \in Nat /\ client.i \in Nat
         /\ master.i < LogCount /\ client.i < LogCount
         /\ wire.in \in [Sides -> Seq(Items)] /\ wire.held \subseteq Sides
         /\ ToMaster \in Seq(Items) /\ ToClient \in Seq(Items)
         /\ Talking /\ "client" \in wire.held => ~lost
         /\ "client" \notin wire.held => ToClient = <<>>
         /\ ~Talking => ToMaster = <<>>
<1>1. /\ master \in [pc : MasterPcs, i : Logs] /\ client \in ClientType /\ lost \in BOOLEAN
      /\ wire.in \in [Sides -> Seq(Items)] /\ wire.held \subseteq Sides
  BY TypesAre DEF TurnInv
<1>2. /\ master.pc \in MasterPcs /\ client.pc \in ClientPcs
      /\ master.i \in Logs /\ client.i \in Logs
  BY <1>1 DEF ClientType
<1>3. ToMaster \in Seq(Items) /\ ToClient \in Seq(Items)
  BY <1>1, TwoSides DEF ToMaster, ToClient
<1>4. Talking /\ "client" \in wire.held => ~lost
  BY TwoSides DEF TurnInv, EndsHeld
<1>5. /\ "client" \notin wire.held => ToClient = <<>>
      /\ ~Talking => ToMaster = <<>>
  BY TwoSides DEF TurnInv, EndsHeld, Sound, ToMaster, ToClient
<1> QED
  BY <1>1, <1>2, <1>3, <1>4, <1>5, LogsAre

\* The master goes on to its next log, or closes and sleeps.
LEMMA MasterGoesOn ==
  ASSUME TurnInv, NEW w, Sound(w), w.held = wire.held,
         w.in["master"] = <<>>, w.in["client"] = ToClient,
         master.pc \in {"answer", "save"}, ~lost => Ahead /\ ToClient = <<>>,
         MasterNext(w), UNCHANGED <<client, saved, read, lost>>
  PROVE  TurnInv'
<1>0. Talking
  BY DEF Talking
<1>1. /\ master.pc \in MasterPcs /\ client.pc \in ClientPcs
      /\ master.i \in Nat /\ client.i \in Nat
      /\ master.i < LogCount /\ client.i < LogCount
      /\ "client" \in wire.held => ~lost
      /\ "master" \in wire.held
  BY <1>0, TurnFacts DEF TurnInv, EndsHeld
<1>2. CASE master.i + 1 < LogCount
  <2>1. /\ master' = [pc |-> "ask", i |-> master.i + 1] /\ wire' = w
        /\ master'.pc = "ask" /\ master'.i = master.i + 1
        /\ ToMaster' = <<>> /\ ToClient' = ToClient /\ wire'.held = wire.held
    BY <1>2 DEF MasterNext, ToMaster, ToClient
  <2>2. master' \in [pc : MasterPcs, i : Logs] /\ Sound(wire')
    BY <1>1, <1>2, <2>1, LogsAre DEF MasterPcs
  <2>3. TypeOK'
    BY <2>2 DEF TurnInv, TypeOK, Sound, MasterPcs, Nets
  <2>4. EndsHeld'
    BY <1>1, <2>1 DEF TurnInv, EndsHeld, Talking, Serving
  <2>5. ClientHears' /\ MasterHears'
    BY <2>1 DEF TurnInv, ClientHears, MasterHears, MayHear
  <2>6. InPhase'
    <3>1. ~lost => client.pc = "request" /\ client.i = master.i + 1
      BY <1>1, <1>2 DEF Ahead
    <3> QED
      BY <2>1, <3>1 DEF InPhase, Asking, Quiet, Abreast, TurnInv, EndsHeld, Serving
  <2> QED
    BY <2>2, <2>3, <2>4, <2>5, <2>6 DEF TurnInv
<1>3. CASE ~(master.i + 1 < LogCount)
  <2>1. "client" \notin wire.held
    BY <1>1, <1>3 DEF Ahead
  <2>2. master' = [pc |-> "sleep", i |-> 0] /\ wire' = Closed(w, "master")
    BY <1>3 DEF MasterNext
  <2>3. /\ Sound(wire') /\ wire'.held = wire.held \ {"master"}
        /\ ToMaster' = <<>> /\ ToClient' = ToClient
    BY <2>2, ClosedIs, TwoSides DEF ToMaster, ToClient
  <2>4. wire'.held = {}
    BY <2>1, <2>3, TurnFacts, TwoSides
  <2>5. master'.pc = "sleep" /\ master'.i = 0 /\ master' \in [pc : MasterPcs, i : Logs]
    BY <2>2, LogsAre DEF MasterPcs
  <2>6. TypeOK'
    BY <2>3, <2>5 DEF TurnInv, TypeOK, Sound, MasterPcs, Nets
  <2>7. EndsHeld'
    BY <2>1, <2>4, <2>5, TwoSides DEF TurnInv, EndsHeld, Talking, Serving
  <2>8. ClientHears' /\ MasterHears' /\ InPhase'
    BY <2>3, <2>5 DEF TurnInv, ClientHears, MasterHears, MayHear, InPhase, Talking
  <2> QED
    BY <2>3, <2>6, <2>7, <2>8 DEF TurnInv
<1> QED
  BY <1>2, <1>3

\* The master's process ends.
LEMMA MasterLeaves ==
  ASSUME TurnInv, Talking, NEW pc \in {"killed", "exited"}, MasterAt(pc),
         wire' = Closed(wire, "master"), lost' = TRUE, UNCHANGED <<client, saved, read>>
  PROVE  TurnInv'
<1>1. master' \in [pc : MasterPcs, i : Logs] /\ master'.pc \in {"killed", "exited"}
  BY TypesAre DEF TurnInv, MasterAt, MasterPcs
<1>2. /\ Sound(wire') /\ wire'.held = wire.held \ {"master"}
      /\ ToMaster' = <<>> /\ ToClient' = ToClient
  BY ClosedIs, TwoSides DEF ToMaster, ToClient, TurnInv
<1>3. TypeOK'
  BY <1>1, <1>2 DEF TurnInv, TypeOK, Sound, MasterPcs, Nets
<1>4. EndsHeld'
  BY <1>1, <1>2, TwoSides DEF TurnInv, EndsHeld, Talking, Serving
<1>5. ClientHears' /\ MasterHears' /\ InPhase'
  BY <1>1, <1>2 DEF TurnInv, ClientHears, MasterHears, MayHear, InPhase, Talking
<1> QED
  BY <1>2, <1>3, <1>4, <1>5 DEF TurnInv

\* The master sends what the client will look for next.
LEMMA MasterSendsTurn ==
  ASSUME TurnInv, AskName \/ AskFile
  PROVE  TurnInv'
<1> DEFINE item == IF master.pc = "ask" THEN Name(master.i) ELSE GiveMe
           pc == IF master.pc = "ask" THEN "answer" ELSE "save"
<1>1. /\ master.pc \in {"ask", "give"} /\ MasterAt(pc) /\ wire' = Sent(wire, "master", item)
      /\ wire.net["master"] # "broken" /\ UNCHANGED <<client, saved, read, lost>>
  BY DEF AskName, AskFile, MasterSends, Raises
<1>2. Talking /\ "master" \in wire.held /\ item \in Items
  <2>1. master.i \in Logs
    BY TypesAre DEF TurnInv
  <2> QED
    BY <1>1, <2>1, ItemsTyped DEF Talking, TurnInv, EndsHeld
<1>3. /\ master' \in [pc : MasterPcs, i : Logs] /\ master'.pc = pc /\ master'.i = master.i
  <2>1. pc \in MasterPcs
    BY DEF MasterPcs
  <2> HIDE DEF pc
  <2> QED
    BY <1>1, <2>1, TypesAre DEF TurnInv, MasterAt
<1>4. /\ Sound(wire') /\ wire'.held = wire.held /\ ToMaster' = ToMaster
      /\ ToClient' = IF "client" \in wire.held THEN Append(ToClient, item) ELSE ToClient
  BY <1>1, <1>2, SentIs, TwoSides DEF TurnInv, ToMaster, ToClient
<1>5. ToMaster = <<>>
  BY <1>1 DEF TurnInv, MasterHears, MayHear
<1>6. CASE lost
  <2>1. "client" \notin wire.held /\ ToClient' = <<>>
    BY <1>2, <1>4, <1>6, TurnFacts
  <2>2. TypeOK'
    BY <1>1, <1>3, <1>4 DEF TurnInv, TypeOK, Sound, MasterPcs, Nets
  <2>3. EndsHeld'
    BY <1>1, <1>2, <1>3, <1>4 DEF TurnInv, EndsHeld, Talking, Serving
  <2>4. ClientHears' /\ MasterHears' /\ InPhase'
    BY <1>1, <1>4, <1>5, <1>6, <2>1 DEF ClientHears, MasterHears, MayHear, InPhase
  <2> QED
    BY <1>4, <2>2, <2>3, <2>4 DEF TurnInv
<1>7. CASE ~lost
  <2>1. /\ "client" \in wire.held /\ client.i = master.i /\ ToClient = <<>>
        /\ master.pc = "ask" => client.pc \in {"accept", "request"}
        /\ master.pc = "give" => client.pc = "command"
    BY <1>1, <1>2, <1>7
       DEF TurnInv, InPhase, Asking, Answering, Giving, Saving, Quiet, Abreast
  <2>2. ToClient' = <<item>>
    BY <1>4, <2>1
  <2>3. TypeOK'
    BY <1>1, <1>3, <1>4 DEF TurnInv, TypeOK, Sound, MasterPcs, Nets
  <2>4. EndsHeld'
    BY <1>1, <1>2, <1>3, <1>4 DEF TurnInv, EndsHeld, Talking, Serving
  <2>5. ClientHears' /\ MasterHears'
    BY <1>1, <1>4, <1>5, <2>1, <2>2 DEF ClientHears, MasterHears, MayHear
  <2>6. InPhase'
    BY <1>1, <1>3, <1>4, <1>5, <2>1, <2>2 DEF InPhase, Answering, Saving, Abreast, Quiet
  <2> QED
    BY <1>4, <2>3, <2>4, <2>5, <2>6 DEF TurnInv
<1> QED
  BY <1>6, <1>7

LEMMA ReadAnswerTurn ==
  ASSUME TurnInv, ReadAnswer \/ ReadNoAnswer
  PROVE  TurnInv'
<1>1. master.pc = "answer" /\ UNCHANGED <<client, saved, read, lost>> /\ Talking
  BY DEF ReadAnswer, ReadNoAnswer, Talking
<1>2. CASE ReadNoAnswer
  <2>1. ToMaster = <<>> /\ "client" \notin wire.held
    BY <1>2, NoneComesIs, TwoSides DEF ReadNoAnswer, TurnInv, ToMaster
  <2>2. lost
    BY <1>1, <2>1, ItemsApart
       DEF TurnInv, InPhase, Asking, Answering, Giving, Saving, Quiet, Abreast
  <2>3. /\ Sound(Told("master")) /\ Told("master").held = wire.held
        /\ Told("master").in = wire.in
    BY ToldIs, TwoSides DEF TurnInv
  <2> QED
    BY <1>1, <1>2, <2>1, <2>2, <2>3, MasterGoesOn DEF ReadNoAnswer, ToMaster, ToClient
<1>3. CASE ReadAnswer
  <2>1. ToMaster # <<>> /\ Next1("master") = Head(ToMaster) /\ CanTake("master")
    BY <1>3 DEF ReadAnswer, CanTake, Next1, ToMaster
  <2>2. /\ ToMaster = <<OK>> \/ ToMaster = <<Wrong>>
    BY <1>1, <2>1 DEF TurnInv, MasterHears, MayHear
  <2>3. /\ Tail(ToMaster) = <<>> /\ ToMaster = <<Next1("master")>>
        /\ Next1("master") \in {OK, Wrong}
    BY <2>1, <2>2, Singletons
  <2>4. /\ Sound(Taken("master")) /\ Taken("master").held = wire.held
        /\ Taken("master").in["master"] = <<>> /\ Taken("master").in["client"] = ToClient
    BY <2>1, <2>3, TakenIs, TwoSides DEF TurnInv, ToMaster, ToClient
  <2>5. CASE Next1("master") = OK
    <3>1. MasterAt("give") /\ wire' = Taken("master")
      BY <1>3, <2>5 DEF ReadAnswer
    <3>2. /\ master' \in [pc : MasterPcs, i : Logs] /\ master'.pc = "give"
          /\ master'.i = master.i
      BY <3>1, TypesAre DEF TurnInv, MasterAt, MasterPcs
    <3>3. /\ Sound(wire') /\ wire'.held = wire.held /\ ToMaster' = <<>> /\ ToClient' = ToClient
      BY <2>4, <3>1 DEF ToMaster, ToClient
    <3>4. TypeOK'
      BY <1>1, <3>2, <3>3 DEF TurnInv, TypeOK, Sound, MasterPcs, Nets
    <3>5. EndsHeld'
      BY <1>1, <3>2, <3>3 DEF TurnInv, EndsHeld, Talking, Serving
    <3>6. ClientHears' /\ MasterHears'
      BY <1>1, <3>3 DEF TurnInv, ClientHears, MasterHears, MayHear
    <3>7. ~lost => ToClient = <<>> /\ Abreast /\ client.pc = "command"
      <4>1. ToMaster # <<>> /\ ToMaster # <<Wrong>>
        BY <2>3, <2>5, ItemsApart, Singletons
      <4> QED
        BY <1>1, <4>1 DEF TurnInv, InPhase, Asking, Answering, Giving, Saving, Quiet
    <3>8. InPhase'
      BY <1>1, <3>2, <3>3, <3>7 DEF InPhase, Giving, Quiet, Abreast
    <3> QED
      BY <3>3, <3>4, <3>5, <3>6, <3>8 DEF TurnInv
  <2>6. CASE Next1("master") # OK
    <3>1. MasterNext(Taken("master"))
      BY <1>3, <2>6 DEF ReadAnswer
    <3>2. ~lost => Ahead /\ ToClient = <<>>
      <4>1. ToMaster # <<>> /\ ToMaster # <<OK>>
        BY <2>3, <2>6, Singletons
      <4> QED
        BY <1>1, <4>1 DEF TurnInv, InPhase, Asking, Answering, Giving, Saving, Quiet
    <3> QED
      BY <1>1, <2>4, <3>1, <3>2, MasterGoesOn
  <2> QED
    BY <2>5, <2>6
<1> QED
  BY <1>2, <1>3

\* A message or a block is taken from a stream of blocks.
LEMMA StreamTail ==
  ASSUME NEW q \in Seq(Items), q # <<>>, EndsLast(q)
  PROVE  /\ EndsLast(Tail(q)) /\ Tail(q) \in Seq(Items)
         /\ Head(q) = q[1] /\ (Head(q) \in Blocks \/ Head(q) = EOT)
         /\ Head(q) = EOT => Tail(q) = <<>> /\ Len(q) = 1
         /\ q \in Seq(Blocks) => Tail(q) \in Seq(Blocks) /\ Head(q) \in Blocks
         /\ Head(q) # EOT /\ Last(q) = EOT => Tail(q) # <<>> /\ Last(Tail(q)) = EOT
<1>1. /\ Len(q) \in Nat /\ Len(q) >= 1 /\ DOMAIN q = 1 .. Len(q)
      /\ Head(q) = q[1] /\ Tail(q) \in Seq(Items)
      /\ Len(Tail(q)) = Len(q) - 1 /\ DOMAIN Tail(q) = 1 .. Len(q) - 1
      /\ \A k \in 1 .. Len(q) - 1 : Tail(q)[k] = q[k+1]
  OBVIOUS
<1>2. EndsLast(Tail(q))
  <2> DEFINE t == Tail(q)
  <2>1. ASSUME NEW k \in DOMAIN t
        PROVE  t[k] \in Blocks \/ (t[k] = EOT /\ k = Len(t))
    <3>1. k \in 1 .. Len(q) - 1 /\ k + 1 \in DOMAIN q
      BY <1>1
    <3>2. q[k+1] \in Blocks \/ (q[k+1] = EOT /\ k + 1 = Len(q))
      BY <3>1 DEF EndsLast
    <3> QED
      BY <1>1, <3>1, <3>2
  <2> HIDE DEF t
  <2>2. EndsLast(t)
    BY <2>1 DEF EndsLast
  <2> QED
    BY <2>2 DEF t
<1>3. (Head(q) \in Blocks \/ Head(q) = EOT) /\ (Head(q) = EOT => Len(q) = 1)
  BY <1>1, ItemsApart DEF EndsLast
<1>4. Head(q) = EOT => Tail(q) = <<>>
  BY <1>1, <1>3
<1>5. q \in Seq(Blocks) => Tail(q) \in Seq(Blocks) /\ Head(q) \in Blocks
  BY <1>1
<1>6. ASSUME Head(q) # EOT, Last(q) = EOT
      PROVE  Tail(q) # <<>> /\ Last(Tail(q)) = EOT
  <2>1. Len(q) # 1 /\ q[Len(q)] = EOT
    BY <1>1, <1>6 DEF Last
  <2>2. Len(q) - 1 \in 1 .. Len(q) - 1 /\ Len(q) - 1 + 1 = Len(q)
    BY <1>1, <2>1
  <2>3. Tail(q)[Len(q) - 1] = EOT
    BY <1>1, <2>1, <2>2
  <2> QED
    BY <1>1, <2>2, <2>3 DEF Last
<1> QED
  BY <1>1, <1>2, <1>3, <1>4, <1>5, <1>6

\* What the master finds in saveToFile.
LEMMA SavingFinds ==
  ASSUME TurnInv, master.pc = "save"
  PROVE  /\ Talking /\ EndsLast(ToMaster) /\ ToMaster \in Seq(Items)
         /\ ~lost => \/ ToMaster = <<>> /\ Abreast /\ client.pc = "command"
                     \/ /\ ToClient = <<>> /\ Abreast /\ client.pc \in {"send", "mark"}
                        /\ ToMaster \in Seq(Blocks)
                     \/ /\ ToClient = <<>> /\ Ahead
                        /\ CharSigned => ToMaster # <<>> /\ Last(ToMaster) = EOT
<1>1. Talking
  BY DEF Talking
<1>2. EndsLast(<<>>)
  BY DEF EndsLast
<1>3. EndsLast(ToMaster)
  BY <1>2 DEF TurnInv, MasterHears, MayHear
<1>4. ToMaster \in Seq(Items)
  BY TurnFacts
<1>5. ~lost => Saving
  BY <1>1 DEF TurnInv, InPhase, Asking, Answering, Giving
<1> QED
  BY <1>1, <1>3, <1>4, <1>5 DEF Saving

LEMMA SaveTurn ==
  ASSUME TurnInv, Save
  PROVE  TurnInv'
<1>1. /\ master.pc = "save" /\ ToMaster # <<>> /\ CanTake("master")
      /\ Next1("master") = Head(ToMaster) /\ ~Ends(Head(ToMaster))
      /\ saved' = [saved EXCEPT ![master.i] = Append(saved[master.i], Head(ToMaster))]
      /\ wire' = Taken("master") /\ UNCHANGED <<master, client, read, lost>>
  BY DEF Save, CanTake, Next1, ToMaster
<1>2. /\ Sound(wire') /\ wire'.held = wire.held
      /\ ToMaster' = Tail(ToMaster) /\ ToClient' = ToClient
  BY <1>1, TakenIs, TwoSides DEF TurnInv, ToMaster, ToClient
<1>3. /\ EndsLast(ToMaster) /\ ToMaster \in Seq(Items)
      /\ Head(ToMaster) \in Items
  BY <1>1, SavingFinds, ItemsTyped, StreamTail
<1>4. saved' \in [Logs -> Seq(Items)]
  <2>1. saved \in [Logs -> Seq(Items)] /\ master.i \in Logs
    BY TypesAre DEF TurnInv
  <2> QED
    BY <1>1, <1>3, <2>1
<1>5. TypeOK'
  BY <1>1, <1>2, <1>4 DEF TurnInv, TypeOK, Sound, Nets
<1>6. EndsHeld' /\ ClientHears'
  BY <1>1, <1>2 DEF TurnInv, EndsHeld, ClientHears, Talking, Serving
<1>7. MasterHears'
  BY <1>1, <1>2, <1>3, StreamTail DEF MasterHears, MayHear, EndsLast
<1>8. InPhase'
  <2> SUFFICES ASSUME ~lost PROVE Saving'
    BY <1>1 DEF InPhase
  <2>1. CASE ToClient = <<>> /\ Abreast /\ client.pc \in {"send", "mark"} /\ ToMaster \in Seq(Blocks)
    <3>1. Tail(ToMaster) \in Seq(Blocks)
      BY <1>1, <1>3, <2>1, StreamTail
    <3> QED
      BY <1>1, <1>2, <2>1, <3>1 DEF Saving, Abreast
  <2>2. CASE /\ ToClient = <<>> /\ Ahead
             /\ CharSigned => ToMaster # <<>> /\ Last(ToMaster) = EOT
    <3>1. CharSigned => Tail(ToMaster) # <<>> /\ Last(Tail(ToMaster)) = EOT
      BY <1>1, <1>3, <2>2, StreamTail DEF Ends
    <3>2. CharSigned => ToMaster' # <<>> /\ Last(ToMaster)' = EOT
      BY <1>2, <3>1 DEF Last
    <3> QED
      BY <1>1, <1>2, <2>2, <3>2 DEF Saving, Ahead
  <2> QED
    BY <1>1, <2>1, <2>2, SavingFinds
<1> QED
  BY <1>2, <1>5, <1>6, <1>7, <1>8 DEF TurnInv

LEMMA SaveEndsTurn ==
  ASSUME TurnInv, SaveEnds \/ SaveLost
  PROVE  TurnInv'
<1>1. master.pc = "save" /\ UNCHANGED <<client, saved, read, lost>>
  BY DEF SaveEnds, SaveLost
<1>2. CASE SaveEnds
  <2>1. /\ ToMaster # <<>> /\ CanTake("master") /\ Head(ToMaster) = EOT /\ CharSigned
        /\ MasterNext(Taken("master"))
    BY <1>2 DEF SaveEnds, CanTake, Next1, Ends, ToMaster
  <2>2. Tail(ToMaster) = <<>>
    BY <1>1, <2>1, SavingFinds, StreamTail
  <2>3. ~lost => Ahead /\ ToClient = <<>>
    <3>1. ToMaster \notin Seq(Blocks)
      BY <2>1, ItemsApart
    <3> QED
      BY <1>1, <2>1, <3>1, SavingFinds
  <2>4. /\ Sound(Taken("master")) /\ Taken("master").held = wire.held
        /\ Taken("master").in["master"] = <<>> /\ Taken("master").in["client"] = ToClient
    BY <2>1, <2>2, TakenIs, TwoSides DEF TurnInv, ToMaster, ToClient
  <2> QED
    BY <1>1, <2>1, <2>3, <2>4, MasterGoesOn
<1>3. CASE SaveLost
  <2>1. ToMaster = <<>> /\ "client" \notin wire.held /\ MasterNext(Told("master"))
    BY <1>3, NoneComesIs, TwoSides DEF SaveLost, TurnInv, ToMaster
  <2>2. ~lost => Ahead /\ ToClient = <<>>
    BY <1>1, <2>1, SavingFinds DEF Abreast
  <2>3. /\ Sound(Told("master")) /\ Told("master").held = wire.held
        /\ Told("master").in["master"] = <<>> /\ Told("master").in["client"] = ToClient
    BY <2>1, ToldIs, TwoSides DEF TurnInv, ToMaster, ToClient
  <2> QED
    BY <1>1, <2>1, <2>2, <2>3, MasterGoesOn
<1> QED
  BY <1>2, <1>3

LEMMA MasterEndsTurn ==
  ASSUME TurnInv, MasterKilled \/ MasterExits
  PROVE  TurnInv'
<1>1. Talking
  BY TurnFacts DEF MasterKilled, MasterExits, Talking, MasterPcs
<1> QED
  BY <1>1, MasterLeaves DEF MasterKilled, MasterExits

LEMMA ConnectTurn ==
  ASSUME TurnInv, Connect
  PROVE  TurnInv'
<1>1. /\ master.pc = "sleep" /\ client.pc # "dead" /\ MasterAt("ask") /\ wire' = Fresh
      /\ saved' = [j \in Logs |-> <<>>] /\ read' = [j \in Logs |-> NothingRead]
      /\ lost' = FALSE /\ client' = client
  BY DEF Connect
<1>2. client = Idle("accept") /\ client.pc = "accept" /\ client.i = 0 /\ master.i = 0
  BY <1>1, TurnFacts DEF TurnInv, EndsHeld, Serving, Idle
<1>3. /\ master' \in [pc : MasterPcs, i : Logs] /\ master'.pc = "ask" /\ master'.i = 0
  BY <1>1, <1>2, TypesAre DEF TurnInv, MasterAt, MasterPcs
<1>4. /\ Sound(wire') /\ wire'.held = Sides /\ ToMaster' = <<>> /\ ToClient' = <<>>
  BY <1>1, FreshIs DEF ToMaster, ToClient
<1>5. saved' \in [Logs -> Seq(Items)] /\ read' \in [Logs -> ReadType]
  BY <1>1, LogsAre DEF ReadType, NothingRead
<1>6. TypeOK'
  BY <1>1, <1>3, <1>4, <1>5 DEF TurnInv, TypeOK, Sound, MasterPcs, Nets, ReadType
<1>7. EndsHeld'
  BY <1>1, <1>2, <1>3, <1>4, TwoSides DEF EndsHeld, Talking, Serving
<1>8. ClientHears' /\ MasterHears' /\ InPhase'
  BY <1>1, <1>2, <1>3, <1>4, TwoSides
     DEF ClientHears, MasterHears, MayHear, InPhase, Asking, Quiet, Abreast
<1> QED
  BY <1>4, <1>6, <1>7, <1>8 DEF TurnInv

\* The arrival of a reset changes nothing that a turn depends on.
LEMMA ResetTurn ==
  ASSUME TurnInv, NEW s \in Sides, ResetArrives(s)
  PROVE  TurnInv'
<1>1. /\ wire.net[s] = "doomed" /\ UNCHANGED <<master, client, saved, read, lost>>
      /\ wire' = [wire EXCEPT !.net = [wire.net EXCEPT ![s] = "broken"]]
  BY DEF ResetArrives
<1>2. /\ wire.in \in [Sides -> Seq(Items)] /\ wire.held \subseteq Sides
      /\ wire.net \in [Sides -> Nets]
      /\ wire = [in |-> wire.in, held |-> wire.held, net |-> wire.net]
  BY DEF TurnInv, Sound
<1> DEFINE n == [wire.net EXCEPT ![s] = "broken"]
<1>3. /\ n \in [Sides -> Nets] /\ \A p \in Sides : n[p] # "fine" => wire.net[p] # "fine"
  BY <1>1, <1>2 DEF Nets
<1> HIDE DEF n
<1>4. wire' = Wire(wire.in, wire.held, n)
  BY <1>1, <1>2 DEF Wire, n
<1>5. SoundParts(wire.in, wire.held, n)
  BY <1>2, <1>3 DEF TurnInv, Sound, SoundParts
<1>6. Sound(wire') /\ wire'.in = wire.in /\ wire'.held = wire.held
  BY <1>4, <1>5, SoundWire
<1>7. ToMaster' = ToMaster /\ ToClient' = ToClient
  BY <1>6 DEF ToMaster, ToClient
<1>8. TypeOK'
  BY <1>1, <1>6 DEF TurnInv, TypeOK, Sound, Nets
<1>9. EndsHeld' /\ ClientHears' /\ MasterHears'
  BY <1>1, <1>6, <1>7
     DEF TurnInv, EndsHeld, ClientHears, MasterHears, MayHear, EndsLast, Talking, Serving
<1>10. InPhase'
  <2>1. Ahead' = Ahead /\ Abreast' = Abreast /\ Quiet' = Quiet /\ Last(ToMaster)' = Last(ToMaster)
    BY <1>1, <1>6, <1>7 DEF Ahead, Abreast, Quiet, Last
  <2> QED
    BY <1>1, <1>7, <2>1 DEF TurnInv, InPhase, Talking, Asking, Answering, Giving, Saving
<1> QED
  BY <1>6, <1>8, <1>9, <1>10 DEF TurnInv

\* While the client serves, a master that talks is at the same log.
LEMMA ServingFinds ==
  ASSUME TurnInv, Serving
  PROVE  /\ "client" \in wire.held /\ (Talking => ~lost)
         /\ master.pc # "sleep" /\ ("master" \in wire.held <=> Talking)
         /\ ~Talking => ToMaster = <<>>
         /\ client.pc = "request" \/ client.i \in Logs
<1>1. "client" \in wire.held /\ master.pc # "sleep" /\ ("master" \in wire.held <=> Talking)
  BY DEF TurnInv, EndsHeld
<1>2. client.i \in Logs
  BY TypesAre DEF TurnInv, ClientType
<1> QED
  BY <1>1, <1>2, TurnFacts

\* The client goes on to its next log, or closes and accepts again.
LEMMA ClientGoesOn ==
  ASSUME TurnInv, Serving, NEW w, Sound(w), w.held = wire.held,
         w.in["client"] = <<>>, MayHear(w.in["master"]),
         Talking => /\ client.i = master.i
                    /\ \/ master.pc = "answer" /\ w.in["master"] = <<Wrong>>
                       \/ /\ master.pc = "save"
                          /\ CharSigned => /\ w.in["master"] # <<>>
                                           /\ Last(w.in["master"]) = EOT,
         ClientNext(w), UNCHANGED <<master, saved, lost>>, read' \in [Logs -> ReadType]
  PROVE  TurnInv'
<1>1. /\ "client" \in wire.held /\ (Talking => ~lost) /\ master.pc # "sleep"
      /\ "master" \in wire.held <=> Talking
      /\ client.i \in Nat /\ client.i < LogCount
  BY ServingFinds, TurnFacts
<1>2. MayHear(w.in["master"])' <=> MayHear(w.in["master"])
  BY DEF MayHear, EndsLast
<1>3. CASE client.i + 1 < LogCount
  <2>1. /\ client' = [Idle("request") EXCEPT !.i = client.i + 1] /\ wire' = w
        /\ client'.pc = "request" /\ client'.i = client.i + 1
        /\ ToMaster' = w.in["master"] /\ ToClient' = <<>> /\ wire'.held = wire.held
    BY <1>3 DEF ClientNext, ToMaster, ToClient, Idle
  <2>2. client' \in ClientType /\ Sound(wire')
    BY <1>1, <1>3, <2>1, LogsAre DEF ClientType, ClientPcs, Idle
  <2>3. TypeOK'
    BY <2>2 DEF TurnInv, TypeOK, Sound, Nets, ClientType, ClientPcs, ReadType
  <2>4. EndsHeld' /\ ClientHears' /\ MasterHears'
    BY <1>1, <2>1
       DEF TurnInv, EndsHeld, ClientHears, MasterHears, MayHear, EndsLast, Talking, Serving
  <2>5. InPhase'
    <3> SUFFICES ASSUME Talking PROVE Answering' \/ Saving'
      BY DEF InPhase, Talking
    <3>1. Ahead' /\ ToClient' = <<>>
      BY <2>1 DEF Ahead
    <3>2. Last(ToMaster)' = Last(w.in["master"])
      BY <2>1 DEF Last
    <3> QED
      BY <2>1, <3>1, <3>2 DEF Answering, Saving
  <2> QED
    BY <2>2, <2>3, <2>4, <2>5 DEF TurnInv
<1>4. CASE ~(client.i + 1 < LogCount)
  <2>1. client' = Idle("accept") /\ wire' = Closed(w, "client")
    BY <1>4 DEF ClientNext
  <2>2. /\ Sound(wire') /\ wire'.held = wire.held \ {"client"}
        /\ ToMaster' = w.in["master"] /\ ToClient' = <<>>
    BY <2>1, ClosedIs, TwoSides DEF ToMaster, ToClient
  <2>3. client' \in ClientType /\ client'.pc = "accept" /\ client'.i = 0
    BY <2>1, LogsAre DEF ClientType, ClientPcs, Idle
  <2>4. TypeOK'
    BY <2>2, <2>3 DEF TurnInv, TypeOK, Sound, Nets, ClientType, ClientPcs, ReadType
  <2>5. EndsHeld' /\ ClientHears' /\ MasterHears'
    BY <1>1, <2>1, <2>2, <2>3, TwoSides
       DEF TurnInv, EndsHeld, ClientHears, MasterHears, MayHear, EndsLast, Talking, Serving
  <2>6. InPhase'
    <3> SUFFICES ASSUME Talking PROVE Answering' \/ Saving'
      BY DEF InPhase, Talking
    <3>1. Ahead' /\ ToClient' = <<>>
      <4>1. master.i + 1 = LogCount
        BY <1>1, <1>4, LogsAre
      <4> QED
        BY <2>2, <2>3, <4>1 DEF Ahead
    <3>2. Last(ToMaster)' = Last(w.in["master"])
      BY <2>2 DEF Last
    <3> QED
      BY <2>2, <3>1, <3>2 DEF Answering, Saving
  <2> QED
    BY <2>2, <2>4, <2>5, <2>6 DEF TurnInv
<1> QED
  BY <1>3, <1>4

\* The client moves within its turn, and nothing is left for it to receive.
LEMMA ClientMoves ==
  ASSUME TurnInv, NEW w, Sound(w), w.held = wire.held, "client" \in wire.held,
         client' \in ClientType, client'.pc \in ClientPcs \ {"accept", "dead"},
         client'.i = client.i, wire' = w, w.in["client"] = <<>>, MayHear(w.in["master"]),
         Talking => /\ client.i = master.i
                    /\ \/ /\ master.pc = "ask" /\ w.in["master"] = <<>>
                          /\ client'.pc = "request"
                       \/ /\ master.pc = "answer" /\ w.in["master"] = <<>>
                          /\ client'.pc \in {"ok", "wrong"}
                       \/ /\ master.pc = "answer" /\ w.in["master"] = <<OK>>
                          /\ client'.pc = "command"
                       \/ /\ master.pc = "save" /\ w.in["master"] \in Seq(Blocks)
                          /\ client'.pc \in {"send", "mark"},
         UNCHANGED <<master, saved, lost>>, read' \in [Logs -> ReadType]
  PROVE  TurnInv'
<1>1. /\ wire'.held = wire.held /\ ToMaster' = w.in["master"] /\ ToClient' = <<>>
  BY DEF ToMaster, ToClient
<1>2. TypeOK'
  BY DEF TurnInv, TypeOK, Sound, Nets, ClientType, ClientPcs, ReadType
<1>3. master.pc # "sleep"
  BY DEF TurnInv, EndsHeld
<1>4. EndsHeld' /\ ClientHears' /\ MasterHears'
  BY <1>1, <1>3
     DEF TurnInv, EndsHeld, ClientHears, MasterHears, MayHear, EndsLast, Talking, Serving
<1>5. InPhase'
  <2> SUFFICES ASSUME Talking PROVE Asking' \/ Answering' \/ Saving'
    BY DEF InPhase, Talking
  <2>1. Abreast' /\ (Quiet' <=> w.in["master"] = <<>>)
    BY <1>1 DEF Abreast, Quiet
  <2> QED
    BY <1>1, <2>1 DEF Asking, Answering, Saving
<1> QED
  BY <1>2, <1>4, <1>5 DEF TurnInv

LEMMA AcceptTurn ==
  ASSUME TurnInv, Accept
  PROVE  TurnInv'
<1>1. /\ client.pc = "accept" /\ "client" \in wire.held /\ ClientAt("request")
      /\ UNCHANGED <<master, wire, saved, read, lost>>
  BY DEF Accept
<1>2. client' \in ClientType /\ client'.pc = "request" /\ client'.i = client.i
  BY <1>1, TypesAre DEF TurnInv, ClientAt, ClientType, ClientPcs
<1>3. TypeOK'
  BY <1>1, <1>2 DEF TurnInv, TypeOK, ClientType, ClientPcs
<1>4. Sound(wire') /\ ToMaster' = ToMaster /\ ToClient' = ToClient
  BY <1>1 DEF TurnInv, ToMaster, ToClient
<1>5. EndsHeld' /\ ClientHears' /\ MasterHears'
  BY <1>1, <1>2, <1>4
     DEF TurnInv, EndsHeld, ClientHears, MasterHears, MayHear, EndsLast, Talking, Serving
<1>6. InPhase'
  BY <1>1, <1>2, <1>4
     DEF TurnInv, InPhase, Asking, Answering, Giving, Saving, Abreast, Ahead, Quiet, Talking
<1> QED
  BY <1>3, <1>4, <1>5, <1>6 DEF TurnInv

LEMMA ReadRequestTurn ==
  ASSUME TurnInv, ReadRequest \/ ReadNoRequest
  PROVE  TurnInv'
<1>1. /\ client.pc = "request" /\ Serving
      /\ UNCHANGED <<master, saved, read, lost>>
  BY DEF ReadRequest, ReadNoRequest, Serving
<1>2. /\ "client" \in wire.held /\ (Talking => ~lost) /\ ("master" \in wire.held <=> Talking)
      /\ ~Talking => ToMaster = <<>>
      /\ client \in ClientType /\ read \in [Logs -> ReadType]
  BY <1>1, ServingFinds, TypesAre DEF TurnInv
<1>3. CASE ReadNoRequest
  <2>1. ClientAt("wrong") /\ wire' = Told("client") /\ ~Talking /\ ToClient = <<>>
    BY <1>2, <1>3, NoneComesIs, TwoSides DEF ReadNoRequest, TurnInv, ToClient
  <2>2. /\ Sound(Told("client")) /\ Told("client").held = wire.held
        /\ Told("client").in["client"] = <<>> /\ Told("client").in["master"] = ToMaster
    BY <2>1, ToldIs, TwoSides DEF TurnInv, ToMaster, ToClient
  <2>3. client' \in ClientType /\ client'.pc = "wrong" /\ client'.i = client.i
    BY <1>2, <2>1 DEF ClientAt, ClientType, ClientPcs
  <2>4. MayHear(Told("client").in["master"])
    BY <2>2 DEF TurnInv, MasterHears
  <2> QED
    BY <1>1, <1>2, <2>1, <2>2, <2>3, <2>4, ClientMoves DEF ClientPcs
<1>4. CASE ReadRequest
  <2>1. PICK pc \in {"ok", "wrong"} :
          ClientAt(pc) /\ wire' = Taken("client") /\ CanTake("client")
    BY <1>4 DEF ReadRequest
  <2>2. ToClient = <<Name(client.i)>>
    BY <1>1, <2>1 DEF TurnInv, ClientHears, CanTake, ToClient
  <2>3. /\ Sound(Taken("client")) /\ Taken("client").held = wire.held
        /\ Taken("client").in["client"] = <<>> /\ Taken("client").in["master"] = ToMaster
    <3>1. Tail(ToClient) = <<>>
      BY <2>2, Singletons
    <3> QED
      BY <2>1, <3>1, TakenIs, TwoSides DEF TurnInv, ToMaster, ToClient
  <2>4. client' \in ClientType /\ client'.pc = pc /\ client'.i = client.i
    BY <1>2, <2>1 DEF ClientAt, ClientType, ClientPcs
  <2>5. Talking => client.i = master.i /\ master.pc = "answer" /\ ToMaster = <<>>
    <3>1. ToClient # <<>> /\ ToClient # <<GiveMe>>
      BY <2>2, Singletons, ItemsApart
    <3> QED
      BY <1>1, <1>2, <3>1 
         DEF TurnInv, InPhase, Asking, Answering, Giving, Saving, Quiet, Abreast
  <2>6. MayHear(Taken("client").in["master"])
    BY <2>3 DEF TurnInv, MasterHears
  <2>7. client'.pc \in {"ok", "wrong"} /\ client'.pc \in ClientPcs \ {"accept", "dead"}
    BY <2>4 DEF ClientPcs
  <2>8. Talking => /\ client.i = master.i /\ master.pc = "answer"
                   /\ Taken("client").in["master"] = <<>> /\ client'.pc \in {"ok", "wrong"}
    BY <2>3, <2>5, <2>7
  <2> QED
    BY <1>1, <1>2, <2>1, <2>3, <2>4, <2>6, <2>7, <2>8, ClientMoves
<1> QED
  BY <1>3, <1>4

LEMMA AnswerTurn ==
  ASSUME TurnInv, AnswerOK \/ AnswerWrong
  PROVE  TurnInv'
<1> DEFINE item == IF client.pc = "ok" THEN OK ELSE Wrong
           w == Sent(wire, "client", item)
<1>1. /\ client.pc \in {"ok", "wrong"} /\ Serving /\ wire.net["client"] # "broken"
      /\ UNCHANGED <<master, saved, read, lost>>
  BY DEF AnswerOK, AnswerWrong, Serving, Raises
<1>2. /\ "client" \in wire.held /\ (Talking => ~lost) /\ ("master" \in wire.held <=> Talking)
      /\ ~Talking => ToMaster = <<>>
      /\ client \in ClientType /\ read \in [Logs -> ReadType]
  BY <1>1, ServingFinds, TypesAre DEF TurnInv
<1>3. ToClient = <<>>
  BY <1>1 DEF TurnInv, ClientHears
<1>4. Talking => ToMaster = <<>> /\ master.pc = "answer" /\ client.i = master.i
  BY <1>1, <1>2 DEF TurnInv, InPhase, Asking, Answering, Giving, Saving, Quiet, Abreast, Ahead
<1>5. /\ Sound(w) /\ w.held = wire.held /\ w.in["client"] = <<>>
      /\ w.in["master"] = IF Talking THEN <<item>> ELSE <<>>
  <2>1. item \in Items
    BY ItemsTyped
  <2> HIDE DEF item
  <2>2. /\ Sound(w) /\ w.held = wire.held /\ w.in["client"] = ToClient
        /\ w.in["master"] = IF Talking THEN Append(ToMaster, item) ELSE ToMaster
    BY <1>1, <1>2, <2>1, SentIs, TwoSides DEF TurnInv, ToMaster, ToClient
  <2>3. Append(<<>>, item) = <<item>>
    OBVIOUS
  <2>4. Talking => ToMaster = <<>>
    BY <1>4
  <2> QED
    BY <1>2, <1>3, <2>2, <2>3, <2>4
<1>6. MayHear(w.in["master"])
  BY <1>4, <1>5 DEF MayHear
<1>7. CASE AnswerOK
  <2>1. ClientAt("command") /\ item = OK /\ wire' = w
    BY <1>7 DEF AnswerOK
  <2>2. client' \in ClientType /\ client'.pc = "command" /\ client'.i = client.i
    BY <1>2, <2>1 DEF ClientAt, ClientType, ClientPcs
  <2> HIDE DEF w, item
  <2> QED
    BY <1>1, <1>2, <1>4, <1>5, <1>6, <2>1, <2>2, ClientMoves DEF ClientPcs
<1>8. CASE AnswerWrong
  <2>1. ClientNext(w) /\ item = Wrong
    BY <1>8 DEF AnswerWrong
  <2> HIDE DEF w, item
  <2> QED
    BY <1>1, <1>2, <1>4, <1>5, <1>6, <2>1, ClientGoesOn
<1> QED
  BY <1>1, <1>7, <1>8

LEMMA ReadCommandTurn ==
  ASSUME TurnInv, ReadCommand \/ ReadNoCommand
  PROVE  TurnInv'
<1>1. /\ client.pc = "command" /\ Serving
      /\ UNCHANGED <<master, saved, read, lost>>
  BY DEF ReadCommand, ReadNoCommand, Serving
<1>2. /\ "client" \in wire.held /\ (Talking => ~lost) /\ ("master" \in wire.held <=> Talking)
      /\ ~Talking => ToMaster = <<>>
      /\ client \in ClientType /\ read \in [Logs -> ReadType]
  BY <1>1, ServingFinds, TypesAre DEF TurnInv
<1>3. CASE ReadNoCommand
  <2>1. ClientNext(Told("client")) /\ ~Talking /\ ToClient = <<>>
    BY <1>2, <1>3, NoneComesIs, TwoSides DEF ReadNoCommand, TurnInv, ToClient
  <2>2. /\ Sound(Told("client")) /\ Told("client").held = wire.held
        /\ Told("client").in["client"] = <<>> /\ Told("client").in["master"] = ToMaster
    BY <2>1, ToldIs, TwoSides DEF TurnInv, ToMaster, ToClient
  <2>3. MayHear(Told("client").in["master"])
    BY <2>2 DEF TurnInv, MasterHears
  <2> QED
    BY <1>1, <1>2, <2>1, <2>2, <2>3, ClientGoesOn
<1>4. CASE ReadCommand
  <2>1. CanTake("client") /\ ToClient # <<>> /\ Next1("client") = Head(ToClient)
    BY <1>4 DEF ReadCommand, CanTake, Next1, ToClient
  <2>2. ToClient = <<GiveMe>>
    BY <1>1, <2>1 DEF TurnInv, ClientHears
  <2>3. Tail(ToClient) = <<>> /\ Next1("client") = GiveMe
    BY <2>1, <2>2, Singletons
  <2>4. ClientAt("send") /\ wire' = Taken("client")
    BY <1>4, <2>3 DEF ReadCommand
  <2>5. /\ Sound(Taken("client")) /\ Taken("client").held = wire.held
        /\ Taken("client").in["client"] = <<>> /\ Taken("client").in["master"] = ToMaster
    BY <2>1, <2>3, TakenIs, TwoSides DEF TurnInv, ToMaster, ToClient
  <2>6. /\ client' \in ClientType /\ client'.pc = "send" /\ client'.i = client.i
        /\ client'.pc \in ClientPcs \ {"accept", "dead"}
    BY <1>2, <2>4 DEF ClientAt, ClientType, ClientPcs
  <2>7. Talking => client.i = master.i /\ master.pc = "save" /\ ToMaster = <<>>
    BY <1>1, <1>2, <2>1
       DEF TurnInv, InPhase, Asking, Answering, Giving, Saving, Quiet, Abreast, Ahead
  <2>8. Talking => /\ client.i = master.i /\ master.pc = "save"
                   /\ Taken("client").in["master"] \in Seq(Blocks)
                   /\ client'.pc \in {"send", "mark"}
    <3>1. <<>> \in Seq(Blocks)
      OBVIOUS
    <3>2. Talking => Taken("client").in["master"] = <<>>
      BY <2>5, <2>7
    <3> QED
      BY <2>6, <2>7, <3>1, <3>2
  <2>9. MayHear(Taken("client").in["master"])
    BY <2>5 DEF TurnInv, MasterHears
  <2> QED
    BY <1>1, <1>2, <2>4, <2>5, <2>6, <2>8, <2>9, ClientMoves
<1> QED
  BY <1>3, <1>4

\* What the client finds in sendFile, and what a send of its leaves.
LEMMA SendingFinds ==
  ASSUME TurnInv, client.pc \in {"send", "mark"}
  PROVE  /\ Serving /\ "client" \in wire.held /\ (Talking => ~lost)
         /\ "master" \in wire.held <=> Talking
         /\ ~Talking => ToMaster = <<>>
         /\ client \in ClientType /\ read \in [Logs -> ReadType]
         /\ client.i \in Logs /\ client.line \in 0 .. MaxBlocks /\ client.n \in 0 .. MaxBlocks
         /\ ToClient = <<>>
         /\ Talking => /\ client.i = master.i /\ master.pc = "save"
                       /\ ToMaster \in Seq(Blocks)
<1>1. Serving
  BY DEF Serving
<1>2. /\ "client" \in wire.held /\ (Talking => ~lost) /\ ("master" \in wire.held <=> Talking)
      /\ ~Talking => ToMaster = <<>>
  BY <1>1, ServingFinds
<1>3. client \in ClientType /\ read \in [Logs -> ReadType]
  BY TypesAre DEF TurnInv
<1>4. ToClient = <<>>
  BY DEF TurnInv, ClientHears
<1>5. Talking => client.i = master.i /\ master.pc = "save" /\ ToMaster \in Seq(Blocks)
  BY <1>2 DEF TurnInv, InPhase, Asking, Answering, Giving, Saving, Quiet, Abreast, Ahead
<1> QED
  BY <1>1, <1>2, <1>3, <1>4, <1>5 DEF ClientType

LEMMA SendingLeaves ==
  ASSUME TurnInv, client.pc \in {"send", "mark"}, NEW item \in Blocks \cup {EOT},
         wire.net["client"] # "broken"
  PROVE  LET w == Sent(wire, "client", item)
         IN  /\ Sound(w) /\ w.held = wire.held /\ w.in["client"] = <<>>
             /\ w.in["master"] = IF Talking THEN Append(ToMaster, item) ELSE <<>>
             /\ MayHear(w.in["master"])
             /\ Talking /\ item \in Blocks => w.in["master"] \in Seq(Blocks)
             /\ Talking /\ item = EOT => w.in["master"] # <<>> /\ Last(w.in["master"]) = EOT
<1> DEFINE w == Sent(wire, "client", item)
<1>1. item \in Items
  BY ItemsTyped
<1>2. /\ Sound(w) /\ w.held = wire.held /\ w.in["client"] = <<>>
      /\ w.in["master"] = IF Talking THEN Append(ToMaster, item) ELSE <<>>
  BY <1>1, SendingFinds, SentIs, TwoSides DEF TurnInv, ToMaster, ToClient
<1> HIDE DEF w
<1>3. CASE Talking
  <2>1. ToMaster \in Seq(Blocks) /\ master.pc = "save"
    BY <1>3, SendingFinds
  <2> DEFINE q == Append(ToMaster, item)
  <2>2. /\ Len(q) = Len(ToMaster) + 1 /\ q[Len(q)] = item /\ q # <<>>
        /\ \A k \in 1 .. Len(ToMaster) : q[k] \in Blocks
        /\ DOMAIN q = 1 .. Len(ToMaster) + 1 /\ Len(ToMaster) \in Nat
        /\ item \in Blocks => q \in Seq(Blocks)
    BY <2>1
  <2> HIDE DEF q
  <2>3. EndsLast(q)
    BY <2>2 DEF EndsLast
  <2>4. w.in["master"] = q
    BY <1>2, <1>3 DEF q
  <2> QED
    BY <1>2, <1>3, <2>1, <2>2, <2>3, <2>4 DEF MayHear, w, Last, q
<1>4. CASE ~Talking
  BY <1>2, <1>4 DEF MayHear, w
<1> QED
  BY <1>3, <1>4

\* A send after the reset was reported ends the turn.
LEMMA TurnBroken ==
  ASSUME TurnInv, client.pc \in {"send", "mark"}, wire.net["client"] = "reset",
         ClientNext(Told("client")), UNCHANGED <<master, saved, lost>>,
         read' \in [Logs -> ReadType]
  PROVE  TurnInv'
<1>1. ~Talking
  BY SendingFinds, TwoSides DEF TurnInv, Sound
<1>2. /\ Sound(Told("client")) /\ Told("client").held = wire.held
      /\ Told("client").in["client"] = <<>> /\ Told("client").in["master"] = ToMaster
  BY SendingFinds, ToldIs, TwoSides DEF TurnInv, ToMaster, ToClient
<1>3. MayHear(Told("client").in["master"])
  BY <1>2 DEF TurnInv, MasterHears
<1> QED
  BY <1>1, <1>2, <1>3, SendingFinds, ClientGoesOn

\* sendFile sends what line holds, or nothing.
LEMMA LineTurn ==
  ASSUME TurnInv, client.pc = "send", NEW text \in 0 .. MaxBlocks, NEW then,
         SendsLine(text, then), then \in ClientType, then.pc \in {"send", "mark"},
         then.i = client.i, UNCHANGED <<master, saved, lost>>, read' \in [Logs -> ReadType]
  PROVE  TurnInv'
<1>1. wire.net["client"] # "broken"
  BY DEF SendsLine, Raises
<1>2. CASE wire.net["client"] = "reset"
  BY <1>2, TurnBroken DEF SendsLine
<1>3. CASE wire.net["client"] # "reset"
  <2> DEFINE w == IF text = 0 THEN wire ELSE Sent(wire, "client", Block(text))
  <2>1. client' = then /\ wire' = w
    BY <1>3 DEF SendsLine
  <2>2. text # 0 => Block(text) \in Blocks
    BY LogsAre DEF Blocks
  <2>3. /\ Sound(w) /\ w.held = wire.held /\ w.in["client"] = <<>>
        /\ MayHear(w.in["master"]) /\ (Talking => w.in["master"] \in Seq(Blocks))
    <3>1. CASE text = 0
      BY <3>1, SendingFinds DEF TurnInv, MasterHears, ToMaster, ToClient
    <3>2. CASE text # 0
      BY <1>1, <2>2, <3>2, SendingLeaves
    <3> QED
      BY <3>1, <3>2
  <2> HIDE DEF w
  <2>4. client'.pc \in ClientPcs \ {"accept", "dead"}
    BY <2>1 DEF ClientPcs
  <2> QED
    BY <2>1, <2>3, <2>4, SendingFinds, ClientMoves
<1> QED
  BY <1>2, <1>3

LEMMA SendTurn ==
  ASSUME TurnInv, SendBlock \/ SendLast
  PROVE  TurnInv'
<1>1. client.pc = "send" /\ UNCHANGED <<master, saved, lost>>
  BY DEF SendBlock, SendLast
<1>2. /\ client \in ClientType /\ read \in [Logs -> ReadType] /\ client.i \in Logs
      /\ client.line \in 0 .. MaxBlocks /\ client.n \in 0 .. MaxBlocks
  BY <1>1, SendingFinds
<1>3. CASE SendLast
  <2> DEFINE then == [client EXCEPT !.pc = "mark"]
  <2>1. SendsLine(client.line, then) /\ read' = read
    BY <1>3 DEF SendLast
  <2>2. then \in ClientType /\ then.pc = "mark" /\ then.i = client.i
    BY <1>2 DEF ClientType, ClientPcs
  <2> HIDE DEF then
  <2> QED
    BY <1>1, <1>2, <2>1, <2>2, LineTurn
<1>4. CASE SendBlock
  <2>1. PICK text \in {0, client.n + 1} :
          /\ read' = [read EXCEPT ![client.i] = ReadOn(read[client.i], text)]
          /\ SendsLine(text, [client EXCEPT !.n = client.n + 1, !.line = text])
    BY <1>4 DEF SendBlock
  <2>2. text \in 0 .. MaxBlocks /\ client.n + 1 \in 0 .. MaxBlocks
    BY <1>2, <1>4, LogsAre DEF SendBlock
  <2> DEFINE then == [client EXCEPT !.n = client.n + 1, !.line = text]
  <2>3. then \in ClientType /\ then.pc = "send" /\ then.i = client.i
    BY <1>1, <1>2, <2>2 DEF ClientType, ClientPcs
  <2>4. ReadOn(read[client.i], text) \in ReadType
    <3>1. read[client.i].texts \in Seq(Blocks)
      BY <1>2 DEF ReadType
    <3>2. text # 0 => Block(text) \in Blocks
      BY <2>2, LogsAre DEF Blocks
    <3> QED
      BY <2>2, <3>1, <3>2 DEF ReadType, ReadOn
  <2>5. read' \in [Logs -> ReadType]
    BY <1>2, <2>1, <2>4
  <2>6. SendsLine(text, then)
    BY <2>1
  <2> HIDE DEF then
  <2> QED
    BY <1>1, <2>2, <2>3, <2>5, <2>6, LineTurn
<1> QED
  BY <1>3, <1>4

LEMMA SendMarkTurn ==
  ASSUME TurnInv, SendMark
  PROVE  TurnInv'
<1>1. /\ client.pc = "mark" /\ wire.net["client"] # "broken"
      /\ ClientNext(Sent(wire, "client", EOT)) /\ UNCHANGED <<master, saved, read, lost>>
  BY DEF SendMark, Raises
<1> DEFINE w == Sent(wire, "client", EOT)
<1>2. /\ Sound(w) /\ w.held = wire.held /\ w.in["client"] = <<>> /\ MayHear(w.in["master"])
      /\ Talking => w.in["master"] # <<>> /\ Last(w.in["master"]) = EOT
  BY <1>1, SendingLeaves
<1>3. ClientNext(w)
  BY <1>1
<1> HIDE DEF w
<1> QED
  BY <1>1, <1>2, <1>3, SendingFinds, ClientGoesOn

LEMMA ClientEndsTurn ==
  ASSUME TurnInv, ClientEnds
  PROVE  TurnInv'
<1>1. /\ client' = Idle("dead") /\ lost' = TRUE /\ UNCHANGED <<master, saved, read>>
      /\ wire' = Left(wire, "client", wire.in["client"] # <<>> \/ client.pc = "accept")
  BY DEF ClientEnds
<1>2. /\ Sound(wire') /\ wire'.held = wire.held \ {"client"}
      /\ ToMaster' = ToMaster /\ ToClient' = <<>>
  <2> DEFINE rudely == wire.in["client"] # <<>> \/ client.pc = "accept"
  <2>1. wire' = Left(wire, "client", rudely)
    BY <1>1
  <2> HIDE DEF rudely
  <2> QED
    BY <2>1, LeftIs, TwoSides DEF TurnInv, ToMaster, ToClient
<1>3. client' \in ClientType /\ client'.pc = "dead"
  BY <1>1, LogsAre DEF ClientType, ClientPcs, Idle
<1>4. TypeOK'
  BY <1>1, <1>2, <1>3 DEF TurnInv, TypeOK, Sound, Nets, ClientType, ClientPcs
<1>5. EndsHeld' /\ ClientHears' /\ MasterHears' /\ InPhase'
  BY <1>1, <1>2, <1>3, TwoSides
     DEF TurnInv, EndsHeld, ClientHears, MasterHears, MayHear, EndsLast, InPhase, Talking,
         Serving
<1> QED
  BY <1>2, <1>4, <1>5 DEF TurnInv

LEMMA ClientStartsTurn ==
  ASSUME TurnInv, ClientStarts
  PROVE  TurnInv'
<1>1. /\ client.pc = "dead" /\ client' = Idle("accept")
      /\ UNCHANGED <<master, wire, saved, read, lost>>
  BY DEF ClientStarts
<1>2. "client" \notin wire.held /\ ToClient = <<>>
  BY <1>1, TurnFacts DEF TurnInv, EndsHeld
<1>3. client' \in ClientType /\ client'.pc = "accept"
  BY <1>1, LogsAre DEF ClientType, ClientPcs, Idle
<1>4. TypeOK' /\ Sound(wire') /\ ToMaster' = ToMaster /\ ToClient' = <<>>
  BY <1>1, <1>2, <1>3 DEF TurnInv, TypeOK, ClientType, ClientPcs, ToMaster, ToClient
<1>5. ~(Talking /\ ~lost)
  BY <1>1, <1>2
     DEF TurnInv, InPhase, Asking, Answering, Giving, Saving, Abreast, Ahead
<1>6. EndsHeld' /\ ClientHears' /\ MasterHears' /\ InPhase'
  BY <1>1, <1>2, <1>3, <1>4, <1>5
     DEF TurnInv, EndsHeld, ClientHears, MasterHears, MayHear, EndsLast, InPhase, Talking,
         Serving
<1> QED
  BY <1>4, <1>6 DEF TurnInv

LEMMA InitTurnInv == Init => TurnInv
<1> SUFFICES ASSUME Init PROVE TurnInv
  OBVIOUS
<1>1. /\ master = [pc |-> "sleep", i |-> 0] /\ client = Idle("accept")
      /\ wire = Closed(Closed(Fresh, "client"), "master")
      /\ saved = [j \in Logs |-> <<>>] /\ read = [j \in Logs |-> NothingRead] /\ lost = FALSE
  BY DEF Init
<1>2. /\ Sound(wire) /\ wire.held = {} /\ ToMaster = <<>> /\ ToClient = <<>>
  <2> DEFINE once == Closed(Fresh, "client")
  <2>1. Sound(once) /\ once.held = Sides \ {"client"} /\ once.in["client"] = <<>>
    BY FreshIs, ClosedIs, TwoSides
  <2> HIDE DEF once
  <2>2. wire = Closed(once, "master")
    BY <1>1 DEF once
  <2> QED
    BY <2>1, <2>2, ClosedIs, TwoSides DEF ToMaster, ToClient
<1>3. /\ master \in [pc : MasterPcs, i : Logs] /\ client \in ClientType
      /\ client.pc = "accept" /\ master.pc = "sleep" /\ master.i = 0
  BY <1>1, LogsAre DEF MasterPcs, ClientType, ClientPcs, Idle
<1>4. saved \in [Logs -> Seq(Items)] /\ read \in [Logs -> ReadType]
  BY <1>1, LogsAre DEF ReadType, NothingRead
<1>5. TypeOK
  BY <1>1, <1>2, <1>3, <1>4, TypesAre DEF Sound
<1> QED
  BY <1>1, <1>2, <1>3, <1>5, TwoSides
     DEF TurnInv, EndsHeld, ClientHears, MasterHears, MayHear, InPhase, Talking, Serving

LEMMA StepTurnInv == TurnInv /\ [Next]_vars => TurnInv'
<1> SUFFICES ASSUME TurnInv, [Next]_vars PROVE TurnInv'
  OBVIOUS
<1>1. CASE Connect
  BY <1>1, ConnectTurn
<1>2. CASE MasterStep
  BY <1>2, MasterSendsTurn, ReadAnswerTurn, SaveTurn, SaveEndsTurn, MasterEndsTurn
     DEF MasterStep
<1>3. CASE ClientStep
  BY <1>3, AcceptTurn, ReadRequestTurn, AnswerTurn, ReadCommandTurn, SendTurn, SendMarkTurn,
     ClientEndsTurn DEF ClientStep, ClientKilled, ClientBackup
<1>4. CASE Faults
  BY <1>4, MasterEndsTurn, ClientEndsTurn, ClientStartsTurn DEF Faults, ClientExits
<1>5. CASE \E s \in Sides : ResetArrives(s)
  BY <1>5, ResetTurn
<1>6. CASE UNCHANGED vars
  <2>1. UNCHANGED <<master, client, wire, saved, read, lost>>
    BY <1>6 DEF vars
  <2> QED
    BY <2>1 DEF TurnInv, TypeOK, Sound, EndsHeld, ClientHears, MasterHears, MayHear, EndsLast,
                InPhase, Talking, Serving, Asking, Answering, Giving, Saving, Abreast, Ahead,
                Quiet, ToMaster, ToClient, Last
<1> QED
  BY <1>1, <1>2, <1>3, <1>4, <1>5, <1>6 DEF Next

\* The whole of the invariant of the turns.
THEOREM TurnsInvariant == Spec => []TurnInv
  BY InitTurnInv, StepTurnInv, PTL DEF Spec

\* Every part of the state of the conversation holds what the code can put
\* there.
THEOREM TypesCorrect == Spec => []TypeOK
<1>1. TurnInv => TypeOK
  BY DEF TurnInv
<1> QED
  BY <1>1, TurnsInvariant, PTL

\* The loops of chatToclient and listenServer stay in step, whichever process
\* ends and when: each finds in its recv what the other sent for that turn.
THEOREM LoopsStayInStep == Spec => []InStep
<1>1. TurnInv => InStep
  <2> SUFFICES ASSUME TurnInv PROVE InStep
    OBVIOUS
  <2>1. client.pc = "request" /\ CanTake("client") => Next1("client") = Name(client.i)
    BY Singletons DEF TurnInv, ClientHears, CanTake, Next1, ToClient
  <2>2. client.pc = "command" /\ CanTake("client") => Next1("client") = GiveMe
    BY Singletons DEF TurnInv, ClientHears, CanTake, Next1, ToClient
  <2>3. master.pc = "answer" /\ CanTake("master") => Next1("master") \in {OK, Wrong}
    BY Singletons DEF TurnInv, MasterHears, MayHear, CanTake, Next1, ToMaster
  <2>4. master.pc = "sleep" => client.pc \in {"accept", "dead"}
    BY DEF TurnInv, EndsHeld, Serving
  <2> QED
    BY <2>1, <2>2, <2>3, <2>4 DEF InStep
<1> QED
  BY <1>1, TurnsInvariant, PTL

\* With a signed char, as on x86, master and client are never both in a recv
\* that waits for the other.
THEOREM SomebodySpeaks == CharSigned /\ Spec => []NeverBothWait
<1>1. CharSigned /\ TurnInv => NeverBothWait
  <2> SUFFICES ASSUME CharSigned, TurnInv,
                      master.pc \in {"answer", "save"}, Waits("master"),
                      client.pc \in {"request", "command"}, Waits("client")
               PROVE  FALSE
    BY DEF NeverBothWait
  <2>1. ToMaster = <<>> /\ ToClient = <<>> /\ Talking /\ "client" \in wire.held
    BY TwoSides DEF Waits, CanTake, NoneComes, ToMaster, ToClient, Talking
  <2>2. Answering \/ Saving
    BY <2>1, TurnFacts DEF TurnInv, InPhase, Asking, Giving
  <2>3. <<OK>> # <<>> /\ <<Wrong>> # <<>> /\ <<GiveMe>> # <<>> /\ <<Name(master.i)>> # <<>>
    BY Singletons
  <2> QED
    BY <2>1, <2>2, <2>3 DEF Answering, Saving
<1>2. CASE CharSigned
  <2>1. TurnInv => NeverBothWait
    BY <1>1, <1>2
  <2> QED
    BY <2>1, TurnsInvariant, PTL
<1>3. CASE ~CharSigned
  BY <1>3
<1> QED
  BY <1>2, <1>3

(***************************************************************************)
(* The texts: what is saved, what is coming, what was read.                *)
(***************************************************************************)
Begins(t, u) == Len(t) <= Len(u) /\ \A k \in 1 .. Len(t) : u[k] = t[k]

LEMMA TextsAre ==
  ASSUME NEW q \in Seq(Items)
  PROVE  /\ Texts(q) \in Nat /\ Texts(q) <= Len(q)
         /\ q = <<>> => Texts(q) = 0
         /\ q \in Seq(Blocks) => Texts(q) = Len(q)
<1>1. Len(q) \in Nat /\ (q # <<>> => Len(q) >= 1)
  OBVIOUS
<1>2. q \in Seq(Blocks) /\ q # <<>> => q[Len(q)] \in Blocks
  BY <1>1
<1> QED
  BY <1>1, <1>2, ItemsApart DEF Texts

\* Nothing more comes.
LEMMA FollowsAlone ==
  ASSUME NEW s \in Seq(Items), NEW q \in Seq(Items), NEW t \in Seq(Blocks), Follows(s, q, t)
  PROVE  Follows(s, <<>>, t)
<1>1. Texts(<<>>) = 0 /\ Texts(q) \in Nat /\ Len(s) \in Nat /\ Len(t) \in Nat
  BY TextsAre DEF Texts
<1> QED
  BY <1>1 DEF Follows

\* More has been read than was sent.
LEMMA FollowsMore ==
  ASSUME NEW s \in Seq(Items), NEW q \in Seq(Items), NEW t \in Seq(Blocks),
         NEW u \in Seq(Blocks), Follows(s, q, t), Begins(t, u)
  PROVE  Follows(s, q, u)
<1>1. Texts(q) \in Nat /\ Len(s) \in Nat /\ Len(t) \in Nat /\ Len(u) \in Nat
  BY TextsAre
<1>2. Len(s) + Texts(q) <= Len(u)
  BY <1>1 DEF Follows, Begins
<1>3. ASSUME NEW k \in 1 .. Len(s) PROVE s[k] = u[k]
  <2>1. k \in 1 .. Len(t)
    BY <1>1 DEF Follows
  <2> QED
    BY <2>1 DEF Follows, Begins
<1>4. ASSUME NEW k \in 1 .. Texts(q) PROVE q[k] = u[Len(s) + k]
  <2>1. Len(s) + k \in 1 .. Len(t)
    BY <1>1 DEF Follows
  <2> QED
    BY <2>1 DEF Follows, Begins
<1> QED
  BY <1>2, <1>3, <1>4 DEF Follows

\* A block arrives: one more is saved, and one less is coming.
LEMMA FollowsSaved ==
  ASSUME NEW s \in Seq(Items), NEW q \in Seq(Items), NEW t \in Seq(Blocks),
         Follows(s, q, t), q # <<>>, EndsLast(q), Head(q) # EOT
  PROVE  /\ Follows(Append(s, Head(q)), Tail(q), t)
         /\ Len(Append(s, Head(q))) + Texts(Tail(q)) = Len(s) + Texts(q)
<1> DEFINE b == Head(q)
           p == Tail(q)
           r == Append(s, b)
<1>1. /\ Len(q) \in Nat /\ Len(q) >= 1 /\ b = q[1] /\ p \in Seq(Items)
      /\ b \in Items
      /\ Len(p) = Len(q) - 1 /\ \A k \in 1 .. Len(q) - 1 : p[k] = q[k+1]
      /\ p = <<>> <=> Len(q) = 1
  <2>1. /\ Len(q) \in Nat /\ Len(q) >= 1 /\ b = q[1] /\ p \in Seq(Items)
        /\ Len(p) = Len(q) - 1 /\ \A k \in 1 .. Len(q) - 1 : p[k] = q[k+1]
    OBVIOUS
  <2>2. b \in Items
    BY <2>1
  <2> HIDE DEF b, p
  <2>3. p = <<>> <=> Len(p) = 0
    BY <2>1
  <2> QED
    BY <2>1, <2>2, <2>3
<1>2. /\ Len(s) \in Nat /\ Len(r) = Len(s) + 1 /\ r[Len(s) + 1] = b
      /\ \A k \in 1 .. Len(s) : r[k] = s[k]
  BY <1>1
<1> HIDE DEF b, p, r
<1>3. /\ Texts(p) = Texts(q) - 1 /\ Texts(p) \in Nat
      /\ Texts(q) \in Nat /\ Texts(q) <= Len(q)
  <2>1. CASE p = <<>>
    BY <1>1, <2>1 DEF Texts, b
  <2>2. CASE p # <<>>
    <3>1. Len(q) - 1 \in 1 .. Len(q) - 1 /\ (Len(q) - 1) + 1 = Len(q)
      BY <1>1, <2>2
    <3>2. p[Len(p)] = q[Len(q)]
      BY <1>1, <3>1
    <3> QED
      BY <1>1, <2>2, <3>2, TextsAre DEF Texts
  <2> QED
    BY <2>1, <2>2
<1>4. Len(r) + Texts(p) = Len(s) + Texts(q)
  BY <1>1, <1>2, <1>3
<1>5. ASSUME NEW k \in 1 .. Len(r) PROVE r[k] = t[k]
  <2>1. CASE k = Len(s) + 1
    <3>1. 1 \in 1 .. Texts(q)
      BY <1>1, <1>3
    <3> QED
      BY <1>1, <1>2, <2>1, <3>1 DEF Follows
  <2>2. CASE k # Len(s) + 1
    BY <1>2, <2>2 DEF Follows
  <2> QED
    BY <2>1, <2>2
<1>6. ASSUME NEW k \in 1 .. Texts(p) PROVE p[k] = t[Len(r) + k]
  <2>1. k \in 1 .. Len(q) - 1 /\ k + 1 \in 1 .. Texts(q) /\ Len(s) + (k + 1) = Len(r) + k
    BY <1>1, <1>2, <1>3
  <2> QED
    BY <1>1, <2>1 DEF Follows
<1>7. Len(r) + Texts(p) <= Len(t)
  BY <1>4 DEF Follows
<1> QED
  BY <1>4, <1>5, <1>6, <1>7 DEF Follows, b, p, r

\* A block that was read is sent.
LEMMA FollowsSent ==
  ASSUME NEW s \in Seq(Items), NEW q \in Seq(Blocks), NEW t \in Seq(Blocks),
         NEW b \in Blocks, Follows(s, q, t), Len(s) + Texts(q) = Len(t)
  PROVE  /\ Follows(s, Append(q, b), Append(t, b))
         /\ Len(s) + Texts(Append(q, b)) = Len(Append(t, b))
<1> DEFINE p == Append(q, b)
           u == Append(t, b)
<1>1. /\ Len(q) \in Nat /\ Len(p) = Len(q) + 1 /\ p[Len(q) + 1] = b
      /\ \A k \in 1 .. Len(q) : p[k] = q[k]
      /\ Len(t) \in Nat /\ Len(u) = Len(t) + 1 /\ u[Len(t) + 1] = b
      /\ \A k \in 1 .. Len(t) : u[k] = t[k]
      /\ p \in Seq(Blocks) /\ Len(s) \in Nat
  OBVIOUS
<1>2. Seq(Blocks) \subseteq Seq(Items)
  BY ItemsTyped
<1> HIDE DEF p, u
<1>3. /\ Texts(q) = Len(q) /\ Texts(p) = Len(q) + 1
      /\ Texts(q) \in Nat /\ Len(t) = Len(s) + Len(q)
  BY <1>1, <1>2, TextsAre
<1>4. Len(s) + Texts(p) = Len(u)
  BY <1>1, <1>3
<1>5. \A k \in 1 .. Len(s) : s[k] = u[k]
  <2>1. \A k \in 1 .. Len(s) : k \in 1 .. Len(t)
    BY <1>1, <1>3
  <2> QED
    BY <1>1, <2>1 DEF Follows
<1>6. ASSUME NEW k \in 1 .. Texts(p) PROVE p[k] = u[Len(s) + k]
  <2>1. CASE k = Len(q) + 1
    <3>1. Len(s) + k = Len(t) + 1
      BY <1>1, <1>3, <2>1
    <3> QED
      BY <1>1, <2>1, <3>1
  <2>2. CASE k # Len(q) + 1
    <3>1. k \in 1 .. Len(q) /\ Len(s) + k \in 1 .. Len(t)
      BY <1>1, <1>3, <2>2
    <3>2. q[k] = t[Len(s) + k]
      BY <1>3, <3>1 DEF Follows
    <3> QED
      BY <1>1, <3>1, <3>2
  <2> QED
    BY <2>1, <2>2
<1>7. Follows(s, p, u)
  BY <1>1, <1>4, <1>5, <1>6 DEF Follows
<1> QED
  BY <1>4, <1>7 DEF p, u

\* The end marker is no text.
LEMMA FollowsMarked ==
  ASSUME NEW s \in Seq(Items), NEW q \in Seq(Blocks), NEW t \in Seq(Blocks), Follows(s, q, t)
  PROVE  Follows(s, Append(q, EOT), t) /\ Texts(Append(q, EOT)) = Texts(q)
<1> DEFINE p == Append(q, EOT)
<1>1. /\ Len(q) \in Nat /\ Len(p) = Len(q) + 1 /\ p[Len(p)] = EOT /\ p # <<>>
      /\ \A k \in 1 .. Len(q) : p[k] = q[k]
  OBVIOUS
<1>2. q \in Seq(Items)
  BY ItemsTyped
<1> HIDE DEF p
<1>3. Texts(q) = Len(q) /\ Texts(p) = Len(q)
  BY <1>1, <1>2, TextsAre DEF Texts
<1>4. Follows(s, p, t) /\ Texts(p) = Texts(q)
  BY <1>1, <1>3 DEF Follows
<1> QED
  BY <1>4 DEF p

\* What a log that was read becomes on the wire.
LEMMA TransmissionIs ==
  ASSUME NEW r \in ReadType
  PROVE  /\ r.texts \in Seq(Blocks) /\ r.line \in 0 .. MaxBlocks
         /\ Transmission(r) \in Seq(Blocks) /\ Begins(r.texts, Transmission(r))
         /\ \A text \in 0 .. MaxBlocks :
              /\ ReadOn(r, text) \in ReadType
              /\ ReadOn(r, text).line = text
              /\ Begins(r.texts, ReadOn(r, text).texts)
         /\ Transmission(NothingRead) = <<>> /\ NothingRead.texts = <<>>
<1>1. r.texts \in Seq(Blocks) /\ r.line \in 0 .. MaxBlocks
  BY DEF ReadType
<1>2. \A n \in 0 .. MaxBlocks : n # 0 => Block(n) \in Blocks
  BY LogsAre DEF Blocks
<1>3. Transmission(r) \in Seq(Blocks)
  BY <1>1, <1>2 DEF Transmission
<1>4. ASSUME NEW t \in Seq(Blocks), NEW b \in Blocks
      PROVE  Begins(t, Append(t, b)) /\ Begins(t, t)
  BY DEF Begins
<1>5. Begins(r.texts, Transmission(r))
  BY <1>1, <1>2, <1>4 DEF Transmission, Begins
<1>6. ASSUME NEW text \in 0 .. MaxBlocks
      PROVE  /\ ReadOn(r, text) \in ReadType
             /\ ReadOn(r, text).line = text
             /\ Begins(r.texts, ReadOn(r, text).texts)
  <2> DEFINE t == IF text = 0 THEN r.texts ELSE Append(r.texts, Block(text))
  <2>1. t \in Seq(Blocks) /\ Begins(r.texts, t)
    BY <1>1, <1>2, <1>4 DEF Begins
  <2>2. ReadOn(r, text) = [texts |-> t, line |-> text]
    BY DEF ReadOn
  <2> HIDE DEF t
  <2> QED
    BY <2>1, <2>2 DEF ReadType
<1> QED
  BY <1>1, <1>3, <1>5, <1>6 DEF Transmission, NothingRead

LEMMA TextTypes ==
  ASSUME TurnInv, NEW j \in Logs
  PROVE  /\ saved[j] \in Seq(Items) /\ read[j] \in ReadType
         /\ Coming(j) \in Seq(Items) /\ SoFar(j) \in Seq(Blocks)
         /\ Texts(Coming(j)) \in Nat /\ Len(saved[j]) \in Nat /\ Len(SoFar(j)) \in Nat
<1>1. saved[j] \in Seq(Items) /\ read[j] \in ReadType
  BY TypesAre DEF TurnInv
<1>2. Coming(j) \in Seq(Items)
  BY TurnFacts DEF Coming
<1>3. SoFar(j) \in Seq(Blocks)
  BY <1>1, TransmissionIs DEF SoFar
<1> QED
  BY <1>1, <1>2, <1>3, TextsAre

(***************************************************************************)
(* The steps that keep TextInv: those of the master.                       *)
(***************************************************************************)
\* Nothing is saved, and nothing new comes; of a log both become through
\* with, nothing has been sent.
LEMMA TextKeeps ==
  ASSUME TextInv, TurnInv', Unread', LineRead', saved' = saved, ~lost' => ~lost,
         \A j \in Logs :
           /\ SoFar(j)' = SoFar(j) \/ Begins(SoFar(j), SoFar(j)')
           /\ Coming(j)' = Coming(j) \/ Coming(j)' = <<>>
           /\ ~lost' /\ Through(j)' =>
                /\ SoFar(j)' = SoFar(j)
                /\ \/ Through(j) /\ Texts(Coming(j)') = Texts(Coming(j))
                   \/ SoFar(j) = <<>>
  PROVE  TextInv'
<1>1. ASSUME NEW j \in Logs
      PROVE  /\ Follows(saved[j], Coming(j)', SoFar(j)')
             /\ ~lost' /\ Through(j)' =>
                  Len(saved[j]) + Texts(Coming(j)') = Len(SoFar(j)')
  <2>1. /\ saved[j] \in Seq(Items) /\ Coming(j) \in Seq(Items) /\ SoFar(j) \in Seq(Blocks)
        /\ Texts(Coming(j)) \in Nat /\ Len(saved[j]) \in Nat
    BY <1>1, TextTypes DEF TextInv
  <2>2. SoFar(j)' \in Seq(Blocks)
    <3>1. read'[j] \in ReadType
      BY DEF TurnInv, TypeOK, ReadType
    <3> QED
      BY <3>1, TransmissionIs DEF SoFar
  <2>3. Follows(saved[j], Coming(j), SoFar(j))
    BY DEF TextInv, InOrder
  <2>4. Follows(saved[j], Coming(j), SoFar(j)')
    BY <1>1, <2>1, <2>2, <2>3, FollowsMore
  <2>5. Follows(saved[j], <<>>, SoFar(j)')
    BY <2>1, <2>2, <2>4, FollowsAlone
  <2>6. Follows(saved[j], Coming(j)', SoFar(j)')
    BY <1>1, <2>4, <2>5
  <2>7. ASSUME ~lost', Through(j)'
        PROVE  Len(saved[j]) + Texts(Coming(j)') = Len(SoFar(j)')
    <3>1. SoFar(j)' = SoFar(j) /\ ~lost
      BY <1>1, <2>7
    <3>2. CASE Through(j) /\ Texts(Coming(j)') = Texts(Coming(j))
      BY <3>1, <3>2 DEF TextInv, AllThere
    <3>3. CASE SoFar(j) = <<>>
      <4>1. Len(saved[j]) + Texts(Coming(j)) <= 0
        BY <2>3, <3>3 DEF Follows
      <4>2. Len(saved[j]) = 0 /\ Texts(Coming(j)) = 0
        BY <2>1, <4>1
      <4>3. Texts(Coming(j)') = 0
        BY <1>1, <4>2 DEF Texts
      <4> QED
        BY <3>1, <3>3, <4>2, <4>3
    <3> QED
      BY <1>1, <2>7, <3>2, <3>3
  <2> QED
    BY <2>6, <2>7
<1>2. InOrder' /\ AllThere'
  BY <1>1 DEF InOrder, AllThere
<1> QED
  BY <1>2 DEF TextInv

\* A step of the master leaves the client's side as it is.
LEMMA MasterOnly ==
  ASSUME TextInv, UNCHANGED <<client, read>>,
         "client" \in wire'.held => "client" \in wire.held
  PROVE  /\ Unread' /\ LineRead'
         /\ \A j \in Logs : SoFar(j)' = SoFar(j)
BY DEF TextInv, Unread, LineRead, SoFar

\* The master goes on to its next log, or closes and sleeps.
LEMMA MasterGoesOnText ==
  ASSUME TextInv, TurnInv', NEW w, w.held = wire.held, MasterNext(w),
         master.pc \in {"answer", "save"}, ~lost => Ahead /\ Texts(Coming(master.i)) = 0,
         UNCHANGED <<client, saved, read, lost>>
  PROVE  TextInv'
<1>1. /\ wire'.held \subseteq wire.held
      /\ \/ master'.pc = "ask" /\ master'.i = master.i + 1
         \/ master'.pc = "sleep" /\ master.i + 1 >= LogCount
  BY TurnFacts, LogsAre DEF MasterNext, Closed, Left, TextInv
<1>2. Unread' /\ LineRead' /\ \A j \in Logs : SoFar(j)' = SoFar(j)
  BY <1>1, MasterOnly
<1>3. ASSUME NEW j \in Logs
      PROVE  /\ Coming(j)' = <<>>
             /\ ~lost' /\ Through(j)' => Through(j) /\ Texts(Coming(j)') = Texts(Coming(j))
  <2>1. Coming(j)' = <<>> /\ Texts(Coming(j)') = 0
    BY <1>1 DEF Coming, Texts
  <2>2. ASSUME ~lost', Through(j)' PROVE Through(j) /\ Texts(Coming(j)) = 0
    <3>1. Talking /\ ~lost /\ Ahead
      BY <2>2 DEF Talking
    <3>2. master.i \in Nat /\ j \in Nat /\ j < LogCount /\ LogCount \in Nat /\ master.i < LogCount
      BY TurnFacts, LogsAre DEF TextInv
    <3>3. j < master.i \/ j = master.i
      <4>1. CASE master'.pc = "sleep"
        BY <1>1, <3>2, <4>1
      <4>2. CASE master'.pc = "ask"
        <5>1. Talking' /\ ~lost'
          BY <2>2, <4>2 DEF Talking
        <5>2. Asking'
          BY <4>2, <5>1 DEF TurnInv, InPhase, Answering, Giving, Saving
        <5>3. ~Ahead'
          BY <3>2, <5>2, <1>1, <4>2 DEF Asking, Abreast, Ahead
        <5>4. j < master'.i
          BY <2>2, <4>2, <5>3 DEF Through
        <5> QED
          BY <1>1, <3>2, <4>2, <5>4
      <4> QED
        BY <1>1, <4>1, <4>2
    <3>4. Through(j)
      BY <3>1, <3>3 DEF Through
    <3>5. Texts(Coming(j)) = 0
      <4>1. CASE j = master.i
        BY <3>1, <4>1
      <4>2. CASE j # master.i
        BY <4>2 DEF Coming, Texts
      <4> QED
        BY <4>1, <4>2
    <3> QED
      BY <3>4, <3>5
  <2> QED
    BY <2>1, <2>2
<1> QED
  BY <1>2, <1>3, TextKeeps

\* The master's process ends.
LEMMA MasterEndsText ==
  ASSUME TextInv, TurnInv', MasterKilled \/ MasterExits
  PROVE  TextInv'
<1>1. /\ master'.pc \in {"killed", "exited"} /\ wire' = Closed(wire, "master") /\ lost' = TRUE
      /\ UNCHANGED <<client, saved, read>>
  BY TypesAre DEF TextInv, TurnInv, MasterKilled, MasterExits, MasterAt
<1>2. wire'.held \subseteq wire.held
  BY <1>1 DEF Closed, Left
<1>3. Unread' /\ LineRead' /\ \A j \in Logs : SoFar(j)' = SoFar(j)
  BY <1>1, <1>2, MasterOnly
<1>4. \A j \in Logs : Coming(j)' = <<>>
  BY <1>1 DEF Coming
<1> QED
  BY <1>1, <1>3, <1>4, TextKeeps

\* The master asks: for a log's name, and then for a log of which nothing has
\* been read.
LEMMA MasterSendsText ==
  ASSUME TextInv, TurnInv', AskName \/ AskFile
  PROVE  TextInv'
<1> DEFINE item == IF master.pc = "ask" THEN Name(master.i) ELSE GiveMe
<1>1. /\ master.pc \in {"ask", "give"} /\ wire.net["master"] # "broken"
      /\ wire' = Sent(wire, "master", item) /\ UNCHANGED <<client, saved, read, lost>>
      /\ master'.i = master.i
      /\ master'.pc = IF master.pc = "ask" THEN "answer" ELSE "save"
  BY TypesAre DEF TextInv, TurnInv, AskName, AskFile, MasterSends, Raises, MasterAt
<1>2. Talking /\ "master" \in wire.held /\ item \in Items
  <2>1. master.i \in Logs
    BY TypesAre DEF TextInv, TurnInv
  <2> QED
    BY <1>1, <2>1, ItemsTyped DEF Talking, TextInv, TurnInv, EndsHeld
<1>3. wire'.held = wire.held /\ ToMaster' = ToMaster
  BY <1>1, <1>2, SentIs, TwoSides DEF TextInv, TurnInv, ToMaster
<1>4. ToMaster = <<>>
  BY <1>1 DEF TextInv, TurnInv, MasterHears, MayHear
<1>5. Unread' /\ LineRead' /\ \A j \in Logs : SoFar(j)' = SoFar(j)
  BY <1>1, <1>3, MasterOnly
<1>6. \A j \in Logs : Coming(j)' = <<>> /\ Coming(j) = <<>>
  BY <1>1, <1>3, <1>4 DEF Coming
<1>7. Ahead' = Ahead /\ Talking'
  BY <1>1, <1>3 DEF Ahead, Talking
<1>8. ASSUME NEW j \in Logs, ~lost', Through(j)'
      PROVE  Through(j) \/ SoFar(j) = <<>>
  <2>1. CASE j < master.i \/ (j = master.i /\ Ahead)
    BY <1>2, <2>1 DEF Through
  <2>2. CASE ~(j < master.i \/ (j = master.i /\ Ahead))
    <3>1. j = master.i /\ master.pc = "give"
      BY <1>1, <1>7, <1>8, <2>2 DEF Through, Talking
    <3>2. Giving
      BY <1>1, <1>2, <1>8, <3>1 DEF TextInv, TurnInv, InPhase, Asking, Answering, Saving
    <3>3. read[j] = NothingRead /\ client.pc = "command"
      BY <3>1, <3>2 DEF TextInv, Unread, Giving, Abreast
    <3> QED
      BY <3>3 DEF SoFar, Transmission, NothingRead
  <2> QED
    BY <2>1, <2>2
<1> QED
  BY <1>1, <1>5, <1>6, <1>8, TextKeeps

LEMMA ReadAnswerText ==
  ASSUME TextInv, TurnInv', ReadAnswer \/ ReadNoAnswer
  PROVE  TextInv'
<1>1. /\ master.pc = "answer" /\ UNCHANGED <<client, saved, read, lost>>
      /\ Talking /\ Coming(master.i) = <<>> /\ Texts(<<>>) = 0
  BY DEF ReadAnswer, ReadNoAnswer, Talking, Coming, Texts
<1>2. CASE ReadNoAnswer
  <2>1. "client" \notin wire.held /\ MasterNext(Told("master"))
    BY <1>2, NoneComesIs, TwoSides DEF ReadNoAnswer, TextInv, TurnInv
  <2>2. lost
    <3>1. ToMaster = <<>> /\ <<Wrong>> # <<>>
      BY <1>2, Singletons DEF ReadNoAnswer, NoneComes, ToMaster
    <3> QED
      BY <1>1, <2>1, <3>1
         DEF TextInv, TurnInv, InPhase, Asking, Answering, Giving, Saving, Abreast
  <2>3. Told("master").held = wire.held
    BY ToldIs, TwoSides DEF TextInv, TurnInv
  <2> QED
    BY <1>1, <2>1, <2>2, <2>3, MasterGoesOnText
<1>3. CASE ReadAnswer
  <2>1. ToMaster # <<>> /\ Next1("master") = Head(ToMaster) /\ CanTake("master")
    BY <1>3 DEF ReadAnswer, CanTake, Next1, ToMaster
  <2>2. Taken("master").held = wire.held
    BY <2>1, TakenIs, TwoSides DEF TextInv, TurnInv
  <2>3. CASE Next1("master") = OK
    <3>1. MasterAt("give") /\ wire' = Taken("master")
      BY <1>3, <2>3 DEF ReadAnswer
    <3>2. master'.pc = "give" /\ master'.i = master.i /\ wire'.held = wire.held
      BY <2>2, <3>1, TypesAre DEF TextInv, TurnInv, MasterAt
    <3>3. Unread' /\ LineRead' /\ \A j \in Logs : SoFar(j)' = SoFar(j)
      BY <1>1, <3>2, MasterOnly
    <3>4. \A j \in Logs : Coming(j)' = <<>> /\ Coming(j) = <<>>
      BY <1>1, <3>2 DEF Coming
    <3>5. \A j \in Logs : Through(j)' => Through(j)
      BY <1>1, <3>2 DEF Through, Talking, Ahead
    <3> QED
      BY <1>1, <3>3, <3>4, <3>5, TextKeeps
  <2>4. CASE Next1("master") # OK
    <3>1. MasterNext(Taken("master"))
      BY <1>3, <2>4 DEF ReadAnswer
    <3>2. ~lost => Ahead
      <4>1. ToMaster # <<>> /\ ToMaster # <<OK>>
        BY <2>1, <2>4, Singletons
      <4> QED
        BY <1>1, <4>1 DEF TextInv, TurnInv, InPhase, Asking, Answering, Giving, Saving, Quiet
    <3> QED
      BY <1>1, <2>2, <3>1, <3>2, MasterGoesOnText
  <2> QED
    BY <2>3, <2>4
<1> QED
  BY <1>2, <1>3

\* A block is saved.  A char that is not signed would let the end marker pass.
LEMMA SaveText ==
  ASSUME CharSigned, TextInv, TurnInv', Save
  PROVE  TextInv'
<1>1. /\ master.pc = "save" /\ ToMaster # <<>> /\ CanTake("master")
      /\ Next1("master") = Head(ToMaster) /\ Head(ToMaster) # EOT
      /\ saved' = [saved EXCEPT ![master.i] = Append(saved[master.i], Head(ToMaster))]
      /\ wire' = Taken("master") /\ UNCHANGED <<master, client, read, lost>>
  BY DEF Save, CanTake, Next1, ToMaster, Ends
<1>2. wire'.held = wire.held /\ ToMaster' = Tail(ToMaster)
  BY <1>1, TakenIs, TwoSides DEF TextInv, TurnInv, ToMaster
<1>3. Unread' /\ LineRead' /\ \A j \in Logs : SoFar(j)' = SoFar(j)
  BY <1>1, <1>2, MasterOnly
<1>4. ASSUME NEW j \in Logs
      PROVE  /\ Follows(saved'[j], Coming(j)', SoFar(j))
             /\ Len(saved'[j]) + Texts(Coming(j)') = Len(saved[j]) + Texts(Coming(j))
  <2>1. saved[j] \in Seq(Items) /\ SoFar(j) \in Seq(Blocks) /\ Follows(saved[j], Coming(j), SoFar(j))
    BY TextTypes DEF TextInv, InOrder
  <2>2. saved \in [Logs -> Seq(Items)] /\ master.i \in Logs
    BY TypesAre DEF TextInv, TurnInv
  <2>3. CASE j = master.i
    <3>1. /\ Coming(j) = ToMaster /\ Coming(j)' = Tail(ToMaster)
          /\ saved'[j] = Append(saved[j], Head(ToMaster))
      BY <1>1, <1>2, <2>2, <2>3 DEF Coming
    <3>2. ToMaster \in Seq(Items) /\ EndsLast(ToMaster)
      BY <1>1, SavingFinds DEF TextInv
    <3> QED
      BY <1>1, <2>1, <3>1, <3>2, FollowsSaved
  <2>4. CASE j # master.i
    <3>1. saved'[j] = saved[j] /\ Coming(j)' = Coming(j)
      BY <1>1, <2>2, <2>4 DEF Coming
    <3> QED
      BY <2>1, <3>1
  <2> QED
    BY <2>3, <2>4
<1>5. \A j \in Logs : Through(j)' => Through(j)
  BY <1>1, <1>2 DEF Through, Talking, Ahead
<1>6. InOrder' /\ AllThere'
  BY <1>1, <1>3, <1>4, <1>5 DEF TextInv, InOrder, AllThere
<1> QED
  BY <1>3, <1>6 DEF TextInv

LEMMA SaveEndsText ==
  ASSUME TextInv, TurnInv', SaveEnds \/ SaveLost
  PROVE  TextInv'
<1>1. master.pc = "save" /\ UNCHANGED <<client, saved, read, lost>> /\ Coming(master.i) = ToMaster
  BY DEF SaveEnds, SaveLost, Coming
<1>2. CASE SaveEnds
  <2>1. /\ ToMaster # <<>> /\ CanTake("master") /\ Head(ToMaster) = EOT
        /\ MasterNext(Taken("master"))
    BY <1>2 DEF SaveEnds, CanTake, Next1, Ends, ToMaster
  <2>2. ToMaster \in Seq(Items) /\ Len(ToMaster) = 1 /\ Head(ToMaster) = ToMaster[1]
    BY <1>1, <2>1, SavingFinds, StreamTail DEF TextInv
  <2>3. ToMaster[1] = EOT
    BY <2>1, <2>2
  <2>4. Texts(ToMaster) = 0
    BY <2>1, <2>2, <2>3 DEF Texts
  <2>5. ~lost => Ahead
    <3>1. ToMaster \notin Seq(Blocks)
      BY <2>1, ItemsApart
    <3> QED
      BY <1>1, <2>1, <3>1, SavingFinds DEF TextInv
  <2>6. Taken("master").held = wire.held
    BY <2>1, TakenIs, TwoSides DEF TextInv, TurnInv
  <2> QED
    BY <1>1, <2>1, <2>4, <2>5, <2>6, MasterGoesOnText
<1>3. CASE SaveLost
  <2>1. ToMaster = <<>> /\ "client" \notin wire.held /\ MasterNext(Told("master"))
    BY <1>3, NoneComesIs, TwoSides DEF SaveLost, TextInv, TurnInv, ToMaster
  <2>2. ~lost => Ahead
    BY <1>1, <2>1, SavingFinds DEF TextInv, Abreast
  <2>3. Told("master").held = wire.held /\ Texts(ToMaster) = 0
    BY <2>1, ToldIs, TwoSides DEF TextInv, TurnInv, Texts
  <2> QED
    BY <1>1, <2>1, <2>2, <2>3, MasterGoesOnText
<1> QED
  BY <1>2, <1>3

\* Where nothing has been read, nothing is saved.
LEMMA InitTextInv ==
  ASSUME Init
  PROVE  TextInv
<1>1. Unread /\ LineRead
  BY DEF Init, Idle, Unread, LineRead
<1>2. ASSUME NEW j \in Logs
      PROVE  saved[j] = <<>> /\ Coming(j) = <<>> /\ SoFar(j) = <<>>
  BY DEF Init, Idle, Coming, SoFar, Transmission, NothingRead
<1>3. Follows(<<>>, <<>>, <<>>) /\ Len(<<>>) + Texts(<<>>) = Len(<<>>)
  BY DEF Follows, Texts
<1>4. ASSUME NEW j \in Logs
      PROVE  /\ Follows(saved[j], Coming(j), SoFar(j))
             /\ Len(saved[j]) + Texts(Coming(j)) = Len(SoFar(j))
  BY <1>2, <1>3
<1>5. InOrder /\ AllThere
  BY <1>4 DEF InOrder, AllThere
<1> QED
  BY <1>1, <1>5, InitTurnInv DEF TextInv

LEMMA ConnectText ==
  ASSUME TextInv, TurnInv', Connect
  PROVE  TextInv'
<1>1. /\ master'.pc = "ask" /\ client' = client
      /\ saved' = [j \in Logs |-> <<>>] /\ read' = [j \in Logs |-> NothingRead]
  BY TypesAre DEF TextInv, TurnInv, Connect, MasterAt
<1>2. client.pc = "accept" /\ client.line = 0
  BY DEF TextInv, TurnInv, EndsHeld, Serving, Connect, Idle
<1>3. Unread' /\ LineRead'
  BY <1>1, <1>2 DEF Unread, LineRead
<1>4. ASSUME NEW j \in Logs
      PROVE  saved'[j] = <<>> /\ Coming(j)' = <<>> /\ SoFar(j)' = <<>>
  BY <1>1, <1>2 DEF Coming, SoFar, Transmission, NothingRead
<1>5. Follows(<<>>, <<>>, <<>>) /\ Texts(<<>>) = 0 /\ Len(<<>>) = 0
  BY DEF Follows, Texts
<1>6. InOrder' /\ AllThere'
  BY <1>4, <1>5 DEF InOrder, AllThere
<1> QED
  BY <1>3, <1>6 DEF TextInv

LEMMA ResetText ==
  ASSUME TextInv, TurnInv', NEW s \in Sides, ResetArrives(s)
  PROVE  TextInv'
<1>1. UNCHANGED <<master, client, saved, read, lost>> /\ wire'.held = wire.held /\ ToMaster' = ToMaster
  BY DEF TextInv, TurnInv, Sound, ResetArrives, ToMaster
<1>2. Unread' /\ LineRead' /\ \A j \in Logs : SoFar(j)' = SoFar(j)
  BY <1>1, MasterOnly
<1>3. \A j \in Logs : Coming(j)' = Coming(j) /\ (Through(j)' => Through(j))
  BY <1>1 DEF Coming, Through, Talking, Ahead
<1> QED
  BY <1>1, <1>2, <1>3, TextKeeps

LEMMA StutterText ==
  ASSUME TextInv, TurnInv', UNCHANGED vars
  PROVE  TextInv'
<1>1. UNCHANGED <<master, client, wire, saved, read, lost>>
  BY DEF vars
<1>2. ToMaster' = ToMaster
  BY <1>1 DEF ToMaster
<1>3. Unread' /\ LineRead' /\ \A j \in Logs : SoFar(j)' = SoFar(j)
  BY <1>1, MasterOnly
<1>4. \A j \in Logs : Coming(j)' = Coming(j) /\ (Through(j)' => Through(j))
  BY <1>1, <1>2 DEF Coming, Through, Talking, Ahead
<1> QED
  BY <1>1, <1>3, <1>4, TextKeeps

(***************************************************************************)
(* The steps that keep TextInv: those of the client.                       *)
(***************************************************************************)
\* Within its turn, but for sendFile, the client reads nothing.
LEMMA ClientMovesText ==
  ASSUME TextInv, TurnInv', client.pc \notin {"send", "mark"}, client'.pc # "mark",
         client'.pc = "request" => client.pc = "accept",
         client'.pc \notin {"accept", "dead"},
         client'.pc = "send" => client.pc = "command",
         client'.i = client.i, client'.line = client.line, "client" \in wire.held,
         wire'.held = wire.held, UNCHANGED <<master, saved, read, lost>>,
         master.pc = "save" => ToMaster' = ToMaster
  PROVE  TextInv'
<1>1. /\ client.line = 0 /\ client.i \in Logs
      /\ \A j \in Logs : j >= client.i => read[j] = NothingRead
  BY TypesAre, LogsAre DEF TextInv, TurnInv, LineRead, Unread, ClientType
<1>2. Unread' /\ LineRead'
  BY <1>1, LogsAre DEF TextInv, Unread, LineRead, NothingRead
<1>3. \A j \in Logs : SoFar(j)' = SoFar(j) /\ Coming(j)' = Coming(j)
  BY <1>1, LogsAre DEF SoFar, Coming, Transmission, NothingRead
<1>4. ~Ahead'
  <2>1. client'.pc = "request" => client'.i = 0
    BY DEF TextInv, TurnInv, EndsHeld, Idle
  <2> QED
    BY <2>1, TurnFacts DEF Ahead, TextInv
<1>5. \A j \in Logs : Through(j)' => Through(j)
  BY <1>4 DEF Through, Talking
<1> QED
  BY <1>2, <1>3, <1>5, TextKeeps

\* The client goes on to its next log: nothing has been read of that one.
LEMMA ClientGoesOnReads ==
  ASSUME TextInv, NEW w, w.held = wire.held, ClientNext(w), client.pc # "accept",
         \A j \in Logs : j # client.i => read'[j] = read[j]
  PROVE  /\ Unread' /\ LineRead' /\ client'.pc \in {"request", "accept"}
         /\ \A j \in Logs : SoFar(j)' = Transmission(read'[j])
<1>1. client.i \in Logs
  BY TypesAre DEF TextInv, TurnInv, ClientType
<1>2. \/ client' = [Idle("request") EXCEPT !.i = client.i + 1] /\ wire' = w
      \/ client' = Idle("accept") /\ "client" \notin wire'.held
  BY DEF ClientNext, Closed, Left
<1>3. client'.pc \in {"request", "accept"} /\ client'.line = 0
  BY <1>2 DEF Idle
<1>4. Unread'
  <2>1. CASE client' = [Idle("request") EXCEPT !.i = client.i + 1] /\ wire' = w
    <3>1. client'.i = client.i + 1 /\ client'.pc = "request"
      BY <2>1 DEF Idle
    <3>2. ASSUME NEW j \in Logs, "client" \in wire'.held, j >= client.i + 1
          PROVE  read'[j] = NothingRead
      BY <1>1, <2>1, <3>2, LogsAre DEF TextInv, Unread
    <3> QED
      BY <1>1, <3>1, <3>2, LogsAre DEF Unread
  <2>2. CASE "client" \notin wire'.held
    BY <2>2 DEF Unread
  <2> QED
    BY <1>2, <2>1, <2>2
<1> QED
  BY <1>3, <1>4 DEF LineRead, SoFar

\* The master has closed, or ended: nothing comes, and nothing counts.
LEMMA NobodySavesText ==
  ASSUME TextInv, TurnInv', Unread', LineRead', ~Talking, master.pc # "sleep",
         UNCHANGED <<master, saved, lost>>,
         \A j \in Logs : SoFar(j)' = SoFar(j) \/ Begins(SoFar(j), SoFar(j)')
  PROVE  TextInv'
<1>1. \A j \in Logs : Coming(j)' = Coming(j) /\ ~Through(j)'
  BY DEF Coming, Through, Talking
<1> QED
  BY <1>1, TextKeeps

LEMMA AcceptText ==
  ASSUME TextInv, TurnInv', Accept
  PROVE  TextInv'
<1>1. /\ client.pc = "accept" /\ "client" \in wire.held
      /\ UNCHANGED <<master, wire, saved, read, lost>>
      /\ client'.pc = "request" /\ client'.i = client.i /\ client'.line = client.line
  BY TypesAre DEF TextInv, TurnInv, Accept, ClientAt, ClientType
<1> QED
  BY <1>1, ClientMovesText DEF ToMaster

LEMMA ReadRequestText ==
  ASSUME TextInv, TurnInv', ReadRequest \/ ReadNoRequest
  PROVE  TextInv'
<1>1. /\ client.pc = "request" /\ Serving /\ UNCHANGED <<master, saved, read, lost>>
      /\ wire' = Told("client") \/ (wire' = Taken("client") /\ CanTake("client"))
  BY DEF ReadRequest, ReadNoRequest, Serving
<1>2. /\ client'.pc \in {"ok", "wrong"} /\ client'.i = client.i /\ client'.line = client.line
  <2>1. client \in ClientType
    BY TypesAre DEF TextInv, TurnInv
  <2>2. ClientAt("ok") \/ ClientAt("wrong")
    BY DEF ReadRequest, ReadNoRequest
  <2> QED
    BY <2>1, <2>2 DEF ClientAt, ClientType
<1>3. wire'.held = wire.held /\ ToMaster' = ToMaster
  BY <1>1, TakenIs, ToldIs, TwoSides DEF TextInv, TurnInv, ToMaster
<1>4. "client" \in wire.held
  BY <1>1 DEF TextInv, TurnInv, EndsHeld
<1> QED
  BY <1>1, <1>2, <1>3, <1>4, ClientMovesText

LEMMA AnswerText ==
  ASSUME TextInv, TurnInv', AnswerOK \/ AnswerWrong
  PROVE  TextInv'
<1>1. /\ client.pc \in {"ok", "wrong"} /\ Serving /\ wire.net["client"] # "broken"
      /\ UNCHANGED <<master, saved, read, lost>>
  BY DEF AnswerOK, AnswerWrong, Serving, Raises
<1>2. /\ "client" \in wire.held /\ (Talking => ~lost) /\ client \in ClientType
      /\ master.pc # "sleep" /\ client.i \in Logs
  BY <1>1, ServingFinds, TypesAre DEF TextInv, TurnInv
<1>3. Talking => master.pc = "answer" /\ client.i = master.i
  BY <1>1, <1>2
     DEF TextInv, TurnInv, InPhase, Asking, Answering, Giving, Saving, Quiet, Abreast, Ahead
<1>4. CASE AnswerOK
  <2>1. wire' = Sent(wire, "client", OK) /\ ClientAt("command")
    BY <1>4 DEF AnswerOK
  <2>2. wire'.held = wire.held
    BY <1>1, <1>2, <2>1, SentIs, ItemsTyped, TwoSides DEF TextInv, TurnInv
  <2>3. client'.pc = "command" /\ client'.i = client.i /\ client'.line = client.line
    BY <1>2, <2>1 DEF ClientAt, ClientType
  <2>4. master.pc # "save"
    BY <1>3 DEF Talking
  <2> QED
    BY <1>1, <1>2, <2>2, <2>3, <2>4, ClientMovesText
<1>5. CASE AnswerWrong
  <2> DEFINE w == Sent(wire, "client", Wrong)
  <2>1. ClientNext(w) /\ w.held = wire.held
    BY <1>1, <1>2, <1>5, SentIs, ItemsTyped, TwoSides DEF TextInv, TurnInv, AnswerWrong
  <2> HIDE DEF w
  <2>2. /\ Unread' /\ LineRead' /\ \A j \in Logs : SoFar(j)' = SoFar(j)
    BY <1>1, <2>1, ClientGoesOnReads DEF SoFar
  <2>3. \A j \in Logs : Coming(j)' = Coming(j) /\ Coming(j) = <<>>
    BY <1>1, <1>3 DEF Coming, Talking
  <2>4. ASSUME NEW j \in Logs, Through(j)'
        PROVE  Through(j) \/ SoFar(j) = <<>>
    <3>1. CASE Talking /\ j = master.i
      <4>1. read[j] = NothingRead
        BY <1>1, <1>2, <1>3, <3>1 DEF TextInv, Unread
      <4> QED
        BY <1>1, <4>1 DEF SoFar, Transmission, NothingRead
    <3>2. CASE ~(Talking /\ j = master.i)
      BY <1>1, <1>2, <2>4, <3>2 DEF Through, Talking
    <3> QED
      BY <3>1, <3>2
  <2> QED
    BY <1>1, <2>2, <2>3, <2>4, TextKeeps
<1> QED
  BY <1>4, <1>5

LEMMA ReadCommandText ==
  ASSUME TextInv, TurnInv', ReadCommand \/ ReadNoCommand
  PROVE  TextInv'
<1>1. /\ client.pc = "command" /\ Serving /\ UNCHANGED <<master, saved, read, lost>>
  BY DEF ReadCommand, ReadNoCommand, Serving
<1>2. /\ "client" \in wire.held /\ client \in ClientType
      /\ master.pc # "sleep" /\ ("master" \in wire.held <=> Talking)
  BY <1>1, ServingFinds, TypesAre DEF TextInv, TurnInv
<1>3. CASE ReadNoCommand
  <2>1. ClientNext(Told("client")) /\ ~Talking
    BY <1>2, <1>3, NoneComesIs, TwoSides DEF ReadNoCommand, TextInv, TurnInv
  <2>2. Told("client").held = wire.held
    BY ToldIs, TwoSides DEF TextInv, TurnInv
  <2>3. Unread' /\ LineRead' /\ \A j \in Logs : SoFar(j)' = SoFar(j)
    BY <1>1, <2>1, <2>2, ClientGoesOnReads DEF SoFar
  <2> QED
    BY <1>1, <1>2, <2>1, <2>3, NobodySavesText
<1>4. CASE ReadCommand
  <2>1. CanTake("client") /\ ToClient # <<>> /\ Next1("client") = Head(ToClient)
    BY <1>4 DEF ReadCommand, CanTake, Next1, ToClient
  <2>2. ToClient = <<GiveMe>>
    BY <1>1, <2>1 DEF TextInv, TurnInv, ClientHears
  <2>3. ClientAt("send") /\ wire' = Taken("client")
    BY <1>4, <2>1, <2>2, Singletons DEF ReadCommand
  <2>4. wire'.held = wire.held /\ ToMaster' = ToMaster
    BY <2>1, <2>3, TakenIs, TwoSides DEF TextInv, TurnInv, ToMaster
  <2>5. client'.pc = "send" /\ client'.i = client.i /\ client'.line = client.line
    BY <1>2, <2>3 DEF ClientAt, ClientType
  <2> QED
    BY <1>1, <1>2, <2>4, <2>5, ClientMovesText
<1> QED
  BY <1>3, <1>4

\* What sendFile sends of line is what it read last, and the master's stream
\* grows with what was read.
Grown(t, text) == IF text = 0 THEN t ELSE Append(t, Block(text))

LEMMA LineText ==
  ASSUME TextInv, TurnInv', Unread', LineRead', client.pc = "send",
         NEW text \in 0 .. MaxBlocks, ~Raises("client"), wire.net["client"] # "reset",
         client'.pc \in {"send", "mark"},
         wire' = IF text = 0 THEN wire ELSE Sent(wire, "client", Block(text)),
         UNCHANGED <<master, saved, lost>>,
         \A j \in Logs : SoFar(j)' = IF j = client.i THEN Grown(SoFar(j), text) ELSE SoFar(j)
  PROVE  TextInv'
<1>1. /\ Serving /\ "client" \in wire.held /\ (Talking => ~lost) /\ client.i \in Logs
      /\ master.pc # "sleep"
      /\ Talking => client.i = master.i /\ master.pc = "save" /\ ToMaster \in Seq(Blocks)
  BY SendingFinds, ServingFinds DEF TextInv
<1>2. text # 0 => Block(text) \in Blocks
  BY LogsAre DEF Blocks
<1>3. ASSUME NEW j \in Logs
      PROVE  SoFar(j)' = SoFar(j) \/ Begins(SoFar(j), SoFar(j)')
  <2>1. SoFar(j) \in Seq(Blocks)
    BY TextTypes DEF TextInv
  <2>2. text # 0 => Begins(SoFar(j), Append(SoFar(j), Block(text)))
    BY <1>2, <2>1 DEF Begins
  <2> QED
    BY <2>2 DEF Grown
<1>4. CASE ~Talking
  BY <1>1, <1>3, <1>4, NobodySavesText
<1>5. CASE Talking
  <2>1. ToMaster' = IF text = 0 THEN ToMaster ELSE Append(ToMaster, Block(text))
    <3>1. CASE text = 0
      BY <3>1 DEF ToMaster
    <3>2. CASE text # 0
      <4>1. "master" \in wire.held /\ Block(text) \in Items
        BY <1>2, <1>5, <3>2, ItemsTyped DEF TextInv, TurnInv, EndsHeld
      <4> QED
        BY <1>1, <3>2, <4>1, SentIs, TwoSides DEF TextInv, TurnInv, ToMaster, Raises
    <3> QED
      BY <3>1, <3>2
  <2>2. ASSUME NEW j \in Logs
        PROVE  /\ Follows(saved[j], Coming(j)', SoFar(j)')
               /\ Through(j)' => Len(saved[j]) + Texts(Coming(j)') = Len(SoFar(j)')
    <3>1. /\ saved[j] \in Seq(Items) /\ SoFar(j) \in Seq(Blocks)
          /\ Follows(saved[j], Coming(j), SoFar(j))
          /\ Through(j) => Len(saved[j]) + Texts(Coming(j)) = Len(SoFar(j))
      BY <1>1, <1>5, TextTypes DEF TextInv, InOrder, AllThere
    <3>2. CASE j = client.i
      <4>1. /\ Coming(j) = ToMaster /\ Coming(j)' = ToMaster' /\ Through(j)
            /\ SoFar(j)' = Grown(SoFar(j), text)
        BY <1>1, <1>5, <3>2 DEF Coming, Through
      <4>2. CASE text = 0
        BY <2>1, <3>1, <4>1, <4>2 DEF Grown
      <4>3. CASE text # 0
        <5>1. /\ Coming(j)' = Append(ToMaster, Block(text))
              /\ SoFar(j)' = Append(SoFar(j), Block(text))
          BY <2>1, <4>1, <4>3 DEF Grown
        <5>2. /\ Follows(saved[j], Append(ToMaster, Block(text)), Append(SoFar(j), Block(text)))
              /\ Len(saved[j]) + Texts(Append(ToMaster, Block(text)))
                   = Len(Append(SoFar(j), Block(text)))
          BY <1>1, <1>2, <1>5, <3>1, <4>1, <4>3, FollowsSent
        <5> QED
          BY <5>1, <5>2
      <4> QED
        BY <4>2, <4>3
    <3>3. CASE j # client.i
      <4>1. Coming(j) = <<>> /\ Coming(j)' = <<>> /\ SoFar(j)' = SoFar(j)
        BY <1>1, <1>5, <3>3 DEF Coming
      <4>2. Through(j)' => Through(j)
        BY <1>1, <1>5, <3>3 DEF Through, Talking
      <4> QED
        BY <3>1, <4>1, <4>2
    <3> QED
      BY <3>2, <3>3
  <2>3. InOrder' /\ AllThere'
    BY <2>2 DEF InOrder, AllThere
  <2> QED
    BY <2>3 DEF TextInv
<1> QED
  BY <1>4, <1>5

LEMMA BeginsChain ==
  ASSUME NEW t \in Seq(Blocks), NEW u \in Seq(Blocks), NEW v \in Seq(Blocks),
         Begins(t, u), Begins(u, v)
  PROVE  Begins(t, v)
<1>1. Len(t) \in Nat /\ Len(u) \in Nat /\ Len(v) \in Nat
  OBVIOUS
<1> QED
  BY <1>1 DEF Begins

LEMMA SendLastText ==
  ASSUME TextInv, TurnInv', SendLast
  PROVE  TextInv'
<1>1. /\ client.pc = "send" /\ UNCHANGED <<master, saved, read, lost>>
      /\ SendsLine(client.line, [client EXCEPT !.pc = "mark"])
  BY DEF SendLast
<1>2. /\ client \in ClientType /\ read \in [Logs -> ReadType] /\ client.i \in Logs
      /\ client.line \in 0 .. MaxBlocks /\ client.line = read[client.i].line
      /\ "client" \in wire.held /\ master.pc # "sleep"
  BY <1>1, SendingFinds, ServingFinds DEF TextInv, LineRead
<1>3. CASE wire.net["client"] = "reset"
  <2>1. ClientNext(Told("client")) /\ Told("client").held = wire.held /\ ~Talking
    BY <1>1, <1>3, SendingFinds, ToldIs, TwoSides DEF SendsLine, TextInv, TurnInv, Sound
  <2>2. Unread' /\ LineRead' /\ \A j \in Logs : SoFar(j)' = Transmission(read[j])
    BY <1>1, <2>1, ClientGoesOnReads
  <2>3. ASSUME NEW j \in Logs PROVE SoFar(j)' = SoFar(j) \/ Begins(SoFar(j), SoFar(j)')
    <3>1. Begins(read[j].texts, Transmission(read[j]))
      BY <1>2, TransmissionIs
    <3> QED
      BY <2>2, <3>1 DEF SoFar
  <2> QED
    BY <1>1, <1>2, <2>1, <2>2, <2>3, NobodySavesText
<1>4. CASE wire.net["client"] # "reset"
  <2>1. /\ client'.pc = "mark" /\ client'.i = client.i /\ client'.line = client.line
        /\ ~Raises("client")
        /\ wire' = IF client.line = 0 THEN wire ELSE Sent(wire, "client", Block(client.line))
    BY <1>1, <1>2, <1>4 DEF SendsLine, ClientType
  <2>2. Unread' /\ LineRead'
    BY <1>1, <1>2, <2>1 DEF TextInv, Unread, LineRead
  <2>3. \A j \in Logs :
          SoFar(j)' = IF j = client.i THEN Grown(SoFar(j), client.line) ELSE SoFar(j)
    BY <1>1, <1>2, <2>1 DEF SoFar, Transmission, Grown
  <2> QED
    BY <1>1, <1>2, <1>4, <2>1, <2>2, <2>3, LineText
<1> QED
  BY <1>3, <1>4

LEMMA SendBlockText ==
  ASSUME TextInv, TurnInv', SendBlock
  PROVE  TextInv'
<1>1. client.pc = "send" /\ client.n < MaxBlocks /\ UNCHANGED <<master, saved, lost>>
  BY DEF SendBlock
<1>2. /\ client \in ClientType /\ read \in [Logs -> ReadType] /\ client.i \in Logs
      /\ client.n \in 0 .. MaxBlocks
      /\ "client" \in wire.held /\ master.pc # "sleep"
  BY <1>1, SendingFinds, ServingFinds DEF TextInv
<1>3. PICK text \in {0, client.n + 1} :
        /\ read' = [read EXCEPT ![client.i] = ReadOn(read[client.i], text)]
        /\ SendsLine(text, [client EXCEPT !.n = client.n + 1, !.line = text])
  BY DEF SendBlock
<1>4. text \in 0 .. MaxBlocks
  BY <1>1, <1>2, LogsAre
<1>5. /\ read'[client.i] = ReadOn(read[client.i], text)
      /\ \A j \in Logs : j # client.i => read'[j] = read[j]
      /\ read'[client.i].texts = Grown(read[client.i].texts, text)
      /\ read'[client.i].line = text
  BY <1>2, <1>3 DEF ReadOn, Grown
<1>6. CASE wire.net["client"] = "reset"
  <2>1. ClientNext(Told("client")) /\ Told("client").held = wire.held /\ ~Talking
    BY <1>1, <1>3, <1>6, SendingFinds, ToldIs, TwoSides DEF SendsLine, TextInv, TurnInv, Sound
  <2>2. Unread' /\ LineRead' /\ \A j \in Logs : SoFar(j)' = Transmission(read'[j])
    BY <1>1, <1>5, <2>1, ClientGoesOnReads
  <2>3. ASSUME NEW j \in Logs PROVE SoFar(j)' = SoFar(j) \/ Begins(SoFar(j), SoFar(j)')
    <3>1. CASE j = client.i
      <4> DEFINE r == read[j]
                 q == ReadOn(r, text)
      <4>1. r \in ReadType
        BY <1>2
      <4> HIDE DEF r
      <4>2. /\ q \in ReadType /\ Begins(r.texts, q.texts) /\ r.texts \in Seq(Blocks)
        BY <1>4, <4>1, TransmissionIs
      <4> HIDE DEF q
      <4>3. /\ q.texts \in Seq(Blocks) /\ Transmission(q) \in Seq(Blocks)
            /\ Begins(q.texts, Transmission(q))
        BY <4>2, TransmissionIs
      <4>4. Begins(r.texts, Transmission(q))
        BY <4>2, <4>3, BeginsChain
      <4>5. SoFar(j) = r.texts /\ SoFar(j)' = Transmission(q)
        BY <1>1, <1>5, <2>2, <3>1 DEF SoFar, q, r
      <4> QED
        BY <4>4, <4>5
    <3>2. CASE j # client.i
      BY <1>5, <2>2, <3>2 DEF SoFar
    <3> QED
      BY <3>1, <3>2
  <2> QED
    BY <1>1, <1>2, <2>1, <2>2, <2>3, NobodySavesText
<1>7. CASE wire.net["client"] # "reset"
  <2>1. /\ client'.pc = "send" /\ client'.i = client.i /\ client'.line = text
        /\ ~Raises("client")
        /\ wire' = IF text = 0 THEN wire ELSE Sent(wire, "client", Block(text))
    BY <1>1, <1>2, <1>3, <1>7 DEF SendsLine, ClientType
  <2>2. wire'.held = wire.held
    <3>1. text # 0 => Block(text) \in Items
      BY <1>4, LogsAre, ItemsTyped
    <3> QED
      BY <1>2, <2>1, <3>1, SentIs, TwoSides DEF TextInv, TurnInv, Raises
  <2>3. Unread'
    BY <1>1, <1>2, <1>5, <2>1, <2>2, LogsAre DEF TextInv, Unread
  <2>4. LineRead'
    BY <1>5, <2>1 DEF LineRead
  <2>5. \A j \in Logs :
          SoFar(j)' = IF j = client.i THEN Grown(SoFar(j), text) ELSE SoFar(j)
    BY <1>1, <1>5, <2>1 DEF SoFar
  <2> QED
    BY <1>1, <1>4, <1>7, <2>1, <2>3, <2>4, <2>5, LineText
<1> QED
  BY <1>6, <1>7

LEMMA SendMarkText ==
  ASSUME TextInv, TurnInv', SendMark
  PROVE  TextInv'
<1>1. /\ client.pc = "mark" /\ wire.net["client"] # "broken" /\ ~Raises("client")
      /\ ClientNext(Sent(wire, "client", EOT)) /\ UNCHANGED <<master, saved, read, lost>>
  BY DEF SendMark, Raises
<1>2. /\ "client" \in wire.held /\ (Talking => ~lost) /\ master.pc # "sleep"
      /\ Talking => client.i = master.i /\ master.pc = "save" /\ ToMaster \in Seq(Blocks)
  BY <1>1, SendingFinds, ServingFinds DEF TextInv
<1> DEFINE w == Sent(wire, "client", EOT)
<1>3. /\ Sound(w) /\ w.held = wire.held
      /\ w.in["master"] = IF Talking THEN Append(ToMaster, EOT) ELSE <<>>
  BY <1>1, SendingLeaves DEF TextInv
<1>4. ClientNext(w)
  BY <1>1
<1> HIDE DEF w
<1>5. Unread' /\ LineRead' /\ \A j \in Logs : SoFar(j)' = SoFar(j)
  BY <1>1, <1>3, <1>4, ClientGoesOnReads DEF SoFar
<1>6. CASE ~Talking
  BY <1>1, <1>2, <1>5, <1>6, NobodySavesText
<1>7. CASE Talking
  <2>1. ToMaster' = Append(ToMaster, EOT)
    BY <1>3, <1>4, <1>7, ClosedIs, TwoSides DEF ClientNext, ToMaster
  <2>2. ASSUME NEW j \in Logs
        PROVE  /\ Follows(saved[j], Coming(j)', SoFar(j))
               /\ Through(j)' => Len(saved[j]) + Texts(Coming(j)') = Len(SoFar(j))
    <3>1. /\ saved[j] \in Seq(Items) /\ SoFar(j) \in Seq(Blocks)
          /\ Follows(saved[j], Coming(j), SoFar(j))
          /\ Through(j) => Len(saved[j]) + Texts(Coming(j)) = Len(SoFar(j))
      BY <1>2, <1>7, TextTypes DEF TextInv, InOrder, AllThere
    <3>2. CASE j = master.i
      <4>1. Coming(j) = ToMaster /\ Coming(j)' = Append(ToMaster, EOT) /\ Through(j)
        BY <1>1, <1>2, <1>7, <2>1, <3>2 DEF Coming, Through
      <4>2. /\ Follows(saved[j], Append(ToMaster, EOT), SoFar(j))
            /\ Texts(Append(ToMaster, EOT)) = Texts(ToMaster)
        BY <1>2, <1>7, <3>1, <4>1, FollowsMarked
      <4> QED
        BY <3>1, <4>1, <4>2
    <3>3. CASE j # master.i
      <4>1. Coming(j) = <<>> /\ Coming(j)' = <<>>
        BY <1>1, <3>3 DEF Coming
      <4>2. Through(j)' => Through(j)
        BY <1>1, <1>2, <1>7, <3>3 DEF Through, Talking
      <4> QED
        BY <3>1, <4>1, <4>2
    <3> QED
      BY <3>2, <3>3
  <2>3. InOrder' /\ AllThere'
    BY <1>1, <1>5, <2>2 DEF InOrder, AllThere
  <2> QED
    BY <1>5, <2>3 DEF TextInv
<1> QED
  BY <1>6, <1>7

LEMMA ClientEndsText ==
  ASSUME TextInv, TurnInv', ClientEnds
  PROVE  TextInv'
<1>1. /\ client'.pc = "dead" /\ client'.line = 0 /\ lost' = TRUE
      /\ "client" \notin wire'.held /\ ToMaster' = ToMaster
      /\ UNCHANGED <<master, saved, read>>
  <2>1. ToMaster' = ToMaster
    BY TwoSides DEF ClientEnds, Left, ToMaster, TextInv, TurnInv, Sound
  <2> QED
    BY <2>1 DEF ClientEnds, Idle, Left
<1>2. Unread' /\ LineRead'
  BY <1>1 DEF Unread, LineRead
<1>3. ASSUME NEW j \in Logs
      PROVE  /\ Coming(j)' = Coming(j)
             /\ SoFar(j)' = SoFar(j) \/ Begins(SoFar(j), SoFar(j)')
  <2>1. Begins(read[j].texts, Transmission(read[j]))
    BY TextTypes, TransmissionIs DEF TextInv
  <2> QED
    BY <1>1, <2>1 DEF SoFar, Coming
<1> QED
  BY <1>1, <1>2, <1>3, TextKeeps

LEMMA ClientStartsText ==
  ASSUME TextInv, TurnInv', ClientStarts
  PROVE  TextInv'
<1>1. /\ client.pc = "dead" /\ client'.pc = "accept" /\ client'.line = 0
      /\ UNCHANGED <<master, wire, saved, read, lost>>
  BY DEF ClientStarts, Idle
<1>2. "client" \notin wire.held
  BY <1>1 DEF TextInv, TurnInv, EndsHeld
<1>3. Unread' /\ LineRead'
  BY <1>1, <1>2 DEF Unread, LineRead
<1>4. ~(Talking /\ ~lost)
  BY <1>1, <1>2 DEF TextInv, TurnInv, InPhase, Asking, Answering, Giving, Saving, Abreast, Ahead
<1>5. ASSUME NEW j \in Logs
      PROVE  /\ SoFar(j)' = SoFar(j) /\ Coming(j)' = Coming(j)
             /\ ~lost' /\ Through(j)' => Through(j)
  BY <1>1, <1>4 DEF SoFar, Coming, ToMaster, Through, Talking
<1> QED
  BY <1>1, <1>3, <1>5, TextKeeps

LEMMA StepTextInv == CharSigned /\ TextInv /\ [Next]_vars => TextInv'
<1> SUFFICES ASSUME CharSigned, TextInv, [Next]_vars PROVE TextInv'
  OBVIOUS
<1>1. TurnInv'
  BY StepTurnInv DEF TextInv
<1>2. CASE Connect
  BY <1>1, <1>2, ConnectText
<1>3. CASE MasterStep
  BY <1>1, <1>3, MasterSendsText, ReadAnswerText, SaveText, SaveEndsText, MasterEndsText
     DEF MasterStep
<1>4. CASE ClientStep
  BY <1>1, <1>4, AcceptText, ReadRequestText, AnswerText, ReadCommandText, SendBlockText,
     SendLastText, SendMarkText, ClientEndsText DEF ClientStep, ClientKilled, ClientBackup
<1>5. CASE Faults
  BY <1>1, <1>5, MasterEndsText, ClientEndsText, ClientStartsText DEF Faults, ClientExits
<1>6. CASE \E s \in Sides : ResetArrives(s)
  BY <1>1, <1>6, ResetText
<1>7. CASE UNCHANGED vars
  BY <1>1, <1>7, StutterText
<1> QED
  BY <1>2, <1>3, <1>4, <1>5, <1>6, <1>7 DEF Next

\* The whole of the invariant of the texts, where char is signed.
THEOREM TextsInvariant == CharSigned /\ Spec => []TextInv
<1>1. CASE CharSigned
  <2>1. TextInv /\ [Next]_vars => TextInv'
    BY <1>1, StepTextInv
  <2>2. Init => TextInv
    BY InitTextInv
  <2> QED
    BY <2>1, <2>2, PTL DEF Spec
<1>2. CASE ~CharSigned
  BY <1>2
<1> QED
  BY <1>1, <1>2

\* With a signed char, as on x86: what the master's file of a log holds is at
\* every moment the beginning of what the client read from that log, whichever
\* process ends and when.
THEOREM SavedStaysInOrder == CharSigned /\ Spec => []SavedInOrder
<1>1. TextInv => SavedInOrder
  <2> SUFFICES ASSUME TextInv, NEW j \in Logs
               PROVE  IsPrefix(saved[j], Transmission(read[j]))
    BY DEF SavedInOrder
  <2> DEFINE s == saved[j]
             t == Transmission(read[j])
  <2>1. /\ s \in Seq(Items) /\ SoFar(j) \in Seq(Blocks) /\ t \in Seq(Blocks)
        /\ Coming(j) \in Seq(Items) /\ Follows(s, Coming(j), SoFar(j))
        /\ SoFar(j) = t \/ Begins(SoFar(j), t)
    BY TextTypes, TransmissionIs DEF TextInv, InOrder, SoFar
  <2> HIDE DEF s, t
  <2>2. Follows(s, Coming(j), t)
    BY <2>1, FollowsMore
  <2>3. /\ Len(s) \in Nat /\ Len(t) \in Nat /\ Len(s) <= Len(t)
        /\ \A k \in 1 .. Len(s) : s[k] = t[k]
    BY <2>1, <2>2, TextsAre DEF Follows
  <2>4. IsPrefix(s, t)
    BY <2>1, <2>3 DEF IsPrefix
  <2> QED
    BY <2>4 DEF s, t
<1>2. CASE CharSigned
  <2>1. Spec => []TextInv
    BY <1>2, TextsInvariant
  <2> QED
    BY <1>1, <2>1, PTL
<1>3. CASE ~CharSigned
  BY <1>3
<1> QED
  BY <1>2, <1>3

EndedIsLost == master.pc \in {"killed", "exited"} => lost

\* A conversation whose master has ended is one in which a process ended.
LEMMA EndedStaysLost == Spec => []EndedIsLost
<1>1. Init => EndedIsLost
  BY DEF Init, EndedIsLost
<1>2. ASSUME TurnInv, EndedIsLost, [Next]_vars
      PROVE  EndedIsLost'
  <2>1. \E type : master \in [pc : MasterPcs, i : type]
    BY <1>2, TypesAre DEF TurnInv
  <2>2. CASE Connect
    BY <2>1, <2>2 DEF Connect, MasterAt, EndedIsLost
  <2>3. CASE MasterStep
    BY <1>2, <2>1, <2>3
       DEF MasterStep, AskName, AskFile, MasterSends, ReadAnswer, ReadNoAnswer, Save, SaveEnds,
           SaveLost, MasterKilled, MasterNext, MasterAt, EndedIsLost
  <2>4. CASE ClientStep \/ UNCHANGED vars \/ \E s \in Sides : ResetArrives(s)
    BY <1>2, <2>4
       DEF ClientStep, Accept, ReadRequest, ReadNoRequest, AnswerOK, AnswerWrong, ReadCommand,
           ReadNoCommand, SendBlock, SendLast, SendMark, ClientKilled, ClientBackup, ClientEnds,
           ResetArrives, EndedIsLost, vars
  <2>5. CASE Faults
    BY <1>2, <2>5
       DEF Faults, MasterExits, ClientExits, ClientEnds, ClientStarts, EndedIsLost
  <2> QED
    BY <1>2, <2>2, <2>3, <2>4, <2>5 DEF Next
<1> QED
  BY <1>1, <1>2, TurnsInvariant, PTL DEF Spec

\* With a signed char, as on x86: while both processes live, a log the master
\* has gone past is saved whole.
THEOREM SavedStaysWhole == CharSigned /\ Spec => []SavedWhole
<1>1. TextInv /\ EndedIsLost => SavedWhole
  <2> SUFFICES ASSUME TextInv, EndedIsLost, ~lost,
                      NEW j \in Logs, j < master.i \/ master.pc = "sleep"
               PROVE  saved[j] = Transmission(read[j])
    BY DEF SavedWhole
  <2> DEFINE s == saved[j]
             t == Transmission(read[j])
  <2>1. Through(j)
    BY TurnFacts DEF EndedIsLost, TextInv, Talking, MasterPcs, Through
  <2>2. j \in Nat /\ master.i \in Nat
    BY TurnFacts, LogsAre DEF TextInv
  <2>3. Coming(j) = <<>> /\ Texts(<<>>) = 0
    BY <2>2 DEF Coming, Texts, TextInv, TurnInv, EndsHeld
  <2>4. SoFar(j) = t
    <3> SUFFICES ASSUME client.pc = "send", client.i = j PROVE FALSE
      BY DEF SoFar
    <3>1. Talking => client.i = master.i
      BY SendingFinds DEF TextInv
    <3>2. master.pc # "sleep"
      BY DEF TextInv, TurnInv, EndsHeld, Serving
    <3> QED
      BY <2>1, <2>2, <3>1, <3>2 DEF Through
  <2>5. /\ s \in Seq(Items) /\ t \in Seq(Blocks) /\ Follows(s, <<>>, t)
        /\ Len(s) + 0 = Len(t)
    BY <2>1, <2>3, <2>4, TextTypes DEF TextInv, InOrder, AllThere
  <2> HIDE DEF s, t
  <2>6. Len(s) = Len(t) /\ \A k \in 1 .. Len(s) : s[k] = t[k]
    BY <2>5 DEF Follows
  <2>7. s = t
    BY <2>5, <2>6
  <2> QED
    BY <2>7 DEF s, t
<1>2. CASE CharSigned
  <2>1. Spec => []TextInv
    BY <1>2, TextsInvariant
  <2> QED
    BY <1>1, <2>1, EndedStaysLost, PTL
<1>3. CASE ~CharSigned
  BY <1>3
<1> QED
  BY <1>2, <1>3
=============================================================================
