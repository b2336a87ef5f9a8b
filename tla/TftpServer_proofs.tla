------------------------- MODULE TftpServer_proofs -------------------------
(***************************************************************************)
(* Proofs about TftpServer for any clients, names, lengths of files,       *)
(* arguments and faults: the content of the files, the deafness after a    *)
(* timeout, and that every step is a step of FileStore or a stutter.       *)
(***************************************************************************)
EXTENDS TftpServer, TLAPS

USE DEF vars, serverVars, transferVars

\* The transfer in progress has a client and blocks to come; it counts no more
\* timeouts than it answers, and looks at the socket before the first only.
Served ==
  /\ pc \in {"receive", "close"} => client_addr \in Clients
  /\ pc = "receive" =>
       /\ block_number < Blocks[client_addr]
       /\ \/ missed_packets = 0
          \/ ~watching /\ missed_packets <= MaxResends

\* Every file holds the first blocks of one client's file, fewer than WordMod.
FilesAreParts ==
  /\ disk = [n \in DOMAIN disk |-> disk[n]]
  /\ \A n \in DOMAIN disk : \E c \in Clients : \E k \in 0..Blocks[c] :
       k < WordMod /\ disk[n] = Part(c, k)

SentIsABlock == \A c \in Clients : client[c].sent <= Blocks[c]

IInv == TypeOK /\ Served /\ ContentInOrder /\ FilesAreParts /\ SentIsABlock

-----------------------------------------------------------------------------
(* Packets, numbers and files *)

LEMMA PacketType ==
  ASSUME NEW c \in Clients, NEW k \in 0..Blocks[c]
  PROVE  Packet(c, k) \in ToServer
BY DEF ToServer, Upload

LEMMA PacketFields ==
  ASSUME NEW p \in ToServer
  PROVE  /\ p.from \in Clients /\ p.k \in 0..Blocks[p.from]
         /\ p.k \in 0..WordMod
         /\ p = Packet(p.from, p.k)
<1>1. PICK c \in Clients : p \in Upload(c)
  BY DEF ToServer
<1>2. PICK k \in 0..Blocks[c] : p = Packet(c, k)
  BY <1>1 DEF Upload
<1>3. Blocks[c] \in 1..WordMod
  BY BlocksAssumption
<1>4. QED
  BY <1>2, <1>3, WordAssumption DEF Packet

LEMMA AnswerType ==
  ASSUME NEW c \in Clients
  PROVE  /\ \A n \in 0..(WordMod - 1) : Ack(c, n) \in ToClients
         /\ Error(c) \in ToClients
BY WordAssumption DEF Ack, Error, ToClients

\* A block whose field is the number expected next is the next block: files
\* are too short for the field to come round to it again.
LEMMA NextBlock ==
  ASSUME NEW p \in ToServer, block_number \in 0..(WordMod - 1),
         IsNextBlock(p), Opcode(p) = "DATA"
  PROVE  p.k = block_number + 1 /\ p.k < WordMod
<1>1. p.k \in 1..WordMod /\ p.k % WordMod = block_number + 1
  BY PacketFields DEF IsNextBlock, Opcode, BlockField
<1>2. CASE p.k = WordMod
  <2>1. p.k % WordMod = 0
    BY <1>2, WordAssumption, SMTT(30)
  <2>2. QED
    BY <1>1, <2>1
<1>3. CASE p.k # WordMod
  <2>1. p.k % WordMod = p.k
    BY <1>1, <1>3, WordAssumption, SMTT(30)
  <2>2. QED
    BY <1>1, <1>3, <2>1, WordAssumption
<1>4. QED
  BY <1>2, <1>3

LEMMA MaxResendsType == MaxResends \in Int /\ MaxResends < WordMod
<1>1. ResendArg % WordMod \in 0..(WordMod - 1)
  BY WordAssumption, ArgumentsAssumption, SMTT(30)
<1>2. QED
  BY <1>1, WordAssumption DEF MaxResends, ToShort

\* A file grows by its next block.
LEMMA PartGrows ==
  ASSUME NEW c \in Clients, NEW n \in Nat
  PROVE  Append(Part(c, n), <<c, n + 1>>) = Part(c, n + 1)
BY DEF Part

LEMMA PartType ==
  ASSUME NEW c \in Clients, NEW n \in 0..WordMod
  PROVE  /\ Part(c, n) \in Seq(Clients \X (1..WordMod))
         /\ Len(Part(c, n)) = n
         /\ \A i \in 0..n : SubSeq(Part(c, n), 1, i) = Part(c, i)
BY WordAssumption DEF Part

LEMMA TextType ==
  ASSUME NEW p \in ToServer
  PROVE  Text(p) \in Seq(Chars)
BY NameAssumption, PacketFields DEF Text

LEMMA NameAfterType ==
  ASSUME NEW p \in ToServer, file_name \in Seq(Chars)
  PROVE  NameAfter(p) \in Seq(Chars)
<1>1. Text(p) \in Seq(Chars) /\ Len(Text(p)) + 1 \in Nat \ {0}
  BY TextType
<1>2. SubSeq(file_name, Len(Text(p)) + 1, Len(file_name)) \in Seq(Chars)
  BY <1>1
<1>3. QED
  BY <1>1, <1>2 DEF NameAfter

-----------------------------------------------------------------------------
(* What the steps share *)

\* A step after which one file holds the first blocks of a client's file, and
\* the others are as they were.
LEMMA OneFileChanges ==
  ASSUME FilesAreParts, NEW n, NEW c \in Clients, NEW k \in 0..Blocks[c],
         k < WordMod,
         DOMAIN disk' \subseteq DOMAIN disk \cup {n},
         disk' = [m \in DOMAIN disk' |-> disk'[m]],
         \A m \in DOMAIN disk' :
           disk'[m] = IF m = n THEN Part(c, k) ELSE disk[m]
  PROVE  FilesAreParts'
BY DEF FilesAreParts

LEMMA ReceiveType ==
  ASSUME TypeOK, NEW p, Receive(p)
  PROVE  p \in ToServer /\ socket' \in Seq(ToServer)
BY DEF TypeOK, Receive

\* A step that keeps, deletes or leaves the open file is none that writes.
Shrinks == disk' \in {disk, Without(file_name)}

LEMMA ShrinksFiles ==
  ASSUME TypeOK, FilesAreParts, Shrinks
  PROVE  /\ DOMAIN disk' \subseteq Seq(Chars)
         /\ FilesAreParts'
<1>1. /\ DOMAIN disk' \subseteq DOMAIN disk
      /\ disk' = [n \in DOMAIN disk' |-> disk'[n]]
      /\ \A n \in DOMAIN disk' : disk'[n] = disk[n]
  BY DEF FilesAreParts, Shrinks, Without
<1>2. QED
  BY <1>1 DEF TypeOK, FilesAreParts

\* Network and clients leave the server alone.
LEMMA OthersKeep ==
  ASSUME IInv, UNCHANGED serverVars
  PROVE  /\ Served' /\ ContentInOrder' /\ FilesAreParts'
         /\ DOMAIN disk' \subseteq Seq(Chars)
BY DEF IInv, TypeOK, Served, ContentInOrder, FilesAreParts

ClientRecord == [state : {"idle", "sending", "done", "failed"},
                 sent  : 0..WordMod, tries : 0..ClientRetries]

-----------------------------------------------------------------------------
(* Network and clients *)

LEMMA NetworkSteps ==
  ASSUME IInv, NEW m \in net, Deliver(m) \/ Lose(m)
  PROVE  IInv'
<1>1. UNCHANGED <<faults, serverVars, client>>
  BY DEF Deliver, Lose
<1>2. net' \subseteq net
  BY DEF Deliver, Lose, Leaves
<1>3. socket' \in Seq(ToServer)
  <2>1. CASE Deliver(m)
    <3>1. m \in ToServer /\ socket' = Append(socket, m)
      BY <2>1 DEF Deliver
    <3>2. QED
      BY <3>1 DEF IInv, TypeOK
  <2>2. CASE Lose(m)
    BY <2>2 DEF IInv, TypeOK, Lose
  <2>3. QED
    BY <2>1, <2>2
<1>4. TypeOK' /\ SentIsABlock'
  BY <1>1, <1>2, <1>3 DEF IInv, TypeOK, SentIsABlock
<1>5. QED
  BY <1>1, <1>4, OthersKeep DEF IInv

LEMMA ClientSteps ==
  ASSUME IInv, NEW c \in Clients, ClientStep(c)
  PROVE  IInv'
<1>1. UNCHANGED <<faults, serverVars, socket>>
  BY DEF ClientStep, Request, Repeat, GiveUp, TimesOut, SendNext, Finish,
         Fail, Ignore, Gets
<1>2. client[c] \in ClientRecord /\ client[c].sent \in 0..Blocks[c]
  BY BlocksAssumption DEF IInv, TypeOK, SentIsABlock, ClientRecord
<1>3. /\ net' \subseteq ToServer \cup ToClients
      /\ \/ UNCHANGED client
         \/ \E r \in ClientRecord : r.sent <= Blocks[c]
                                    /\ client' = [client EXCEPT ![c] = r]
  <2> DEFINE r == client[c]
             Known == net' \subseteq ToServer \cup ToClients
             Becomes(s) == /\ s \in ClientRecord /\ s.sent <= Blocks[c]
                           /\ client' = [client EXCEPT ![c] = s]
  <2>0. /\ net \subseteq ToServer \cup ToClients
        /\ client \in [Clients -> ClientRecord]
        /\ Blocks[c] \in 1..WordMod
    BY BlocksAssumption DEF IInv, TypeOK, ClientRecord
  <2>1. CASE Request(c)
    <3>1. Known
      BY <2>1, <2>0, PacketType DEF Request, Send
    <3>2. Becomes([r EXCEPT !.state = "sending"])
      BY <2>1, <2>0, <1>2 DEF Request, ClientRecord
    <3>3. QED
      BY <3>1, <3>2
  <2>2. CASE Repeat(c)
    <3>1. Known
      BY <2>2, <2>0, <1>2, PacketType DEF Repeat, Send
    <3>2. Becomes([r EXCEPT !.tries = r.tries + 1])
      BY <2>2, <2>0, <1>2, BoundsAssumption DEF Repeat, ClientRecord
    <3>3. QED
      BY <3>1, <3>2
  <2>3. CASE GiveUp(c)
    <3>1. Becomes([r EXCEPT !.state = "failed"])
      BY <2>3, <2>0, <1>2 DEF GiveUp, ClientRecord
    <3>2. QED
      BY <3>1, <2>3, <2>0 DEF GiveUp
  <2>4. ASSUME NEW m \in net \cap ToClients, SendNext(c, m)
       PROVE  <1>3!1 /\ <1>3!2
    <3>1. Packet(c, r.sent + 1) \in ToServer /\ r.sent + 1 \in 1..Blocks[c]
      BY <2>4, <2>0, <1>2, PacketType DEF SendNext
    <3>2. Known
      BY <2>4, <2>0, <3>1 DEF SendNext
    <3>3. Becomes([state |-> "sending", sent |-> r.sent + 1, tries |-> 0])
      <4>1. r.sent + 1 \in 0..WordMod /\ 0 \in 0..ClientRetries
        BY <2>0, <1>2, <3>1, BoundsAssumption, WordAssumption
      <4>2. [state |-> "sending", sent |-> r.sent + 1, tries |-> 0]
              \in ClientRecord
        BY <4>1 DEF ClientRecord
      <4>3. QED
        BY <4>2, <2>4, <3>1 DEF SendNext
    <3>4. QED
      BY <3>2, <3>3
  <2>5. ASSUME NEW m \in net \cap ToClients, Finish(c, m)
       PROVE  <1>3!1 /\ <1>3!2
    <3>1. Becomes([r EXCEPT !.state = "done"])
      BY <2>5, <2>0, <1>2 DEF Finish, ClientRecord
    <3>2. QED
      BY <3>1, <2>5, <2>0 DEF Finish, Leaves
  <2>6. ASSUME NEW m \in net \cap ToClients, Fail(c, m)
       PROVE  <1>3!1 /\ <1>3!2
    <3>1. Becomes([r EXCEPT !.state = "failed"])
      BY <2>6, <2>0, <1>2 DEF Fail, ClientRecord
    <3>2. QED
      BY <3>1, <2>6, <2>0 DEF Fail, Leaves
  <2>7. ASSUME NEW m \in net \cap ToClients, Ignore(c, m)
       PROVE  <1>3!1 /\ <1>3!2
    BY <2>7, <2>0 DEF Ignore, Leaves
  <2>8. QED
    BY <2>1, <2>2, <2>3, <2>4, <2>5, <2>6, <2>7 DEF ClientStep
<1>4. client' \in [Clients -> ClientRecord] /\ SentIsABlock'
  BY <1>3 DEF IInv, TypeOK, SentIsABlock, ClientRecord
<1>5. TypeOK'
  BY <1>1, <1>3, <1>4 DEF IInv, TypeOK, ClientRecord
<1>6. QED
  BY <1>1, <1>4, <1>5, OthersKeep DEF IInv

-----------------------------------------------------------------------------
(* The server.  Its steps write one block, create one file, or keep or     *)
(* delete the open one.                                                    *)

\* What a step of the server has to show, when it leaves the clients alone.
LEMMA ServerStepKeeps ==
  ASSUME IInv, UNCHANGED <<faults, client>>,
         pc' \in {"wrq", "receive", "close", "exit"},
         file_name' \in Seq(Chars),
         client_addr' \in Clients \cup {Nobody},
         block_number' \in 0..(WordMod - 1),
         missed_packets' \in 0..WordMod,
         watching' \in BOOLEAN,
         socket' \in Seq(ToServer),
         net' \subseteq ToServer \cup ToClients,
         DOMAIN disk' \subseteq Seq(Chars),
         FilesAreParts', Served', ContentInOrder'
  PROVE  IInv'
<1>1. \A n \in DOMAIN disk' : disk'[n] \in Seq(Clients \X (1..WordMod))
  <2>1. SUFFICES ASSUME NEW n \in DOMAIN disk'
                 PROVE  disk'[n] \in Seq(Clients \X (1..WordMod))
    OBVIOUS
  <2>2. PICK c \in Clients : \E k \in 0..Blocks[c] : disk'[n] = Part(c, k)
    BY DEF FilesAreParts
  <2>3. PICK k \in 0..Blocks[c] : disk'[n] = Part(c, k)
    BY <2>2
  <2>4. k \in 0..WordMod
    BY <2>3, BlocksAssumption, WordAssumption
  <2>5. QED
    BY <2>3, <2>4, PartType
<1>2. TypeOK'
  BY <1>1 DEF IInv, TypeOK
<1>3. QED
  BY <1>2 DEF IInv, SentIsABlock

\* Steps after which nothing is being received, and that write no file.
LEMMA LeavingSteps ==
  ASSUME IInv, UNCHANGED <<faults, client, file_name, client_addr,
                           block_number>>,
         pc' \in {"wrq", "exit"} \/ (pc' = "close" /\ pc = "receive"
                                     /\ disk' = Without(file_name)),
         missed_packets' \in 0..WordMod, watching' \in BOOLEAN,
         socket' \in Seq(ToServer), net' \subseteq ToServer \cup ToClients,
         Shrinks
  PROVE  IInv'
<1>1. DOMAIN disk' \subseteq Seq(Chars) /\ FilesAreParts'
  BY ShrinksFiles DEF IInv
<1>2. Served' /\ ContentInOrder'
  BY DEF IInv, Served, ContentInOrder, Without
<1>3. QED
  BY <1>1, <1>2, ServerStepKeeps DEF IInv, TypeOK

\* Steps that go on receiving without a new block.
LEMMA WaitingSteps ==
  ASSUME IInv, UNCHANGED <<faults, client, file_name, client_addr,
                           block_number, pc, disk>>,
         missed_packets' \in 0..WordMod, watching' \in BOOLEAN,
         UNCHANGED <<missed_packets, watching>>
           \/ (missed_packets' <= MaxResends /\ ~watching'),
         socket' \in Seq(ToServer), net' \subseteq ToServer \cup ToClients
  PROVE  IInv'
<1>1. Served' /\ ContentInOrder' /\ FilesAreParts'
  BY DEF IInv, Served, ContentInOrder, FilesAreParts
<1>2. QED
  BY <1>1, ServerStepKeeps DEF IInv, TypeOK

\* What Send and SendFails leave on the network.
LEMMA SendType ==
  ASSUME IInv, NEW m \in ToClients, Send(m) \/ UNCHANGED net
  PROVE  net' \subseteq ToServer \cup ToClients
BY DEF IInv, TypeOK, Send

LEMMA RequestSteps ==
  ASSUME IInv, NEW p, Refuse(p) \/ FopenFails(p) \/ Serve(p)
  PROVE  IInv'
<1>1. /\ p \in ToServer /\ socket' \in Seq(ToServer) /\ p.from \in Clients
      /\ UNCHANGED <<faults, client>>
      /\ client_addr' = p.from /\ pc = "wrq"
      /\ file_name' = NameAfter(p) /\ NameAfter(p) \in Seq(Chars)
  BY ReceiveType, PacketFields, NameAfterType
     DEF IInv, TypeOK, Refuse, FopenFails, Serve, Awaits
<1>2. ASSUME Refuse(p) \/ FopenFails(p) PROVE IInv'
  <2>1. /\ pc' \in {"wrq", "exit"} /\ UNCHANGED <<disk, transferVars>>
        /\ net' \subseteq ToServer \cup ToClients
    BY <1>1, <1>2, SendType, AnswerType
       DEF IInv, TypeOK, Refuse, FopenFails, Exit, SendFails
  <2>2. Served' /\ ContentInOrder' /\ FilesAreParts'
    BY <2>1 DEF IInv, Served, ContentInOrder, FilesAreParts
  <2>3. QED
    BY <1>1, <2>1, <2>2, ServerStepKeeps DEF IInv, TypeOK
<1>3. ASSUME Serve(p) PROVE IInv'
  <2>1. /\ pc' \in {"receive", "exit"}
        /\ net' \subseteq ToServer \cup ToClients
        /\ disk' = With(NameAfter(p), <<>>)
        /\ block_number' = 0 /\ missed_packets' = 0 /\ watching' = TRUE
    BY <1>1, <1>3, SendType, AnswerType, WordAssumption
       DEF Serve, Exit, SendFails
  <2>2. Blocks[p.from] \in 1..WordMod
    BY <1>1, BlocksAssumption
  <2>3. <<>> = Part(p.from, 0)
    BY DEF Part
  <2>4. Served' /\ ContentInOrder'
    BY <1>1, <2>1, <2>2, <2>3 DEF Served, ContentInOrder, With
  <2>5. FilesAreParts'
    <3>1. 0 \in 0..Blocks[p.from] /\ 0 < WordMod
      BY <2>2, WordAssumption
    <3>2. /\ DOMAIN disk' \subseteq DOMAIN disk \cup {NameAfter(p)}
          /\ disk' = [m \in DOMAIN disk' |-> disk'[m]]
          /\ \A m \in DOMAIN disk' :
               disk'[m] = IF m = NameAfter(p) THEN Part(p.from, 0) ELSE disk[m]
      BY <2>1, <2>3 DEF With
    <3>3. QED
      BY <1>1, <3>1, <3>2, OneFileChanges DEF IInv
  <2>6. DOMAIN disk' \subseteq Seq(Chars)
    BY <1>1, <2>1 DEF IInv, TypeOK, With
  <2>7. QED
    BY <1>1, <2>1, <2>4, <2>5, <2>6, WordAssumption, ServerStepKeeps
<1>4. QED
  BY <1>2, <1>3

LEMMA TimeoutSteps ==
  ASSUME IInv, Resend \/ Abandon
  PROVE  IInv'
<1>1. /\ pc = "receive" /\ client_addr \in Clients
      /\ UNCHANGED <<faults, client, file_name, client_addr, block_number>>
      /\ watching' \in BOOLEAN /\ socket' \in Seq(ToServer)
      /\ missed_packets' = missed_packets + 1 /\ missed_packets' \in 0..WordMod
      /\ ~watching'
  <2>1. SelectTimesOut
    BY DEF Resend, Abandon
  <2>2. missed_packets \in 0..(WordMod - 1) /\ client_addr \in Clients
    BY <2>1, MaxResendsType, WordAssumption
       DEF IInv, TypeOK, Served, SelectTimesOut
  <2>3. missed_packets + 1 \in 0..WordMod
    BY <2>2, WordAssumption
  <2>4. QED
    BY <2>1, <2>2, <2>3 DEF IInv, TypeOK, SelectTimesOut
<1>2. block_number \in 0..(WordMod - 1)
  BY DEF IInv, TypeOK
<1>3. CASE Resend
  <2>1. net' \subseteq ToServer \cup ToClients
    BY <1>1, <1>2, <1>3, SendType, AnswerType DEF Resend, SendFails
  <2>2. missed_packets' <= MaxResends /\ UNCHANGED disk
    BY <1>1, <1>3, MaxResendsType DEF IInv, TypeOK, Resend
  <2>3. UNCHANGED pc \/ pc' = "exit"
    BY <1>3 DEF Resend, SendFails, Exit
  <2>4. QED
    BY <1>1, <2>1, <2>2, <2>3, WaitingSteps, LeavingSteps DEF Shrinks
<1>4. CASE Abandon
  <2>1. net' \subseteq ToServer \cup ToClients
    BY <1>1, <1>4, SendType, AnswerType DEF Abandon, Abandoned, SendFails
  <2>2. QED
    BY <1>1, <1>4, <2>1, LeavingSteps
       DEF Abandon, Abandoned, DeleteFile, Shrinks, SendFails, Exit
<1>5. QED
  BY <1>3, <1>4

LEMMA CloseSteps ==
  ASSUME IInv, Close \/ SelectFails
  PROVE  IInv'
BY LeavingSteps
   DEF Close, SelectFails, DeleteFile, Exit, Shrinks, IInv, TypeOK

LEMMA StrangerStep ==
  ASSUME IInv, NEW p, Stranger(p)
  PROVE  IInv'
<1>1. /\ socket' \in Seq(ToServer) /\ p \in ToServer /\ p.from \in Clients
      /\ UNCHANGED <<faults, file_name, client_addr, transferVars, disk,
                     client>>
      /\ UNCHANGED pc \/ pc' = "exit"
  BY ReceiveType, PacketFields DEF IInv, Stranger, SendFails, Exit
<1>2. net' \subseteq ToServer \cup ToClients
  BY <1>1, SendType, AnswerType DEF Stranger, SendFails
<1>3. QED
  BY <1>1, <1>2, WaitingSteps, LeavingSteps DEF IInv, TypeOK, Shrinks

LEMMA RejectSteps ==
  ASSUME IInv, NEW p, Reject(p) \/ FwriteFails(p)
  PROVE  IInv'
<1>1. /\ socket' \in Seq(ToServer) /\ pc = "receive" /\ client_addr \in Clients
      /\ UNCHANGED <<faults, file_name, client_addr, block_number, watching,
                     client>>
      /\ missed_packets' \in 0..WordMod
  BY ReceiveType, WordAssumption
     DEF IInv, TypeOK, Served, Reject, FwriteFails, Reads, SelectReads
<1>2. net' \subseteq ToServer \cup ToClients
  BY <1>1, SendType, AnswerType
     DEF IInv, TypeOK, Reject, FwriteFails, Abandoned, SendFails
<1>3. /\ pc' = "exit" \/ (pc' = "close" /\ disk' = Without(file_name))
      /\ Shrinks
  BY DEF Reject, FwriteFails, Abandoned, DeleteFile, SendFails, Exit, Shrinks
<1>4. QED
  BY <1>1, <1>2, <1>3, LeavingSteps DEF IInv, TypeOK

LEMMA WriteStep ==
  ASSUME IInv, NEW p, Write(p)
  PROVE  IInv'
<1> DEFINE c == client_addr
           n == block_number + 1
<1>1. /\ socket' \in Seq(ToServer) /\ pc = "receive"
      /\ c \in Clients /\ p \in ToServer /\ p.from = c
      /\ UNCHANGED <<faults, file_name, client_addr, watching, client>>
      /\ missed_packets' = 0
  BY ReceiveType DEF IInv, Served, Write, Reads, SelectReads
<1>2. p.k = n /\ n \in 1..Blocks[c] /\ n < WordMod /\ Blocks[c] \in 1..WordMod
  BY <1>1, NextBlock, PacketFields, BlocksAssumption
     DEF IInv, TypeOK, Served, Write
<1>3. file_name \in DOMAIN disk
      /\ disk' = [disk EXCEPT ![file_name] = Part(c, n)]
  <2>1. file_name \in DOMAIN disk /\ disk[file_name] = Part(c, block_number)
    BY <1>1 DEF IInv, ContentInOrder
  <2>2. disk' = [disk EXCEPT ![file_name] =
                   Append(disk[file_name], <<c, n>>)]
    BY <1>1, <1>2 DEF Write, Data
  <2>3. Append(Part(c, block_number), <<c, n>>) = Part(c, n)
    <3>1. block_number \in Nat
      BY DEF IInv, TypeOK
    <3>2. QED
      BY <1>1, <3>1, PartGrows
  <2>4. QED
    BY <2>1, <2>2, <2>3
<1>4. block_number' = n
      /\ pc' \in {"exit", IF n < Blocks[c] THEN "receive" ELSE "close"}
  BY <1>1, <1>2 DEF Write, IsFull, SendFails, Exit
<1>5. net' \subseteq ToServer \cup ToClients
  <2>1. Ack(c, n) \in ToClients
    BY <1>1, <1>2, AnswerType, WordAssumption
  <2>2. QED
    BY <2>1, SendType DEF Write, SendFails
<1>6. FilesAreParts' /\ DOMAIN disk' \subseteq Seq(Chars)
  <2>1. n \in 0..Blocks[c]
    BY <1>2
  <2>2. FilesAreParts'
    BY <1>1, <1>2, <1>3, <2>1, OneFileChanges DEF IInv
  <2>3. QED
    BY <1>3, <2>2 DEF IInv, TypeOK
<1>7. Served' /\ ContentInOrder'
  BY <1>1, <1>2, <1>3, <1>4 DEF Served, ContentInOrder, Whole
<1>8. /\ block_number' \in 0..(WordMod - 1) /\ missed_packets' \in 0..WordMod
      /\ file_name' \in Seq(Chars) /\ watching' \in BOOLEAN
      /\ pc' \in {"wrq", "receive", "close", "exit"}
  BY <1>1, <1>2, <1>4, WordAssumption DEF IInv, TypeOK
<1>9. QED
  BY <1>1, <1>5, <1>6, <1>7, <1>8, ServerStepKeeps

LEMMA KillStep ==
  ASSUME IInv, Kill
  PROVE  IInv'
<1>1. /\ UNCHANGED <<faults, file_name, client_addr, transferVars, socket, net,
                     client>>
      /\ pc' = "exit"
  BY DEF Kill, Exit
<1>2. Served' /\ ContentInOrder'
  BY <1>1 DEF Served, ContentInOrder
<1>3. FilesAreParts' /\ DOMAIN disk' \subseteq Seq(Chars)
  <2>1. CASE IsOpen
    <3>1. PICK i \in 0..Len(disk[file_name]) :
            disk' = [disk EXCEPT ![file_name] = SubSeq(@, 1, i)]
      BY <2>1 DEF Kill
    <3>2. PICK c \in Clients : \E k \in 0..Blocks[c] :
            k < WordMod /\ disk[file_name] = Part(c, k)
      BY <2>1 DEF IInv, FilesAreParts, IsOpen
    <3>3. PICK k \in 0..Blocks[c] : k < WordMod /\ disk[file_name] = Part(c, k)
      BY <3>2
    <3>4. i \in 0..k /\ SubSeq(disk[file_name], 1, i) = Part(c, i)
      BY <3>1, <3>3, PartType, BlocksAssumption, WordAssumption
    <3>5. i \in 0..Blocks[c] /\ i < WordMod
      BY <3>3, <3>4, BlocksAssumption, WordAssumption
    <3>6. FilesAreParts'
      BY <2>1, <3>1, <3>4, <3>5, OneFileChanges DEF IInv, IsOpen
    <3>7. QED
      BY <3>1, <3>6 DEF IInv, TypeOK
  <2>2. CASE ~IsOpen
    BY <2>2 DEF IInv, TypeOK, FilesAreParts, Kill
  <2>3. QED
    BY <2>1, <2>2
<1>4. QED
  BY <1>1, <1>2, <1>3, ServerStepKeeps DEF IInv, TypeOK

LEMMA RestartStep ==
  ASSUME IInv, Restart
  PROVE  IInv'
<1>1. Served' /\ ContentInOrder' /\ FilesAreParts'
  BY DEF IInv, Served, ContentInOrder, FilesAreParts, Restart
<1>2. /\ 0 \in 0..(WordMod - 1) /\ 0 \in 0..WordMod
      /\ socket' \in Seq(ToServer) /\ file_name' \in Seq(Chars)
  BY WordAssumption DEF Restart
<1>3. QED
  BY <1>1, <1>2, ServerStepKeeps DEF IInv, TypeOK, Restart

-----------------------------------------------------------------------------
(* The invariant *)

LEMMA InitInv == Init => IInv
<1> SUFFICES ASSUME Init PROVE IInv
  OBVIOUS
<1>1. /\ 0 \in 0..(WordMod - 1) /\ 0 \in 0..WordMod /\ 0 \in 0..ClientRetries
      /\ Blocks \in [Clients -> 1..WordMod]
  BY WordAssumption, BoundsAssumption, BlocksAssumption
<1>2. DOMAIN disk = {}
  BY DEF Init
<1>3. SentIsABlock
  BY <1>1, WordAssumption DEF Init, SentIsABlock
<1>4. socket \in Seq(ToServer) /\ file_name \in Seq(Chars)
  BY DEF Init
<1>5. TypeOK
  BY <1>1, <1>2, <1>4 DEF Init, TypeOK
<1>6. QED
  BY <1>2, <1>3, <1>5
     DEF Init, IInv, Served, ContentInOrder, FilesAreParts

LEMMA NextInv == IInv /\ [Next]_vars => IInv'
<1> SUFFICES ASSUME IInv, [Next]_vars PROVE IInv'
  OBVIOUS
<1>1. ASSUME NEW p, Handle(p) PROVE IInv'
  BY <1>1, RequestSteps, StrangerStep, RejectSteps, WriteStep DEF Handle
<1>2. CASE ServerStep
  BY <1>1, <1>2, TimeoutSteps, CloseSteps DEF ServerStep
<1>3. CASE UNCHANGED vars
  BY <1>3 DEF IInv, TypeOK, Served, ContentInOrder, FilesAreParts,
              SentIsABlock
<1>4. QED
  BY <1>2, <1>3, KillStep, RestartStep, NetworkSteps, ClientSteps DEF Next

LEMMA Invariance == Spec => []IInv
BY InitInv, NextInv, PTL DEF Spec

\* Every variable keeps its type.
THEOREM TypeCorrect == Spec => []TypeOK
BY Invariance, PTL DEF IInv

\* Whatever the network does, the open file holds the first blocks of the
\* served client's file, each once and in order, and what main closes is
\* whole or removed.
THEOREM ContentCorrect == Spec => []ContentInOrder
BY Invariance, PTL DEF IInv

\* No file with as many blocks as a u_short has values ever gets stored.
THEOREM LongFilesRefused == Spec => []NoFileOfWordModBlocks
<1>1. IInv => NoFileOfWordModBlocks
  BY PartType, BlocksAssumption, WordAssumption
     DEF IInv, FilesAreParts, NoFileOfWordModBlocks
<1>2. QED
  BY <1>1, Invariance, PTL

\* After a timeout the transfer takes no packet any more.
THEOREM Deaf == Spec => DeafAfterTimeout
<1> DEFINE Doomed == pc = "receive" /\ missed_packets > 0
           Stays  == UNCHANGED block_number /\ Len(socket') >= Len(socket)
<1>1. ASSUME IInv, [Next]_vars, Doomed PROVE pc' # "receive" \/ Stays
  <2>1. socket \in Seq(ToServer) /\ Len(socket) \in Nat /\ ~watching
    BY <1>1 DEF IInv, TypeOK, Served
  <2>2. ASSUME NEW p, Handle(p) PROVE FALSE
    BY <1>1, <2>1, <2>2 DEF Handle, Refuse, FopenFails, Serve, Awaits,
       Stranger, Reject, FwriteFails, Write, Reads, SelectReads
  <2>3. CASE Resend \/ Abandon \/ SelectFails \/ Close
    BY <1>1, <2>1, <2>3
       DEF Resend, Abandon, SelectTimesOut, SelectFails, Close
  <2>4. CASE Kill \/ Restart
    BY <1>1, <2>4 DEF Kill, Restart, Exit
  <2>5. ASSUME NEW m \in net, Deliver(m) PROVE Stays
    BY <1>1, <2>1, <2>5 DEF Deliver
  <2>6. ASSUME NEW m \in net, Lose(m) PROVE Stays
    BY <1>1, <2>1, <2>6 DEF Lose
  <2>7. ASSUME NEW c \in Clients, ClientStep(c) PROVE Stays
    BY <1>1, <2>1, <2>7 DEF ClientStep, Request, Repeat, GiveUp, TimesOut,
       SendNext, Finish, Fail, Ignore, Gets
  <2>8. CASE UNCHANGED vars
    BY <2>1, <2>8
  <2>9. QED
    BY <1>1, <2>2, <2>3, <2>4, <2>5, <2>6, <2>7, <2>8 DEF Next, ServerStep
<1>2. IInv /\ [Next]_vars => [Doomed => pc' # "receive" \/ Stays]_vars
  BY <1>1
<1>3. QED
  BY <1>2, Invariance, PTL DEF Spec, DeafAfterTimeout

-----------------------------------------------------------------------------
(* The refinement of FileStore: the closed files change when main closes a *)
(* file that is still there, and when the server exits with one open.      *)

StoreVars == <<Closed, pc # "exit">>

\* The closed files gain file n with this content.
Gains(n, content) ==
  /\ n \notin DOMAIN Closed
  /\ Closed' = [m \in DOMAIN Closed \cup {n} |->
                  IF m = n THEN content ELSE Closed[m]]

LEMMA GainsAppears ==
  ASSUME NEW n, NEW content, Gains(n, content)
  PROVE  Store!Appears(content)
BY DEF Gains, Store!Appears

LEMMA StayingUp ==
  ASSUME pc # "exit", pc' # "exit", UNCHANGED Closed
  PROVE  UNCHANGED StoreVars
BY DEF StoreVars

LEMMA Dying ==
  ASSUME pc # "exit", pc' = "exit",
         \/ UNCHANGED Closed
         \/ \E n : \E c \in Clients : \E k \in 0..Blocks[c] :
              Gains(n, Part(c, k))
  PROVE  Store!Die
BY GainsAppears DEF Store!Die, Store!Part, Part

\* While a file is open, the others are the closed ones.
LEMMA OpenOrNot ==
  ASSUME IInv
  PROVE  /\ IsOpen => Closed = Without(file_name)
         /\ ~IsOpen => Closed = disk
         /\ pc = "receive" => IsOpen
         /\ disk = [n \in DOMAIN disk |-> disk[n]]
BY DEF Closed, IsOpen, IInv, ContentInOrder, FilesAreParts

\* An exit that leaves content in the open file adds it to the closed ones.
LEMMA LeavesOpenFile ==
  ASSUME IInv, IsOpen, pc' \in {"wrq", "exit"}, NEW content,
         disk' = [disk EXCEPT ![file_name] = content]
  PROVE  Gains(file_name, content)
<1>1. Closed' = disk'
  BY DEF Closed, IsOpen
<1>2. Closed = Without(file_name) /\ file_name \in DOMAIN disk
  BY OpenOrNot DEF IsOpen
<1>3. QED
  BY <1>1, <1>2 DEF Gains, Without

\* Keeping it is leaving the content it has.
LEMMA KeepsOpenFile ==
  ASSUME IInv, IsOpen, pc' \in {"wrq", "exit"}, UNCHANGED disk
  PROVE  Gains(file_name, disk[file_name])
<1>1. disk' = [disk EXCEPT ![file_name] = disk[file_name]]
  BY OpenOrNot
<1>2. QED
  BY <1>1, LeavesOpenFile

\* Deleting the open file leaves the closed ones as they are.
LEMMA DeletesOpenFile ==
  ASSUME IInv, IsOpen, UNCHANGED file_name, disk' = Without(file_name)
  PROVE  UNCHANGED Closed
<1>1. file_name \notin DOMAIN disk'
  BY DEF Without
<1>2. Closed' = disk'
  BY <1>1 DEF Closed, IsOpen
<1>3. QED
  BY <1>2, OpenOrNot

\* What the open file holds when a transfer goes wrong.
LEMMA OpenPart ==
  ASSUME IInv, IsOpen
  PROVE  \E c \in Clients : \E k \in 0..Blocks[c] :
           disk[file_name] = Part(c, k)
BY DEF IInv, FilesAreParts, IsOpen

\* An exit that keeps or deletes the open file.
LEMMA ExitsOpen ==
  ASSUME IInv, IsOpen, pc' = "exit", Shrinks, UNCHANGED file_name
  PROVE  Store!Die
<1>1. pc # "exit"
  BY DEF IsOpen
<1>2. CASE UNCHANGED disk
  <2>1. PICK c \in Clients : \E k \in 0..Blocks[c] :
          disk[file_name] = Part(c, k)
    BY OpenPart
  <2>2. Gains(file_name, disk[file_name])
    BY <1>2, KeepsOpenFile
  <2>3. QED
    BY <1>1, <2>1, <2>2, Dying
<1>3. CASE disk' = Without(file_name)
  BY <1>1, <1>3, DeletesOpenFile, Dying
<1>4. QED
  BY <1>2, <1>3 DEF Shrinks

LEMMA RefineRequest ==
  ASSUME IInv, NEW p, Refuse(p) \/ FopenFails(p) \/ Serve(p)
  PROVE  Store!Next \/ UNCHANGED StoreVars
<1>1. /\ pc = "wrq" /\ file_name' = NameAfter(p)
      /\ Closed = disk /\ p \in ToServer /\ p.from \in Clients
  BY OpenOrNot, ReceiveType, PacketFields
     DEF IsOpen, IInv, Refuse, FopenFails, Serve, Awaits
<1>2. ASSUME Refuse(p) \/ FopenFails(p)
      PROVE  Store!Next \/ UNCHANGED StoreVars
  <2>1. UNCHANGED disk /\ pc' \in {"wrq", "exit"}
    BY <1>1, <1>2 DEF Refuse, FopenFails, SendFails, Exit
  <2>2. UNCHANGED Closed
    BY <1>1, <2>1 DEF Closed, IsOpen
  <2>3. QED
    BY <1>1, <2>1, <2>2, StayingUp, Dying DEF Store!Next
<1>3. ASSUME Serve(p) PROVE Store!Next \/ UNCHANGED StoreVars
  <2>1. /\ disk' = With(NameAfter(p), <<>>) /\ NameAfter(p) \notin DOMAIN disk
        /\ pc' \in {"receive", "exit"}
    BY <1>3 DEF Serve, IsNewFile, SendFails, Exit
  <2>2. disk = [n \in DOMAIN disk |-> disk[n]]
    BY OpenOrNot
  <2>3. CASE pc' = "receive"
    <3>1. Closed' = [m \in DOMAIN disk' \ {NameAfter(p)} |-> disk'[m]]
      BY <1>1, <2>1, <2>3 DEF Closed, IsOpen, With, Without
    <3>2. Closed' = disk
      BY <2>1, <2>2, <3>1 DEF With
    <3>3. QED
      BY <1>1, <2>3, <3>2, StayingUp
  <2>4. CASE pc' = "exit"
    <3>1. Closed' = disk'
      BY <2>4 DEF Closed, IsOpen
    <3>2. <<>> = Part(p.from, 0)
      BY DEF Part
    <3>3. Gains(NameAfter(p), Part(p.from, 0))
      BY <1>1, <2>1, <3>1, <3>2 DEF Gains, With
    <3>4. 0 \in 0..Blocks[p.from]
      BY <1>1, BlocksAssumption, WordAssumption
    <3>5. QED
      BY <1>1, <2>4, <3>3, <3>4, Dying DEF Store!Next
  <2>5. QED
    BY <2>1, <2>3, <2>4
<1>4. QED
  BY <1>2, <1>3

LEMMA RefineClose ==
  ASSUME IInv, Close
  PROVE  Store!Next \/ UNCHANGED StoreVars
<1>1. pc = "close" /\ UNCHANGED file_name /\ client_addr \in Clients
  BY DEF Close, IInv, Served
<1>2. CASE IsOpen /\ pc' = "wrq" /\ UNCHANGED disk
  <2>1. disk[file_name] = Whole(client_addr)
    BY <1>1, <1>2 DEF IInv, ContentInOrder, IsOpen
  <2>2. Store!Appears(Whole(client_addr))
    BY <1>2, <2>1, KeepsOpenFile, GainsAppears
  <2>3. QED
    BY <1>1, <1>2, <2>2
       DEF Store!Next, Store!Store, Store!Whole, Store!Part, Whole, Part
<1>3. CASE IsOpen /\ pc' = "exit" /\ Shrinks
  BY <1>1, <1>3, ExitsOpen DEF Store!Next
<1>4. CASE ~IsOpen /\ pc' \in {"wrq", "exit"} /\ Shrinks
  <2>1. file_name \notin DOMAIN disk
    BY <1>1, <1>4 DEF IsOpen
  <2>2. disk' = disk
    BY <1>4, <2>1, OpenOrNot DEF Shrinks, Without
  <2>3. UNCHANGED Closed
    BY <1>4, <2>2, OpenOrNot DEF Closed, IsOpen
  <2>4. QED
    BY <1>1, <1>4, <2>3, StayingUp, Dying DEF Store!Next
<1>5. QED
  BY <1>2, <1>3, <1>4 DEF Close, DeleteFile, Exit, Shrinks

\* Steps of a transfer that keep the file, or delete it before it is closed.
LEMMA RefineReceive ==
  ASSUME IInv, pc = "receive", UNCHANGED file_name, Shrinks,
         \/ pc' = "receive" /\ UNCHANGED disk
         \/ pc' = "close" /\ disk' = Without(file_name)
         \/ pc' = "exit"
  PROVE  Store!Next \/ UNCHANGED StoreVars
<1>1. IsOpen
  BY OpenOrNot
<1>2. CASE pc' = "receive" /\ UNCHANGED disk
  BY <1>1, <1>2, StayingUp DEF Closed, IsOpen, Without
<1>3. CASE pc' = "close" /\ disk' = Without(file_name)
  BY <1>1, <1>3, DeletesOpenFile, StayingUp
<1>4. CASE pc' = "exit"
  BY <1>1, <1>4, ExitsOpen DEF Store!Next
<1>5. QED
  BY <1>2, <1>3, <1>4

LEMMA RefineWrite ==
  ASSUME IInv, NEW p, Write(p)
  PROVE  Store!Next \/ UNCHANGED StoreVars
<1> DEFINE c == client_addr
           n == block_number + 1
<1>1. /\ pc = "receive" /\ UNCHANGED file_name
      /\ c \in Clients /\ p \in ToServer /\ p.from = c
  BY ReceiveType DEF IInv, Served, Write, Reads, SelectReads
<1>2. n \in 0..Blocks[c] /\ Data(p) = <<c, n>> /\ block_number \in Nat
  BY <1>1, NextBlock, PacketFields, BlocksAssumption
     DEF IInv, TypeOK, Served, Write, Data
<1>3. IsOpen /\ file_name \in DOMAIN disk
      /\ disk[file_name] = Part(c, block_number)
  BY <1>1, OpenOrNot DEF IInv, ContentInOrder
<1>4. disk' = [disk EXCEPT ![file_name] = Part(c, n)]
  BY <1>1, <1>2, <1>3, PartGrows DEF Write
<1>5. CASE pc' \in {"receive", "close"}
  <2>1. IsOpen'
    BY <1>1, <1>3, <1>4, <1>5 DEF IsOpen
  <2>2. Closed' = Closed
    BY <1>1, <1>3, <1>4, <2>1 DEF Closed, Without
  <2>3. QED
    BY <1>1, <1>5, <2>2, StayingUp
<1>6. CASE pc' = "exit"
  BY <1>1, <1>2, <1>3, <1>4, <1>6, LeavesOpenFile, Dying DEF Store!Next
<1>7. QED
  BY <1>5, <1>6 DEF Write, SendFails, Exit

LEMMA RefineKill ==
  ASSUME IInv, Kill
  PROVE  Store!Next \/ UNCHANGED StoreVars
<1>1. pc # "exit" /\ pc' = "exit"
  BY DEF Kill, Exit
<1>2. CASE IsOpen
  <2>1. PICK i \in 0..Len(disk[file_name]) :
          disk' = [disk EXCEPT ![file_name] = SubSeq(@, 1, i)]
    BY <1>2 DEF Kill
  <2>2. PICK c \in Clients : \E k \in 0..Blocks[c] :
          disk[file_name] = Part(c, k)
    BY <1>2, OpenPart
  <2>3. PICK k \in 0..Blocks[c] : disk[file_name] = Part(c, k)
    BY <2>2
  <2>4. k \in 0..WordMod /\ Blocks[c] \in Nat
    BY BlocksAssumption, WordAssumption
  <2>5. i \in 0..Blocks[c] /\ SubSeq(disk[file_name], 1, i) = Part(c, i)
    BY <2>1, <2>3, <2>4, PartType
  <2>6. disk' = [disk EXCEPT ![file_name] = Part(c, i)]
    BY <2>1, <2>5
  <2>7. Gains(file_name, Part(c, i))
    BY <1>1, <1>2, <2>6, LeavesOpenFile
  <2>8. QED
    BY <1>1, <2>5, <2>7, Dying DEF Store!Next
<1>3. CASE ~IsOpen
  <2>1. UNCHANGED Closed
    BY <1>1, <1>3, OpenOrNot DEF Kill, Closed, IsOpen
  <2>2. QED
    BY <1>1, <2>1, Dying DEF Store!Next
<1>4. QED
  BY <1>2, <1>3

LEMMA RefineStep ==
  ASSUME IInv, [Next]_vars
  PROVE  Store!Next \/ UNCHANGED StoreVars
<1>1. ASSUME NEW p, Handle(p) PROVE Store!Next \/ UNCHANGED StoreVars
  <2>1. CASE Stranger(p) \/ Reject(p) \/ FwriteFails(p)
    BY <2>1, RefineReceive
       DEF Stranger, Reject, FwriteFails, Reads, SelectReads, Abandoned,
           DeleteFile, SendFails, Exit, Shrinks
  <2>2. QED
    BY <1>1, <2>1, RefineRequest, RefineWrite DEF Handle
<1>2. CASE Resend \/ Abandon \/ SelectFails
  BY <1>2, RefineReceive
     DEF Resend, Abandon, SelectTimesOut, SelectFails, Abandoned, DeleteFile,
         SendFails, Exit, Shrinks
<1>3. CASE Restart
  BY <1>3 DEF Restart, Store!Next, Store!Restart, Closed, IsOpen
<1>4. CASE UNCHANGED serverVars
  BY <1>4 DEF StoreVars, Closed, IsOpen, Without
<1>5. CASE \E m \in net : Deliver(m) \/ Lose(m)
  BY <1>4, <1>5 DEF Deliver, Lose
<1>6. CASE \E c \in Clients : ClientStep(c)
  BY <1>4, <1>6 DEF ClientStep, Request, Repeat, GiveUp, TimesOut, SendNext,
                    Finish, Fail, Ignore, Gets
<1>7. CASE UNCHANGED vars
  BY <1>4, <1>7
<1>8. QED
  BY <1>1, <1>2, <1>3, <1>5, <1>6, <1>7, RefineClose, RefineKill
     DEF Next, ServerStep

\* The disk of the server is a FileStore: closed files come whole, under a
\* fresh name, and stay; only an exit leaves the first blocks of one.
THEOREM ServerImplementsFileStore == Spec => ImplementsFileStore
<1>1. Init => Store!Init
  BY DEF Init, Store!Init, Closed, IsOpen
<1>2. IInv /\ [Next]_vars => [Store!Next]_(Store!vars)
  BY RefineStep DEF StoreVars, Store!vars
<1>3. QED
  BY <1>1, <1>2, Invariance, PTL DEF Spec, Store!Spec, ImplementsFileStore

-----------------------------------------------------------------------------
(* An ACK of a last block means a stored file. *)

Stored(c) == \E n \in DOMAIN disk : disk[n] = Whole(c)
Acked(c)  == client[c].state = "done" \/ Ack(c, Blocks[c]) \in net

\* Two files have no first block in common, and a whole file has one.
LEMMA PartsDiffer ==
  ASSUME NEW c \in Clients, NEW d \in Clients,
         NEW k \in 0..Blocks[c], NEW l \in 1..Blocks[d],
         Part(c, k) = Part(d, l)
  PROVE  c = d /\ k = l
<1>1. Blocks[c] \in Nat /\ Blocks[d] \in Nat
  BY BlocksAssumption, WordAssumption
<1>2. Len(Part(c, k)) = k /\ Len(Part(d, l)) = l
  BY <1>1 DEF Part
<1>3. Part(d, l)[1] = <<d, 1>> /\ (k >= 1 => Part(c, k)[1] = <<c, 1>>)
  BY <1>1 DEF Part
<1>4. QED
  BY <1>2, <1>3

\* While blocks are to come, the open file is nobody's whole file: a step that
\* changes no other file loses none.
LEMMA StoredStays ==
  ASSUME IInv, pc = "receive", NEW c \in Clients, Stored(c),
         \A n \in DOMAIN disk \ {file_name} :
           n \in DOMAIN disk' /\ disk'[n] = disk[n]
  PROVE  Stored(c)'
<1>1. PICK n \in DOMAIN disk : disk[n] = Whole(c)
  BY DEF Stored
<1>2. /\ client_addr \in Clients /\ block_number \in 0..Blocks[client_addr]
      /\ block_number # Blocks[client_addr] /\ Blocks[c] \in 1..Blocks[c]
  BY BlocksAssumption, WordAssumption DEF IInv, TypeOK, Served
<1>3. n # file_name
  BY <1>1, <1>2, PartsDiffer DEF IInv, ContentInOrder, Whole
<1>4. QED
  BY <1>1, <1>3 DEF Stored, Whole, Part

LEMMA AckedBefore ==
  ASSUME NEW c \in Clients, UNCHANGED client, Acked(c)',
         UNCHANGED net \/ \E m : Send(m) /\ m # Ack(c, Blocks[c])
  PROVE  Acked(c)
BY DEF Acked, Send

\* Only the ACK of a last block is the ACK a client finishes on.
LEMMA OtherAnswers ==
  ASSUME NEW c \in Clients, NEW d \in Clients, NEW k \in 0..Blocks[d]
  PROVE  /\ Error(d) # Ack(c, Blocks[c])
         /\ k < Blocks[d] => Ack(d, k) # Ack(c, Blocks[c])
         /\ Packet(d, k) # Ack(c, Blocks[c])
<1>1. Packet(d, k).from = d /\ "to" \notin DOMAIN Packet(d, k)
  BY DEF Packet
<1>2. "to" \in DOMAIN Ack(c, Blocks[c])
  BY DEF Ack
<1>3. Blocks[d] \in Nat
  BY BlocksAssumption, WordAssumption
<1>4. QED
  BY <1>1, <1>2, <1>3 DEF Error, Ack

\* AckedIsStored for one client.
Kept(c) == Acked(c) => Stored(c)

Reliable == faults \cap {"fclose", "kill"} = {}

LEMMA KeptByServer ==
  ASSUME IInv, Reliable, NEW c \in Clients, Kept(c),
         ServerStep \/ Kill \/ Restart
  PROVE  Kept(c)'
<1> SUFFICES ASSUME Acked(c)' PROVE Stored(c)'
  BY DEF Kept
<1>1. UNCHANGED client
  BY DEF ServerStep, Handle, Refuse, FopenFails, Serve, Awaits, Stranger,
     Reject, FwriteFails, Write, Reads, Resend, Abandon, SelectTimesOut,
     SelectFails, Close, Kill, Restart
<1>2. Blocks[c] \in 1..WordMod /\ 0 \in 0..Blocks[c]
  BY BlocksAssumption, WordAssumption
<1>3. ASSUME NEW p, Refuse(p) \/ FopenFails(p) PROVE Stored(c)'
  <2>1. p.from \in Clients /\ 0 \in 0..Blocks[p.from]
    BY <1>3, ReceiveType, PacketFields, BlocksAssumption, WordAssumption
       DEF IInv, Refuse, FopenFails, Awaits
  <2>2. UNCHANGED disk /\ (UNCHANGED net \/ Send(Error(p.from)))
    BY <1>3 DEF Refuse, FopenFails, SendFails
  <2>3. QED
    BY <1>1, <2>1, <2>2, OtherAnswers, AckedBefore
       DEF Kept, Stored, Whole, Part
<1>4. ASSUME NEW p, Serve(p) PROVE Stored(c)'
  <2>1. /\ p.from \in Clients /\ 0 \in 0..Blocks[p.from]
        /\ 0 < Blocks[p.from]
    BY <1>4, ReceiveType, PacketFields, BlocksAssumption, WordAssumption
       DEF IInv, Serve, Awaits
  <2>2. Stored(c)
    BY <1>1, <1>4, <2>1, OtherAnswers, AckedBefore
       DEF Kept, Serve, SendFails
  <2>3. \A n \in DOMAIN disk : n \in DOMAIN disk' /\ disk'[n] = disk[n]
    BY <1>4 DEF Serve, IsNewFile, With
  <2>4. QED
    BY <2>2, <2>3 DEF Stored, Whole, Part
<1>5. ASSUME pc = "receive", Shrinks, Acked(c) PROVE Stored(c)'
  BY <1>5, StoredStays DEF Kept, Shrinks, Without
<1>6. ASSUME pc = "receive"
      PROVE  client_addr \in Clients /\ block_number \in 0..Blocks[client_addr]
             /\ block_number < Blocks[client_addr]
  BY <1>6, BlocksAssumption, WordAssumption DEF IInv, TypeOK, Served
<1>7. ASSUME NEW p, Stranger(p) \/ Reject(p) \/ FwriteFails(p)
      PROVE  Stored(c)'
  <2>1. pc = "receive" /\ Shrinks
    BY <1>7 DEF Stranger, Reject, FwriteFails, Reads, SelectReads, Abandoned,
       DeleteFile, Shrinks
  <2>2. \/ UNCHANGED net
        \/ \E d \in Clients : Send(Error(d))
    BY <1>6, <1>7, <2>1, ReceiveType, PacketFields
       DEF IInv, Stranger, Reject, FwriteFails, Abandoned, SendFails
  <2>3. QED
    BY <1>1, <1>5, <2>1, <2>2, OtherAnswers, AckedBefore, BlocksAssumption
<1>8. CASE Resend \/ Abandon \/ SelectFails
  <2>1. pc = "receive" /\ Shrinks
    BY <1>8 DEF Resend, Abandon, SelectFails, SelectTimesOut, Abandoned,
       DeleteFile, Shrinks
  <2>2. \/ UNCHANGED net
        \/ Send(Error(client_addr)) \/ Send(Ack(client_addr, block_number))
    BY <1>8 DEF Resend, Abandon, SelectFails, Abandoned, SendFails
  <2>3. QED
    BY <1>1, <1>5, <1>6, <2>1, <2>2, OtherAnswers, AckedBefore
<1>9. ASSUME NEW p, Write(p) PROVE Stored(c)'
  <2> DEFINE d == client_addr
             n == block_number + 1
  <2>1. /\ pc = "receive" /\ d \in Clients /\ p \in ToServer /\ p.from = d
    BY <1>9, ReceiveType DEF IInv, Served, Write, Reads, SelectReads
  <2>2. n \in 0..Blocks[d] /\ block_number \in Nat /\ Data(p) = <<d, n>>
    BY <1>6, <1>9, <2>1, NextBlock, PacketFields DEF IInv, TypeOK, Write, Data
  <2>3. /\ file_name \in DOMAIN disk
        /\ disk' = [disk EXCEPT ![file_name] = Part(d, n)]
    BY <1>9, <2>1, <2>2, PartGrows DEF Write, IInv, ContentInOrder
  <2>4. CASE Acked(c)
    BY <2>1, <2>3, <2>4, StoredStays DEF Kept
  <2>5. CASE ~Acked(c)
    <3>1. Ack(d, n) = Ack(c, Blocks[c])
      BY <1>1, <1>9, <2>5, AckedBefore DEF Write, SendFails
    <3>2. d = c /\ n = Blocks[c]
      BY <3>1 DEF Ack
    <3>3. QED
      BY <2>3, <3>2 DEF Stored, Whole, Part
  <2>6. QED
    BY <2>4, <2>5
<1>10. CASE Close \/ Restart
  BY <1>1, <1>10, AckedBefore
     DEF Close, Restart, Reliable, MayFail, Kept, Stored, Whole, Part
<1>11. CASE Kill
  BY <1>11 DEF Kill, Reliable, MayFail
<1>12. QED
  BY <1>3, <1>4, <1>7, <1>8, <1>9, <1>10, <1>11 DEF ServerStep, Handle

LEMMA KeptByOthers ==
  ASSUME IInv, NEW c \in Clients, Kept(c), Blocks[c] < WordMod,
         \/ \E m \in net : Deliver(m) \/ Lose(m)
         \/ \E d \in Clients : ClientStep(d)
  PROVE  Kept(c)'
<1>1. UNCHANGED disk
  BY DEF Deliver, Lose, ClientStep, Request, Repeat, GiveUp, TimesOut,
     SendNext, Finish, Fail, Ignore, Gets
<1>2. ASSUME NEW m \in net, Deliver(m) \/ Lose(m), Acked(c)' PROVE Acked(c)
  BY <1>2 DEF Deliver, Lose, Leaves, Acked
<1>3. ASSUME NEW d \in Clients, ClientStep(d), Acked(c)' PROVE Acked(c)
  <2>1. /\ client[d].sent \in 0..Blocks[d]
        /\ client \in [Clients -> ClientRecord]
        /\ Blocks[d] \in 1..WordMod
    BY BlocksAssumption DEF IInv, TypeOK, SentIsABlock, ClientRecord
  <2>2. CASE Request(d) \/ Repeat(d)
    <3>1. \E k \in 0..Blocks[d] : net' = net \cup {Packet(d, k)}
      BY <2>1, <2>2, WordAssumption DEF Request, Repeat, Send
    <3>2. client'[c].state = "done" => client[c].state = "done"
      BY <2>1, <2>2 DEF Request, Repeat, ClientRecord
    <3>3. QED
      BY <1>3, <3>1, <3>2, OtherAnswers DEF Acked
  <2>3. CASE GiveUp(d)
    BY <1>3, <2>1, <2>3 DEF GiveUp, Acked, ClientRecord
  <2>4. ASSUME NEW m \in net \cap ToClients, SendNext(d, m) PROVE Acked(c)
    <3>1. \E k \in 0..Blocks[d] : net' \subseteq net \cup {Packet(d, k)}
      BY <2>1, <2>4, WordAssumption DEF SendNext
    <3>2. client'[c].state = "done" => client[c].state = "done"
      BY <2>1, <2>4 DEF SendNext, ClientRecord
    <3>3. QED
      BY <1>3, <3>1, <3>2, OtherAnswers DEF Acked
  <2>5. ASSUME NEW m \in net \cap ToClients, Finish(d, m) PROVE Acked(c)
    <3>1. net' \subseteq net
      BY <2>5 DEF Finish, Leaves
    <3>2. client'[c].state = "done" /\ c # d => client[c].state = "done"
      BY <2>1, <2>5 DEF Finish, ClientRecord
    <3>3. CASE c = d
      <4>1. m.to = c /\ m.kind = "ACK" /\ m.block = Blocks[c] % WordMod
        BY <2>5, <3>3 DEF Finish, Gets, Answers
      <4>2. Blocks[c] % WordMod = Blocks[c]
        BY <2>1, <3>3, WordAssumption, SMTT(30)
      <4>3. m = Ack(c, Blocks[c])
        BY <4>1, <4>2 DEF ToClients, Ack
      <4>4. QED
        BY <4>3 DEF Acked
    <3>4. QED
      BY <1>3, <3>1, <3>2, <3>3 DEF Acked
  <2>6. ASSUME NEW m \in net \cap ToClients, Fail(d, m) PROVE Acked(c)
    BY <1>3, <2>1, <2>6 DEF Fail, Leaves, Acked, ClientRecord
  <2>7. ASSUME NEW m \in net \cap ToClients, Ignore(d, m) PROVE Acked(c)
    BY <1>3, <2>7 DEF Ignore, Leaves, Acked
  <2>8. QED
    BY <1>3, <2>2, <2>3, <2>4, <2>5, <2>6, <2>7 DEF ClientStep
<1>4. QED
  BY <1>1, <1>2, <1>3 DEF Kept, Stored, Whole, Part

\* As long as fclose works and nobody kills the process, a client that has the
\* ACK of its last block has its whole file on the disk, whatever else fails.
THEOREM AckedCorrect == Spec => []AckedIsStored
<1> DEFINE AllKept == \A c \in Clients :
                        Reliable /\ Blocks[c] < WordMod => Kept(c)
<1>1. AllKept <=> AckedIsStored
  BY DEF AckedIsStored, Kept, Acked, Stored, Reliable
<1>2. Init => AllKept
  BY DEF Init, Kept, Acked
<1>3. IInv /\ AllKept /\ [Next]_vars => AllKept'
  <2> SUFFICES ASSUME IInv, AllKept, [Next]_vars, NEW c \in Clients,
                      Reliable', Blocks[c] < WordMod
               PROVE  Kept(c)'
    OBVIOUS
  <2>1. UNCHANGED faults
    BY DEF Next, ServerStep, Handle, Refuse, FopenFails, Serve, Awaits,
       Stranger, Reject, FwriteFails, Write, Reads, Resend, Abandon,
       SelectTimesOut, SelectFails, Close, Kill, Restart, Deliver, Lose,
       ClientStep, Request, Repeat, GiveUp, TimesOut, SendNext, Finish, Fail,
       Ignore, Gets
  <2>2. Reliable /\ Kept(c)
    BY <2>1 DEF Reliable
  <2>3. CASE UNCHANGED vars
    BY <2>2, <2>3 DEF Kept, Acked, Stored, Whole, Part
  <2>4. QED
    BY <2>2, <2>3, KeptByServer, KeptByOthers DEF Next
<1>4. QED
  BY <1>1, <1>2, <1>3, Invariance, PTL DEF Spec

-----------------------------------------------------------------------------
(* The names of the files *)

Begins(n, c) == Len(n) >= Len(Name[c]) /\ SubSeq(n, 1, Len(Name[c])) = Name[c]

\* The name of the open file begins with the name its client asked for, and
\* so does that of every file with a block.
NamesBegin ==
  /\ IsOpen => Begins(file_name, client_addr)
  /\ \A n \in DOMAIN disk, c \in Clients : \A k \in 1..Blocks[c] :
       disk[n] = Part(c, k) => Begins(n, c)

\* wrq_parser puts the name of a request before what is left of the old one.
LEMMA ParsedName ==
  ASSUME NEW p \in ToServer, file_name \in Seq(Chars), Opcode(p) = "WRQ"
  PROVE  Begins(NameAfter(p), p.from)
<1> DEFINE new == Name[p.from]
           old == SubSeq(file_name, Len(new) + 1, Len(file_name))
<1>1. p.from \in Clients /\ Text(p) = new
  <2>1. p.k = 0
    BY DEF Opcode
  <2>2. QED
    BY <2>1, PacketFields DEF Text
<1>2. new \in Seq(Chars) /\ Len(new) \in Nat
  BY <1>1, NameAssumption
<1>3. old \in Seq(Chars)
  BY <1>2
<1>4. NameAfter(p) = new \o old
  BY <1>1 DEF NameAfter
<1>5. Len(new \o old) >= Len(new) /\ SubSeq(new \o old, 1, Len(new)) = new
  <2> HIDE DEF new, old
  <2>1. QED
    BY <1>2, <1>3
<1>6. QED
  BY <1>4, <1>5 DEF Begins

\* The files of a step that keeps or deletes the open one keep their names.
LEMMA NamesStay ==
  ASSUME NamesBegin, Shrinks,
         IsOpen' => IsOpen /\ UNCHANGED <<file_name, client_addr>>
  PROVE  NamesBegin'
<1>1. \A n \in DOMAIN disk' : n \in DOMAIN disk /\ disk'[n] = disk[n]
  BY DEF Shrinks, Without
<1>2. QED
  BY <1>1 DEF NamesBegin, Begins, Part

\* A step after which the open file holds the first blocks of its client's.
LEMMA OpenFileNamed ==
  ASSUME NamesBegin, NEW n, NEW c \in Clients, NEW k \in 0..Blocks[c],
         Begins(n, c),
         \A m \in DOMAIN disk' :
           \/ m = n /\ disk'[m] = Part(c, k)
           \/ m \in DOMAIN disk /\ disk'[m] = disk[m],
         IsOpen' => file_name' = n /\ client_addr' = c
  PROVE  NamesBegin'
<1>1. ASSUME NEW m \in DOMAIN disk', NEW d \in Clients, NEW l \in 1..Blocks[d],
             disk'[m] = Part(d, l)
      PROVE  Begins(m, d)
  <2>1. CASE m = n /\ disk'[m] = Part(c, k)
    <3>1. Part(c, k) = Part(d, l)
      BY <1>1, <2>1
    <3>2. c = d
      BY <3>1, PartsDiffer
    <3>3. QED
      BY <2>1, <3>2
  <2>2. CASE m \in DOMAIN disk /\ disk'[m] = disk[m]
    BY <1>1, <2>2 DEF NamesBegin
  <2>3. QED
    BY <2>1, <2>2
<1>2. QED
  BY <1>1 DEF NamesBegin, Begins, Part

LEMMA NamesByServer ==
  ASSUME IInv, NamesBegin, ServerStep \/ Kill \/ Restart
  PROVE  NamesBegin'
<1>1. ASSUME NEW p, Handle(p), ~Serve(p), ~Write(p) PROVE NamesBegin'
  <2>1. Shrinks /\ (IsOpen' => IsOpen /\ UNCHANGED <<file_name, client_addr>>)
    BY <1>1 DEF Handle, Refuse, FopenFails, Awaits, Stranger, Reject,
       FwriteFails, Reads, SelectReads, Abandoned, DeleteFile, SendFails,
       Exit, Shrinks, IsOpen, Without
  <2>2. QED
    BY <2>1, NamesStay
<1>2. ASSUME NEW p, Serve(p) PROVE NamesBegin'
  <2>1. /\ p \in ToServer /\ p.from \in Clients /\ 0 \in 0..Blocks[p.from]
        /\ file_name' = NameAfter(p) /\ client_addr' = p.from
        /\ disk' = With(NameAfter(p), <<>>) /\ Opcode(p) = "WRQ"
    BY <1>2, ReceiveType, PacketFields, BlocksAssumption, WordAssumption
       DEF IInv, Serve, Awaits, IsNewFile
  <2>2. Begins(NameAfter(p), p.from) /\ <<>> = Part(p.from, 0)
    BY <2>1, ParsedName DEF IInv, TypeOK, Part
  <2>3. QED
    BY <2>1, <2>2, OpenFileNamed DEF With
<1>3. ASSUME NEW p, Write(p) PROVE NamesBegin'
  <2> DEFINE c == client_addr
             n == block_number + 1
  <2>1. /\ pc = "receive" /\ c \in Clients /\ p \in ToServer /\ p.from = c
        /\ UNCHANGED <<file_name, client_addr>>
    BY <1>3, ReceiveType DEF IInv, Served, Write, Reads, SelectReads
  <2>2. n \in 0..Blocks[c] /\ block_number \in Nat /\ Data(p) = <<c, n>>
    BY <1>3, <2>1, NextBlock, PacketFields, BlocksAssumption
       DEF IInv, TypeOK, Served, Write, Data
  <2>3. /\ file_name \in DOMAIN disk
        /\ disk' = [disk EXCEPT ![file_name] = Part(c, n)]
    BY <1>3, <2>1, <2>2, PartGrows DEF Write, IInv, ContentInOrder
  <2>4. Begins(file_name, c)
    BY <2>1, <2>3 DEF NamesBegin, IsOpen
  <2>5. QED
    BY <2>1, <2>2, <2>3, <2>4, OpenFileNamed
<1>4. CASE Resend \/ Abandon \/ SelectFails \/ Close \/ Restart
  <2>1. Shrinks /\ (IsOpen' => IsOpen /\ UNCHANGED <<file_name, client_addr>>)
    BY <1>4 DEF Resend, Abandon, SelectFails, SelectTimesOut, Close, Restart,
       Abandoned, DeleteFile, SendFails, Exit, Shrinks, IsOpen, Without
  <2>2. QED
    BY <2>1, NamesStay
<1>5. CASE Kill
  <2>1. CASE IsOpen
    <3>1. PICK i \in 0..Len(disk[file_name]) :
            disk' = [disk EXCEPT ![file_name] = SubSeq(@, 1, i)]
      BY <1>5, <2>1 DEF Kill
    <3>2. /\ client_addr \in Clients /\ file_name \in DOMAIN disk
          /\ Blocks[client_addr] \in 1..WordMod
      BY <2>1, BlocksAssumption DEF IInv, Served, IsOpen
    <3>3. PICK k \in 0..Blocks[client_addr] :
            disk[file_name] = Part(client_addr, k)
      BY <2>1, <3>2, WordAssumption
         DEF IInv, TypeOK, Served, ContentInOrder, IsOpen, Whole
    <3>4. k \in 0..WordMod
      BY <3>2, <3>3, WordAssumption
    <3>5. /\ i \in 0..Blocks[client_addr]
          /\ SubSeq(disk[file_name], 1, i) = Part(client_addr, i)
      BY <3>1, <3>2, <3>3, <3>4, PartType, WordAssumption
    <3>6. Begins(file_name, client_addr) /\ ~IsOpen'
      BY <1>5, <2>1 DEF NamesBegin, IsOpen, Kill, Exit
    <3>7. QED
      BY <3>1, <3>2, <3>5, <3>6, OpenFileNamed
  <2>2. CASE ~IsOpen
    BY <1>5, <2>2, NamesStay DEF Kill, Shrinks, IsOpen, Exit
  <2>3. QED
    BY <2>1, <2>2
<1>6. QED
  BY <1>1, <1>2, <1>3, <1>4, <1>5 DEF ServerStep

\* Every stored file has a name that begins with the one its client asked for.
THEOREM NamesCorrect == Spec => []NameBeginsAsRequested
<1>1. NamesBegin => NameBeginsAsRequested
  <2>1. \A c \in Clients : Blocks[c] \in 1..Blocks[c]
    BY BlocksAssumption, WordAssumption
  <2>2. QED
    BY <2>1 DEF NamesBegin, NameBeginsAsRequested, Begins, Whole
<1>2. Init => NamesBegin
  BY DEF Init, NamesBegin, IsOpen
<1>3. IInv /\ NamesBegin /\ [Next]_vars => NamesBegin'
  <2> SUFFICES ASSUME IInv, NamesBegin, [Next]_vars PROVE NamesBegin'
    OBVIOUS
  <2>1. CASE UNCHANGED serverVars
    BY <2>1, NamesStay DEF Shrinks, IsOpen
  <2>2. CASE ServerStep \/ Kill \/ Restart
    BY <2>2, NamesByServer
  <2>3. CASE UNCHANGED vars
    BY <2>1, <2>3
  <2>4. CASE \E m \in net : Deliver(m) \/ Lose(m)
    BY <2>1, <2>4 DEF Deliver, Lose
  <2>5. CASE \E c \in Clients : ClientStep(c)
    BY <2>1, <2>5 DEF ClientStep, Request, Repeat, GiveUp, TimesOut, SendNext,
                      Finish, Fail, Ignore, Gets
  <2>6. QED
    BY <2>2, <2>3, <2>4, <2>5 DEF Next
<1>4. QED
  BY <1>1, <1>2, <1>3, Invariance, PTL DEF Spec

=============================================================================
