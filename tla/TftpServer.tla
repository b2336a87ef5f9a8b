----------------------------- MODULE TftpServer -----------------------------
(***************************************************************************)
(* The TFTP server of HW5, which clients upload files to, with the disk it *)
(* keeps them on, the socket the kernel queues packets in, a network that  *)
(* may lose, repeat, delay and reorder packets, and the clients.           *)
(*                                                                         *)
(* A step of the server handles one packet or one timeout, with every call *)
(* it makes: its system calls touch nothing another process changes but    *)
(* the socket, which it reads once.  A system call that fails makes it     *)
(* exit, and whoever runs it may start it again on the same disk.          *)
(***************************************************************************)
EXTENDS Integers, Sequences, FiniteSets

CONSTANTS
  Clients,       \* addresses (ip and port), each uploads one file
  Name,          \* the name of each file, a sequence of characters
  NameField,     \* the first two characters of the name as a number
  Blocks,        \* blocks in each file, the last one shorter than 512 bytes
  Chars,
  DataText,      \* what the string functions read in a DATA packet whose
                 \* block number has a high byte
  WordMod,       \* 2^16: numbers of blocks and arguments are u_short
  ByteMod,       \* 2^8
  TimeoutArg, ResendArg, \* the arguments of the server
  SocketSize,    \* bound on the packets that wait in the socket
  ClientRetries, \* how often a client repeats a packet
  FaultModes,    \* what may go wrong in a run, one set of faults for each
  Nobody         \* no client

\* "send" to "fclose": that system call may fail.  "kill": the process may be
\* killed.  "lose", "duplicate": the network does.  "slow": a packet may take
\* longer than a timeout.
Faults == {"send", "select", "remove", "fopen", "fwrite", "fclose", "kill",
           "lose", "duplicate", "slow"}

ASSUME ClientsAssumption == Nobody \notin Clients
ASSUME WordAssumption ==
  WordMod \in Nat /\ WordMod > 1 /\ ByteMod \in 1..WordMod
ASSUME NameAssumption ==
  /\ Name \in [Clients -> Seq(Chars) \ {<<>>}]
  /\ NameField \in [Clients -> 0..(WordMod - 1)]
  /\ DataText \in Seq(Chars)
\* The field of a packet wraps at most once.
ASSUME BlocksAssumption == Blocks \in [Clients -> 1..WordMod]
ASSUME ArgumentsAssumption ==
  TimeoutArg \in Nat /\ ResendArg \in Nat
ASSUME BoundsAssumption == SocketSize \in Nat /\ ClientRetries \in Nat
ASSUME FaultsAssumption == FaultModes \subseteq SUBSET Faults

VARIABLES
  faults,         \* what may go wrong in this run: never changes
  pc,             \* "wrq": main waits for a request; "receive": receives
                  \* data; "close": about to fclose; "exit": not running
  file_name,      \* wrq_struct.file_name
  client_addr,    \* who is served
  block_number,
  missed_packets,
  watching,       \* readfds holds the socket
  disk,           \* the contents of each file, the open one included
  socket,         \* packets the kernel queues for the server
  net,            \* packets on their way
  client          \* what each client does

transferVars == <<block_number, missed_packets, watching>>
serverVars   == <<pc, file_name, client_addr, transferVars, disk>>
vars         == <<faults, serverVars, socket, net, client>>

-----------------------------------------------------------------------------
(* Packets *)

\* What client c sends: packet 0 is its request (WRQ), packet k the DATA of
\* its k-th block.
Packet(c, k) == [from |-> c, k |-> k]
Upload(c) == {Packet(c, k) : k \in 0..Blocks[c]}

ToServer == UNION {Upload(c) : c \in Clients}

\* What the server sends; the clients do not read the code of an ERROR.
Ack(c, n) == [to |-> c, kind |-> "ACK", block |-> n]
Error(c)  == [to |-> c, kind |-> "ERROR", block |-> 0]
ToClients ==
  [to : Clients, kind : {"ACK", "ERROR"}, block : 0..(WordMod - 1)]

Opcode(p) == IF p.k = 0 THEN "WRQ" ELSE "DATA"

\* buff->block_number: in a WRQ the name begins at that place.
BlockField(p) == IF p.k = 0 THEN NameField[p.from] ELSE p.k % WordMod

\* buff->data, and whether the packet is as long as PACKET_SIZE.
Data(p)   == <<p.from, p.k>>
NeverFull(p) == FALSE \* Fault: longer than PACKET_SIZE
IsFull(p) == p.k < Blocks[p.from]

\* The string wrq_parser finds behind the opcode: no character if the block
\* number of a DATA packet begins with a zero byte.
Text(p) == IF p.k = 0 THEN Name[p.from]
           ELSE IF p.k % WordMod >= ByteMod THEN DataText ELSE <<>>

\* Fault: a shorter name does not replace a longer one
KeepsLongerName(p) ==
  IF Len(Text(p)) >= Len(file_name) THEN Text(p) ELSE file_name

\* wrq_parser copies the characters of the new name, and no terminator: the
\* tail of a longer name that was there before stays.
NameAfter(p) ==
  Text(p) \o SubSeq(file_name, Len(Text(p)) + 1, Len(file_name))

-----------------------------------------------------------------------------
(* Arguments, and the first blocks of a file *)

\* A u_short passed as a short int.
ToShort(arg) == LET word == arg % WordMod
                IN  IF 2 * word < WordMod THEN word ELSE word - WordMod

MaxResends == ToShort(ResendArg)
Timeout    == ToShort(TimeoutArg)

Part(c, n) == [i \in 1..n |-> <<c, i>>]
Whole(c)   == Part(c, Blocks[c])

Without(n) == [m \in DOMAIN disk \ {n} |-> disk[m]]
With(n, content) == [m \in DOMAIN disk \cup {n} |->
                       IF m = n THEN content ELSE disk[m]]

IsOpen == pc \in {"receive", "close"} /\ file_name \in DOMAIN disk

\* The files the server has finished with.
Closed == IF IsOpen THEN Without(file_name) ELSE disk

-----------------------------------------------------------------------------
TypeOK ==
  /\ faults \in FaultModes
  /\ pc \in {"wrq", "receive", "close", "exit"}
  /\ file_name \in Seq(Chars)
  /\ client_addr \in Clients \cup {Nobody}
  /\ block_number \in 0..(WordMod - 1)
  /\ missed_packets \in 0..WordMod
  /\ watching \in BOOLEAN
  /\ DOMAIN disk \subseteq Seq(Chars)
  /\ \A n \in DOMAIN disk : disk[n] \in Seq(Clients \X (1..WordMod))
  /\ socket \in Seq(ToServer)
  /\ net \subseteq ToServer \cup ToClients
  /\ client \in [Clients ->
                   [state : {"idle", "sending", "done", "failed"},
                    sent  : 0..WordMod, tries : 0..ClientRetries]]

Init ==
  /\ faults \in FaultModes
  /\ pc = "wrq"
  /\ file_name = <<>>
  /\ client_addr = Nobody
  /\ block_number = 0
  /\ missed_packets = 0
  /\ watching = FALSE
  /\ disk = [n \in {} |-> <<>>]
  /\ socket = <<>>
  /\ net = {}
  /\ client = [c \in Clients |->
                 [state |-> "idle", sent |-> 0, tries |-> 0]]

-----------------------------------------------------------------------------
(* System calls *)

MayFail(call) == call \in faults

\* recvfrom
Receive(p) ==
  /\ socket # <<>>
  /\ p = Head(socket)
  /\ socket' = Tail(socket)

Exit == pc' = "exit"

\* send_ack, send_error
Send(m) == net' = net \cup {m}
SendFails == MayFail("send") /\ UNCHANGED net /\ Exit

KeepsFile(next) == UNCHANGED disk /\ pc' = next \* Fault: nothing is deleted

\* delete_file: the program exits when remove fails, before it gets to next.
DeleteFile(next) ==
  \/ disk' = Without(file_name) /\ pc' = next
  \/ MayFail("remove") /\ UNCHANGED disk /\ Exit

-----------------------------------------------------------------------------
(* main waits for a request. *)

\* Main reads packet p and parses it.
Awaits(p) ==
  /\ pc = "wrq"
  /\ Receive(p)
  /\ file_name' = NameAfter(p)
  /\ client_addr' = p.from
  /\ UNCHANGED <<faults, client>>

IsRequest(p) == Opcode(p) = "WRQ" \* Fault: the file may exist

\* A request for a file that does not exist, whatever name came out.
IsNewFile(p) == Opcode(p) = "WRQ" /\ NameAfter(p) \notin DOMAIN disk

Refuse(p) ==
  /\ Awaits(p)
  /\ ~IsNewFile(p)
  /\ (Send(Error(p.from)) /\ UNCHANGED pc) \/ SendFails
  /\ UNCHANGED <<transferVars, disk>>

FopenFails(p) ==
  /\ Awaits(p)
  /\ IsNewFile(p)
  /\ MayFail("fopen") /\ Exit
  /\ UNCHANGED <<transferVars, disk, net>>

Serve(p) ==
  /\ Awaits(p)
  /\ IsNewFile(p)
  /\ disk' = With(NameAfter(p), <<>>)
  /\ (Send(Ack(p.from, 0)) /\ pc' = "receive") \/ SendFails
  /\ block_number' = 0
  /\ missed_packets' = 0
  /\ watching' = TRUE

Close ==
  /\ pc = "close"
  /\ \/ pc' = "wrq" /\ UNCHANGED disk
     \/ MayFail("fclose") /\ DeleteFile("exit")
  /\ UNCHANGED <<faults, file_name, client_addr, transferVars, socket, net,
                 client>>

-----------------------------------------------------------------------------
(* recieving_data_mode *)

\* Nobody puts the socket back into readfds once a timeout has cleared it,
\* and a negative timeout makes every select fail.
SelectReads == pc = "receive" /\ watching /\ Timeout >= 0

SelectFails ==
  /\ pc = "receive"
  /\ MayFail("select") \/ Timeout < 0
  /\ DeleteFile("exit")
  /\ UNCHANGED <<faults, file_name, client_addr, transferVars, socket, net,
                 client>>

\* Nothing the served client and the server still say to each other is on
\* its way.
Quiet(c) ==
  /\ \A i \in 1..Len(socket) : socket[i].from # c
  /\ \A k \in 0..Blocks[c] : Packet(c, k) \notin net
  /\ \A m \in net \cap ToClients : m.to # c

\* Fault: readfds is filled again after a timeout
WatchesAgain ==
  /\ pc = "receive" /\ Timeout >= 0
  /\ socket = <<>> /\ ("slow" \in faults \/ Quiet(client_addr))
  /\ missed_packets' = missed_packets + 1
  /\ UNCHANGED <<faults, file_name, client_addr, block_number, watching,
                 socket, client>>

\* Fault: a timeout is not counted
TimesOutUncounted ==
  /\ pc = "receive" /\ Timeout >= 0
  /\ watching => socket = <<>> /\ ("slow" \in faults \/ Quiet(client_addr))
  /\ watching' = FALSE
  /\ UNCHANGED <<faults, file_name, client_addr, block_number,
                 missed_packets, socket, client>>

\* select sees a timeout pass: no packet is there, or readfds is empty.
SelectTimesOut ==
  /\ pc = "receive" /\ Timeout >= 0
  /\ watching => socket = <<>> /\ ("slow" \in faults \/ Quiet(client_addr))
  /\ watching' = FALSE
  /\ missed_packets' = missed_packets + 1
  /\ UNCHANGED <<faults, file_name, client_addr, block_number, socket, client>>

\* Fault: no limit
ResendForEver ==
  /\ SelectTimesOut
  /\ (Send(Ack(client_addr, block_number)) /\ UNCHANGED pc) \/ SendFails
  /\ UNCHANGED disk

Resend ==
  /\ SelectTimesOut
  /\ missed_packets < MaxResends
  /\ (Send(Ack(client_addr, block_number)) /\ UNCHANGED pc) \/ SendFails
  /\ UNCHANGED disk

\* The error packet first, then the file.
Abandoned ==
  \/ Send(Error(client_addr)) /\ DeleteFile("close")
  \/ SendFails /\ UNCHANGED disk

Abandon ==
  /\ SelectTimesOut
  /\ missed_packets >= MaxResends
  /\ Abandoned

\* Fault: no ERROR for strangers
IgnoresStranger(p) ==
  /\ SelectReads
  /\ Receive(p)
  /\ p.from # client_addr
  /\ UNCHANGED <<faults, pc, file_name, client_addr, transferVars, disk, net,
                 client>>

Stranger(p) ==
  /\ SelectReads
  /\ Receive(p)
  /\ p.from # client_addr
  /\ (Send(Error(p.from)) /\ UNCHANGED pc) \/ SendFails
  /\ UNCHANGED <<faults, file_name, client_addr, transferVars, disk, client>>

\* A packet of the served client.
Reads(p) ==
  /\ SelectReads
  /\ Receive(p)
  /\ p.from = client_addr
  /\ UNCHANGED <<faults, file_name, client_addr, watching, client>>

\* Fault: the last block is taken again; the expected number wraps
IsNextOrLastBlock(p) == BlockField(p) \in {block_number, block_number + 1}
IsNextWord(p)        == BlockField(p) = (block_number + 1) % WordMod

IsNextBlock(p) == BlockField(p) = block_number + 1

Reject(p) ==
  /\ Reads(p)
  /\ ~IsNextBlock(p) \/ Opcode(p) # "DATA"
  /\ Abandoned
  /\ UNCHANGED <<block_number, missed_packets>>

FwriteFails(p) ==
  /\ Reads(p)
  /\ IsNextBlock(p) /\ Opcode(p) = "DATA"
  /\ MayFail("fwrite")
  /\ missed_packets' = 0
  /\ DeleteFile("exit")
  /\ UNCHANGED <<block_number, net>>

Write(p) ==
  /\ Reads(p)
  /\ IsNextBlock(p) /\ Opcode(p) = "DATA"
  /\ missed_packets' = 0
  /\ disk' = [disk EXCEPT ![file_name] = Append(@, Data(p))]
  /\ block_number' = block_number + 1
  /\ \/ /\ Send(Ack(client_addr, block_number + 1))
        /\ pc' = IF IsFull(p) THEN "receive" ELSE "close"
     \/ SendFails

-----------------------------------------------------------------------------
(* The process as a whole *)

\* What fwrite has buffered goes to the disk when the process exits, but not
\* when it is killed.
Kill ==
  /\ MayFail("kill")
  /\ pc # "exit" /\ Exit
  /\ IF IsOpen
     THEN \E n \in 0..Len(disk[file_name]) :
            disk' = [disk EXCEPT ![file_name] = SubSeq(@, 1, n)]
     ELSE UNCHANGED disk
  /\ UNCHANGED <<faults, file_name, client_addr, transferVars, socket, net,
                 client>>

\* A new process finds the disk as it is, and a new socket.
Restart ==
  /\ pc = "exit"
  /\ pc' = "wrq"
  /\ file_name' = <<>>
  /\ client_addr' = Nobody
  /\ block_number' = 0
  /\ missed_packets' = 0
  /\ watching' = FALSE
  /\ socket' = <<>>
  /\ UNCHANGED <<faults, disk, net, client>>

Handle(p) ==
  \/ Refuse(p) \/ FopenFails(p) \/ Serve(p)
  \/ Stranger(p) \/ Reject(p) \/ FwriteFails(p) \/ Write(p)

ServerStep ==
  \/ socket # <<>> /\ Handle(Head(socket))
  \/ Resend \/ Abandon \/ SelectFails \/ Close

-----------------------------------------------------------------------------
(* The network.  Two equal packets on their way are one; a packet that the *)
(* network may repeat stays on its way for ever.                           *)

Leaves(m) == net' = IF "duplicate" \in faults THEN net ELSE net \ {m}

Deliver(m) ==
  /\ m \in net \cap ToServer
  /\ pc # "exit" /\ Len(socket) < SocketSize
  /\ socket' = Append(socket, m)
  /\ Leaves(m)
  /\ UNCHANGED <<faults, serverVars, client>>

\* The network loses m, or the kernel has no room or no process for it.
Lose(m) ==
  /\ m \in net
  /\ "duplicate" \notin faults
  /\ \/ "lose" \in faults
     \/ m \in ToServer /\ (pc = "exit" \/ Len(socket) >= SocketSize)
  /\ net' = net \ {m}
  /\ UNCHANGED <<faults, serverVars, socket, client>>

-----------------------------------------------------------------------------
(* The clients: each sends a packet and waits for its ACK before the next. *)

Request(c) ==
  /\ client[c].state = "idle"
  /\ client' = [client EXCEPT ![c].state = "sending"]
  /\ Send(Packet(c, 0))
  /\ UNCHANGED <<faults, serverVars, socket>>

Sending(c) == client[c].state = "sending"

\* c gets m from the server.
Gets(c, m) ==
  /\ m \in net \cap ToClients /\ m.to = c
  /\ UNCHANGED <<faults, serverVars, socket>>

Answers(c, m) ==
  Sending(c) /\ m.kind = "ACK" /\ m.block = client[c].sent % WordMod

SendNext(c, m) ==
  /\ Gets(c, m)
  /\ Answers(c, m) /\ client[c].sent < Blocks[c]
  /\ client' = [client EXCEPT ![c] =
       [state |-> "sending", sent |-> client[c].sent + 1, tries |-> 0]]
  /\ net' = (IF "duplicate" \in faults THEN net ELSE net \ {m})
              \cup {Packet(c, client[c].sent + 1)}

Finish(c, m) ==
  /\ Gets(c, m)
  /\ Answers(c, m) /\ client[c].sent = Blocks[c]
  /\ client' = [client EXCEPT ![c].state = "done"]
  /\ Leaves(m)

Fail(c, m) ==
  /\ Gets(c, m)
  /\ Sending(c) /\ m.kind = "ERROR"
  /\ client' = [client EXCEPT ![c].state = "failed"]
  /\ Leaves(m)

\* A late or repeated answer.
Ignore(c, m) ==
  /\ Gets(c, m)
  /\ ~Answers(c, m) /\ ~(Sending(c) /\ m.kind = "ERROR")
  /\ Leaves(m)
  /\ UNCHANGED client

\* No answer came in time.
TimesOut(c) ==
  /\ Sending(c)
  /\ "slow" \in faults \/ Quiet(c)
  /\ UNCHANGED <<faults, serverVars, socket>>

Repeat(c) ==
  /\ TimesOut(c)
  /\ client[c].tries < ClientRetries
  /\ client' = [client EXCEPT ![c].tries = @ + 1]
  /\ Packet(c, client[c].sent) \notin net
  /\ Send(Packet(c, client[c].sent))

GiveUp(c) ==
  /\ TimesOut(c)
  /\ client[c].tries = ClientRetries
  /\ client' = [client EXCEPT ![c].state = "failed"]
  /\ UNCHANGED net

ClientStep(c) ==
  \/ Request(c) \/ Repeat(c) \/ GiveUp(c)
  \/ \E m \in net \cap ToClients :
       SendNext(c, m) \/ Finish(c, m) \/ Fail(c, m) \/ Ignore(c, m)

Next ==
  \/ ServerStep \/ Kill \/ Restart
  \/ \E m \in net : Deliver(m) \/ Lose(m)
  \/ \E c \in Clients : ClientStep(c)

Spec == Init /\ [][Next]_vars

\* The operating system schedules every process, the network delivers what it
\* does not lose, and somebody starts a server that has exited.
FairSpec ==
  /\ Spec
  /\ WF_vars(ServerStep) /\ WF_vars(Restart)
  /\ \A m \in ToServer : WF_vars(Deliver(m))
  /\ \A c \in Clients : WF_vars(ClientStep(c))

-----------------------------------------------------------------------------
(* Properties *)

\* The open file holds the first block_number blocks of the served client's
\* file, each once and in order, whatever the network repeats or reorders and
\* whoever else sends packets; the file main closes is whole or removed.
ContentInOrder ==
  /\ pc = "receive" =>
       /\ file_name \in DOMAIN disk
       /\ disk[file_name] = Part(client_addr, block_number)
  /\ pc = "close" /\ file_name \in DOMAIN disk =>
       disk[file_name] = Whole(client_addr)

\* A client that has the ACK of its last block, or to whom it is on its way,
\* has its whole file on the disk, also after the server has exited and
\* started again -- unless fclose fails or the process is killed, because the
\* ACK is sent before the file is closed.  A file of WordMod blocks is left
\* out: its last block has the number of the request.
AckedIsStored ==
  \A c \in Clients :
    /\ faults \cap {"fclose", "kill"} = {}
    /\ Blocks[c] < WordMod
    /\ client[c].state = "done" \/ Ack(c, Blocks[c]) \in net
    => \E n \in DOMAIN disk : disk[n] = Whole(c)

\* What is stored for a client is stored under a name that begins with the
\* one it asked for; a longer request before it may have left a tail.
NameBeginsAsRequested ==
  \A n \in DOMAIN disk : \A c \in Clients :
    disk[n] = Whole(c) => /\ Len(n) >= Len(Name[c])
                          /\ SubSeq(n, 1, Len(Name[c])) = Name[c]

\* A file with as many blocks as a u_short has values is never stored:
\* block_number + 1, an int, meets no field once the field wraps.
NoFileOfWordModBlocks ==
  \A n \in DOMAIN disk : Len(disk[n]) < WordMod

\* After a timeout the transfer takes no packet any more: what comes in the
\* resend windows stays in the socket, and no resent ACK can save the file.
DeafAfterTimeout ==
  [][pc = "receive" /\ missed_packets > 0 =>
       pc' # "receive" \/ (UNCHANGED block_number
                           /\ Len(socket') >= Len(socket))]_vars

\* The files on the disk that are not open are those of FileStore: they come
\* whole, under a fresh name, and stay, and only an exit of the server leaves
\* the first blocks of one.
Store == INSTANCE FileStore WITH files <- Closed, up <- pc # "exit"
ImplementsFileStore == Store!Spec

\* A transfer comes to its end, whatever the network and the system calls do.
TransferEnds == pc = "receive" ~> pc # "receive"

\* When nothing goes wrong, the server answers every client that asks, with
\* the ACKs of its whole file or an ERROR: none has to repeat a packet.
EveryoneIsAnswered ==
  \A c \in Clients :
    faults = {} /\ Sending(c)
    ~> client[c].state \in {"done", "failed"} /\ client[c].tries = 0

\* When nothing goes wrong, whoever is served has its file stored and knows.
ServedIsStored ==
  \A c \in Clients :
    faults = {} /\ Blocks[c] < WordMod /\ pc = "receive" /\ client_addr = c
    ~> /\ client[c].state = "done"
       /\ \E n \in DOMAIN Closed : Closed[n] = Whole(c)

\* server.cpp says of a timeout "no data was in the socket in timeout window".
NoDataInTimeoutWindow ==
  [][missed_packets' > missed_packets => socket = <<>>]_vars

\* server.h says that wrq_parser opens "the requested file".
RequestedFile ==
  \A n \in DOMAIN disk : \A c \in Clients : disk[n] = Whole(c) => n = Name[c]

=============================================================================
