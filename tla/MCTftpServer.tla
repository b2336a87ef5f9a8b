---------------------------- MODULE MCTftpServer ----------------------------
(***************************************************************************)
(* TftpServer for TLC: two clients, of which the second asks for a shorter *)
(* name.                                                                   *)
(***************************************************************************)
EXTENDS TftpServer, TLC

CONSTANTS c1, c2

Names      == c1 :> <<"a", "b">> @@ c2 :> <<"c">>
NameFields == c1 :> 2 @@ c2 :> 0
LateText   == <<"d">>

TwoBlocks == c1 :> 2 @@ c2 :> 1
\* The file of c2 has as many blocks as a word has values, if those are three.
LongFile  == c1 :> 2 @@ c2 :> 3

\* Any system call fails while the network does what it likes, but a file is
\* closed; and any fails, or the process is killed, while the network loses
\* packets.
SafetyModes == {Faults \ {"fclose", "kill"}, Faults \ {"duplicate", "slow"}}

\* Nothing goes wrong; packets are lost; system calls fail.
LiveModes == {{}, {"lose"}, {"send", "select", "remove", "fwrite", "fclose"}}

=============================================================================
