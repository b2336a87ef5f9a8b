----------------------------- MODULE FileStore -----------------------------
(***************************************************************************)
(* What the TFTP server of HW5 promises those who upload: while it is up,  *)
(* a file appears whole or not at all, and no file is changed or deleted   *)
(* once it is there.  Only the death of the server may leave the first     *)
(* blocks of a file behind.  TftpServer shows that the server implements   *)
(* this.                                                                   *)
(***************************************************************************)
EXTENDS Naturals

CONSTANTS Clients, \* who uploads, one file each
          Blocks   \* the number of blocks in the file of each client

VARIABLES files, \* the contents of every file on the server's disk
          up     \* whether the server runs

vars == <<files, up>>

\* The first n blocks of the file of client c.
Part(c, n) == [i \in 1..n |-> <<c, i>>]
Whole(c)   == Part(c, Blocks[c])

Init == files = [n \in {} |-> <<>>] /\ up = TRUE

\* One file more, under a name nobody used.
Appears(content) ==
  \E n \in DOMAIN files' :
    /\ n \notin DOMAIN files
    /\ files' = [m \in DOMAIN files \cup {n} |->
                   IF m = n THEN content ELSE files[m]]

Store == \E c \in Clients : up /\ Appears(Whole(c)) /\ UNCHANGED up

Die ==
  /\ up /\ ~up'
  /\ \/ UNCHANGED files
     \/ \E c \in Clients : \E n \in 0..Blocks[c] : Appears(Part(c, n))

Restart == ~up /\ up' /\ UNCHANGED files

Next == Store \/ Die \/ Restart

Spec == Init /\ [][Next]_vars

=============================================================================
