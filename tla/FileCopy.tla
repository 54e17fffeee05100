------------------------------- MODULE FileCopy -------------------------------
(***************************************************************************)
(* What the go-back-N pair promises, without packets in flight, timers or  *)
(* a window: the receiver takes one packet after the other and deals with  *)
(* it before it takes the next, so the output grows by the next chunk of   *)
(* the file until it is complete, and is then closed; the sender lets go   *)
(* of a packet only after the receiver has it.  Packets are the chunks and *)
(* one that ends the file.                                                 *)
(***************************************************************************)
EXTENDS Integers, Sequences

CONSTANT File

VARIABLES received,  \* packets the receiver has taken
          output,    \* chunks in the output file
          open,      \* the output file is open
          released,  \* packets the sender no longer keeps
          finished   \* the sender has ended

copyVars == <<received, output, open, released, finished>>

\* Packets the receiver has dealt with.
Stored == Len(output) + (IF open THEN 0 ELSE 1)

CopyInit ==
    /\ received = 0
    /\ output = <<>>
    /\ open = TRUE
    /\ released = 0
    /\ finished = FALSE

Receive ==
    /\ received = Stored
    /\ received <= Len(File)
    /\ received' = received + 1
    /\ UNCHANGED <<output, open, released, finished>>

Write ==
    /\ Stored < received
    /\ Len(output) < Len(File)
    /\ output' = Append(output, File[Len(output) + 1])
    /\ UNCHANGED <<received, open, released, finished>>

Close ==
    /\ Stored < received
    /\ open
    /\ output = File
    /\ open' = FALSE
    /\ UNCHANGED <<received, output, released, finished>>

Release ==
    /\ released' \in released + 1 .. received
    /\ UNCHANGED <<received, output, open, finished>>

\* All packets are released.  The close may still be to come, nothing else.
End ==
    /\ ~ finished
    /\ released = Len(File) + 1
    /\ finished' = TRUE
    /\ UNCHANGED <<received, output, open, released>>

CopyNext == Receive \/ Write \/ Close \/ Release \/ End

CopySpec == CopyInit /\ [][CopyNext]_copyVars
===============================================================================
