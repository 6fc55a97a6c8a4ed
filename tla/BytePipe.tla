------------------------------ MODULE BytePipe ------------------------------
(***************************************************************************)
(* What a pipe promises: a bounded first-in first-out queue of bytes, into *)
(* which bytes go only while both ends are open, out of which they go only *)
(* while the read end is open, and whose ends close for good.              *)
(***************************************************************************)
EXTENDS Naturals, Sequences

CONSTANTS Bytes, Size

VARIABLES queue, ropen, wopen

pipeVars == <<queue, ropen, wopen>>

PipeInit == queue = <<>> /\ ropen = TRUE /\ wopen = TRUE

Put(b) ==
  /\ ropen /\ wopen /\ Len(queue) < Size
  /\ queue' = Append(queue, b)
  /\ UNCHANGED <<ropen, wopen>>

Get ==
  /\ ropen /\ queue # <<>>
  /\ queue' = Tail(queue)
  /\ UNCHANGED <<ropen, wopen>>

CloseRead  == ropen /\ ropen' = FALSE /\ UNCHANGED <<queue, wopen>>
CloseWrite == wopen /\ wopen' = FALSE /\ UNCHANGED <<queue, ropen>>

PipeNext == (\E b \in Bytes : Put(b)) \/ Get \/ CloseRead \/ CloseWrite

PipeSpec == PipeInit /\ [][PipeNext]_pipeVars
=============================================================================
