----------------------------- MODULE LineInput ------------------------------
(***************************************************************************)
(* What the console promises to its readers: characters come out once      *)
(* each, in the order in which they were typed, and only once their line   *)
(* is complete; until then the user can take back the last ones.           *)
(***************************************************************************)
EXTENDS Integers, Sequences

CONSTANTS Chars, Enders, Size   \* storable characters; those that end a line

VARIABLES line, ready   \* what is being edited; what may be read

lineVars == <<line, ready>>

LineInit == line = <<>> /\ ready = <<>>

Room == Len(ready) + Len(line) < Size

\* A character is typed; a line ends, or the buffer is full.
Type(c) ==
  /\ Room
  /\ IF c \in Enders \/ Len(ready) + Len(line) + 1 = Size
     THEN line' = <<>> /\ ready' = ready \o Append(line, c)
     ELSE line' = Append(line, c) /\ UNCHANGED ready

Erase == line # <<>> /\ line' = SubSeq(line, 1, Len(line) - 1) /\ UNCHANGED ready

Take == ready # <<>> /\ ready' = Tail(ready) /\ UNCHANGED line

LineNext == Erase \/ Take \/ \E c \in Chars : Type(c)

LineSpec == LineInit /\ [][LineNext]_lineVars
=============================================================================
