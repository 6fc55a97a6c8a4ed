------------------------------ MODULE ByteFile ------------------------------
(***************************************************************************)
(* What reading and writing a file through an open file description        *)
(* promises (kernel/file.c: fileread, filewrite): an inode is an array of  *)
(* bytes, an open file is an offset into one, and the processes that share *)
(* the open file share the offset.  Bytes are put at the offset and move   *)
(* it; nothing else changes a byte, except a write that fails while the    *)
(* kernel copies from the user: the bytes it was about to write are then   *)
(* undetermined (torn) until they are written again.                       *)
(***************************************************************************)
EXTENDS Integers, Sequences

CONSTANTS Inodes, Files, InodeOf, Bytes, MaxBytes

VARIABLES content,  \* content[ip]: the bytes of the file
          torn,     \* torn[ip]: positions a failed copy left undetermined
          off       \* off[f]: the offset of an open file
bvars == <<content, torn, off>>

Span(from, k) == from .. from + k - 1

ByteInit == /\ content = [ip \in Inodes |-> <<>>]
            /\ torn = [ip \in Inodes |-> {}]
            /\ off = [f \in Files |-> 0]

(* c with the k bytes from position i on replaced by v, longer if it must. *)
Overlay(c, i, k, v) ==
  [j \in 1 .. (IF i + k > Len(c) THEN i + k ELSE Len(c)) |->
     IF j - 1 \in Span(i, k) THEN v ELSE c[j]]

(* The two contents have one length and agree outside the positions S.     *)
SameBut(c, d, S) ==
  Len(c) = Len(d) /\ \A j \in 1..Len(c) : j - 1 \notin S => c[j] = d[j]

(* k bytes are written at the offset, which must not lie past the end.     *)
Put(f, k, v) ==
  LET ip == InodeOf[f] IN
  /\ off' = [off EXCEPT ![f] = @ + k]
  /\ off[f] <= Len(content[ip])
  /\ content' = [content EXCEPT ![ip] = Overlay(@, off[f], k, v)]
  /\ torn' \in [Inodes -> SUBSET (0 .. MaxBytes - 1)]
  /\ torn'[ip] \subseteq torn[ip] \ Span(off[f], k)
  /\ \A o \in Inodes \ {ip} : torn'[o] = torn[o]

(* A copy from the user fails: the k bytes at the offset are undetermined. *)
Spoil(f, k) ==
  LET ip == InodeOf[f] IN
  /\ UNCHANGED off
  /\ \A o \in Inodes :
       /\ SameBut(content[o], content'[o],
                  IF o = ip THEN torn[o] \cup Span(off[f], k) ELSE {})
       /\ torn'[o] \subseteq
            torn[o] \cup (IF o = ip THEN Span(off[f], k) ELSE {})

(* Undetermined bytes settle.                                              *)
Settle == /\ UNCHANGED off
          /\ \A o \in Inodes : /\ SameBut(content[o], content'[o], torn[o])
                               /\ torn'[o] \subseteq torn[o]

(* k bytes are read at the offset.                                         *)
Get(f, k) == /\ off' = [off EXCEPT ![f] = @ + k]
             /\ off[f] + k <= Len(content[InodeOf[f]])
             /\ UNCHANGED <<content, torn>>

Open(f) == off' = [off EXCEPT ![f] = 0] /\ UNCHANGED <<content, torn>>

Truncate(ip) == /\ UNCHANGED off
                /\ content' = [content EXCEPT ![ip] = <<>>]
                /\ torn' = [torn EXCEPT ![ip] = {}]

ByteNext ==
  \/ \E f \in Files : Open(f)
  \/ \E ip \in Inodes : Truncate(ip)
  \/ Settle
  \/ \E f \in Files, k \in 1..MaxBytes :
        Get(f, k) \/ Spoil(f, k) \/ \E v \in Bytes : Put(f, k, v)

ByteSpec == ByteInit /\ [][ByteNext]_bvars
=============================================================================
