--------------------------- MODULE ConsoleProofs ----------------------------
(***************************************************************************)
(* Proofs about Console, for any processes, any INPUT_BUF_SIZE and any     *)
(* word size that it divides.                                              *)
(***************************************************************************)
EXTENDS Console, Modulus, SequenceTheorems, TLAPS

\* The time the provers are allowed for a step.
USE SMTT(30), ZenonT(30)

Erasers == {"^U", "^H", "del"}

\* A character that consoleintr() has echoed, or is echoing, still has room
\* when it is stored: nobody but consoleintr() adds to the buffer.
StoreInv ==
  /\ hpc \in {"echo", "put", "store"} =>
       key \in Erasers \cup {"^P"} \/ (HeldLen < INPUT_BUF_SIZE /\ Char \in Stored)
  /\ hpc = "store" => key \notin Erasers \cup {"^P"}
  /\ hpc \in {"echo", "put"} => echo > 0

\* One if b holds.
One(b) == IF b THEN 1 ELSE 0

\* Each of the three paths to the UART has written its byte, may still write
\* it, or must first find the UART idle.
FifoInv == thr + One(prt = "put") + One(hpc = "put") + One(~tx_busy) <= 3

\* TypeOK, in three parts.
RingOK ==
  /\ buf \in [0 .. INPUT_BUF_SIZE - 1 -> Stored \cup {"stale"}]
  /\ r \in 0 .. UINT - 1 /\ w \in 0 .. UINT - 1 /\ e \in 0 .. UINT - 1
  /\ ReadyLen <= HeldLen /\ HeldLen <= INPUT_BUF_SIZE
DriverOK ==
  /\ conslock \in Procs \cup {None, Handler} /\ txlock \in Procs \cup {None}
  /\ tx_busy \in BOOLEAN /\ rx \in Nat /\ thr \in Nat /\ thri \in BOOLEAN
  /\ hpc \in IntrPCs /\ key \in Keys \cup {"nul"} /\ echo \in 0 .. BACKSPACE /\ prt \in PrintPCs
CallsOK ==
  /\ pc \in [Procs -> PCs] /\ killed \in [Procs -> BOOLEAN]
  /\ cnt \in [Procs -> Nat] /\ lim \in [Procs -> Nat] /\ nn \in [Procs -> Nat]

ConsoleInv ==
  /\ RingOK /\ DriverOK /\ CallsOK
  /\ StoreInv /\ FullIsReadable /\ ReaderNotForgotten
  /\ FifoInv /\ BusyHasWaker /\ WriterNotForgotten

-----------------------------------------------------------------------------
(* Arithmetic of the indices *)

\* Sizes, without the division.
LEMMA Sizes ==
  /\ INPUT_BUF_SIZE \in Nat /\ 0 < INPUT_BUF_SIZE
  /\ UINT \in Nat /\ INPUT_BUF_SIZE < UINT
BY ConsoleAssumption

\* How far x is ahead of y, without a modulus.
LEMMA AheadIs ==
  ASSUME NEW x \in 0 .. UINT - 1, NEW y \in 0 .. UINT - 1
  PROVE  (x - y) % UINT = IF x >= y THEN x - y ELSE x - y + UINT
BY Sizes

\* The index after x, and k after it, without a modulus.
LEMMA PlusIs ==
  ASSUME NEW x \in 0 .. UINT - 1, NEW k \in 0 .. UINT
  PROVE  (x + k) % UINT = IF x + k < UINT THEN x + k ELSE x + k - UINT
BY Sizes

\* The index before x, without a modulus.
LEMMA MinusIs ==
  ASSUME NEW x \in 0 .. UINT - 1
  PROVE  (x - 1) % UINT = IF x > 0 THEN x - 1 ELSE UINT - 1
BY Sizes

\* cons.r++ when there is something to read.
LEMMA AfterRead ==
  ASSUME NEW x \in 0 .. UINT - 1, NEW y \in 0 .. UINT - 1, NEW z \in 0 .. UINT - 1,
         x # y, (y - x) % UINT <= (z - x) % UINT
  PROVE  /\ (x + 1) % UINT \in 0 .. UINT - 1
         /\ (y - ((x + 1) % UINT)) % UINT = ((y - x) % UINT) - 1
         /\ (z - ((x + 1) % UINT)) % UINT = ((z - x) % UINT) - 1
<1>0. UINT \in Nat /\ UINT > 1 /\ 1 \in 0 .. UINT
  BY Sizes
<1>1. PICK v : v = (x + 1) % UINT
  OBVIOUS
<1>2. v = IF x + 1 < UINT THEN x + 1 ELSE x + 1 - UINT
  BY <1>0, <1>1, PlusIs
<1>3. v \in 0 .. UINT - 1
  BY <1>0, <1>2
<1>4. /\ (y - v) % UINT = IF y >= v THEN y - v ELSE y - v + UINT
      /\ (z - v) % UINT = IF z >= v THEN z - v ELSE z - v + UINT
  BY <1>3, AheadIs
<1>5. /\ (y - x) % UINT = IF y >= x THEN y - x ELSE y - x + UINT
      /\ (z - x) % UINT = IF z >= x THEN z - x ELSE z - x + UINT
  BY AheadIs
<1>6. z # x
  BY <1>0, <1>5
<1>7. (y - v) % UINT = ((y - x) % UINT) - 1 /\ (z - v) % UINT = ((z - x) % UINT) - 1
  BY <1>0, <1>2, <1>4, <1>5, <1>6
<1> QED
  BY <1>1, <1>3, <1>7, Zenon

\* cons.e-- when there is something to erase.
LEMMA AfterErase ==
  ASSUME NEW x \in 0 .. UINT - 1, NEW y \in 0 .. UINT - 1, NEW z \in 0 .. UINT - 1,
         z # y, (y - x) % UINT <= (z - x) % UINT
  PROVE  /\ (z - 1) % UINT \in 0 .. UINT - 1
         /\ (((z - 1) % UINT) - x) % UINT = ((z - x) % UINT) - 1
         /\ (y - x) % UINT <= ((z - x) % UINT) - 1
<1>0. UINT \in Nat /\ UINT > 1
  BY Sizes
<1>1. PICK v : v = (z - 1) % UINT
  OBVIOUS
<1>2. v = IF z > 0 THEN z - 1 ELSE UINT - 1
  BY <1>0, <1>1, MinusIs
<1>3. v \in 0 .. UINT - 1
  BY <1>0, <1>2
<1>4. (v - x) % UINT = IF v >= x THEN v - x ELSE v - x + UINT
  BY <1>3, AheadIs
<1>5. /\ (y - x) % UINT = IF y >= x THEN y - x ELSE y - x + UINT
      /\ (z - x) % UINT = IF z >= x THEN z - x ELSE z - x + UINT
  BY AheadIs
<1>6. z # x
  BY <1>0, <1>5
<1>7. (v - x) % UINT = ((z - x) % UINT) - 1 /\ (y - x) % UINT <= ((z - x) % UINT) - 1
  BY <1>0, <1>2, <1>4, <1>5, <1>6
<1> QED
  BY <1>1, <1>3, <1>7, Zenon

\* cons.e++ when there is room.
LEMMA AfterStore ==
  ASSUME NEW x \in 0 .. UINT - 1, NEW z \in 0 .. UINT - 1,
         (z - x) % UINT < INPUT_BUF_SIZE
  PROVE  /\ (z + 1) % UINT \in 0 .. UINT - 1
         /\ (((z + 1) % UINT) - x) % UINT = ((z - x) % UINT) + 1
         /\ (z + 1 - x) % UINT = ((z - x) % UINT) + 1
<1>0. UINT \in Nat /\ INPUT_BUF_SIZE \in Nat /\ INPUT_BUF_SIZE < UINT /\ 1 \in 0 .. UINT
  BY Sizes
<1>1. PICK v : v = (z + 1) % UINT
  OBVIOUS
<1>2. v = IF z + 1 < UINT THEN z + 1 ELSE z + 1 - UINT
  BY <1>0, <1>1, PlusIs
<1>3. v \in 0 .. UINT - 1
  BY <1>0, <1>2
<1>4. (v - x) % UINT = IF v >= x THEN v - x ELSE v - x + UINT
  BY <1>3, AheadIs
<1>5. (z - x) % UINT = IF z >= x THEN z - x ELSE z - x + UINT
  BY AheadIs
<1>6. (v - x) % UINT = ((z - x) % UINT) + 1
  BY <1>0, <1>2, <1>4, <1>5
<1>7. (z + 1 - x) % UINT = ((z - x) % UINT) + 1
  <2>1. PICK d : d = (z - x) % UINT
    OBVIOUS
  <2>2. d \in Int /\ d + 1 \in 0 .. UINT - 1 /\ (z + 1 - x = d + 1 \/ z + 1 - x = d + 1 - UINT)
    BY <1>0, <1>5, <2>1
  <2>3. (d + 1) % UINT = d + 1 /\ (d + 1 - UINT) % UINT = d + 1
    BY <1>0, <2>2
  <2> QED
    BY <2>1, <2>2, <2>3, Zenon
<1> QED
  BY <1>1, <1>3, <1>6, <1>7, Zenon
-----------------------------------------------------------------------------
(* The steps *)

\* cons.r++ in consoleread(), with something to read.
Eat == r # w /\ Consume /\ UNCHANGED <<w, e>>

\* What a step does to the buffer.
LEMMA BufferSteps ==
  ASSUME [Next]_vars
  PROVE  UNCHANGED cons \/ Eat \/ IntrErase \/ IntrStore
<1>1. CASE UNCHANGED vars
  BY <1>1 DEF vars
<1>2. CASE Receive \/ Send \/ PrintWait \/ PrintPut
  BY <1>2 DEF Receive, Send, PrintWait, PrintPut
<1>3. CASE uartintr
  BY <1>3 DEF uartintr, IntrClaim, IntrTx, IntrComplete, IntrGet, IntrEcho, IntrIgnore,
     IntrWait, IntrPut
<1>4. ASSUME NEW p \in Procs, NEW n, Read(p, n) \/ Write(p, n) \/ kkill(p)
      PROVE  UNCHANGED cons
  BY <1>4 DEF Read, Write, kkill
<1>5. ASSUME NEW p \in Procs, Proc(p)
      PROVE  UNCHANGED cons \/ Eat
  <2>1. CASE \/ WriteReturn(p) \/ WriteBatch(p) \/ WriteLock(p) \/ WriteSleep(p)
             \/ WriteByte(p) \/ WriteUnlock(p)
    BY <2>1 DEF WriteReturn, WriteBatch, WriteLock, WriteSleep, WriteByte, WriteUnlock
  <2>2. CASE ReadLock(p) \/ ReadFail(p) \/ ReadSleep(p) \/ ReadReturn(p)
    BY <2>2 DEF ReadLock, ReadFail, ReadSleep, ReadReturn
  <2>3. CASE ReadChar(p) \/ ReadFault(p)
    BY <2>3 DEF ReadChar, ReadFault, Eat
  <2>4. CASE ReadEof(p)
    BY <2>4 DEF ReadEof, Eat, cons
  <2> QED
    BY <1>5, <2>1, <2>2, <2>3, <2>4 DEF Proc
<1> QED
  BY <1>1, <1>2, <1>3, <1>4, <1>5 DEF Next

\* The indices and the contents of the buffer.
LEMMA RingStep ==
  ASSUME RingOK, DriverOK, StoreInv, FullIsReadable, [Next]_vars
  PROVE  RingOK' /\ FullIsReadable'
<1>1. CASE UNCHANGED cons
  BY <1>1 DEF cons, RingOK, FullIsReadable, ReadyLen, HeldLen
<1>2. CASE Eat
  <2>1. /\ (r + 1) % UINT \in 0 .. UINT - 1
        /\ (w - ((r + 1) % UINT)) % UINT = ((w - r) % UINT) - 1
        /\ (e - ((r + 1) % UINT)) % UINT = ((e - r) % UINT) - 1
    BY <1>2, AfterRead DEF Eat, RingOK, ReadyLen, HeldLen
  <2>2. /\ r' \in 0 .. UINT - 1 /\ w' = w /\ e' = e
        /\ ReadyLen' = ReadyLen - 1 /\ HeldLen' = HeldLen - 1
    BY <1>2, <2>1 DEF Eat, Consume, ReadyLen, HeldLen
  <2>3. ReadyLen \in Int /\ HeldLen \in Int
    BY Sizes DEF RingOK, ReadyLen, HeldLen
  <2>4. ReadyLen' <= HeldLen' /\ HeldLen' < INPUT_BUF_SIZE
    BY <2>2, <2>3, Sizes DEF RingOK
  <2>5. buf' \in [0 .. INPUT_BUF_SIZE - 1 -> Stored \cup {"stale"}]
    BY <1>2, Zenon DEF Eat, Consume, RingOK
  <2> QED
    BY <2>2, <2>4, <2>5, Sizes DEF RingOK, FullIsReadable
<1>3. CASE IntrErase
  <2>0. e # w
    BY <1>3 DEF IntrErase, MayErase
  <2>1. /\ (e - 1) % UINT \in 0 .. UINT - 1
        /\ (((e - 1) % UINT) - r) % UINT = ((e - r) % UINT) - 1
        /\ (w - r) % UINT <= ((e - r) % UINT) - 1
    BY <2>0, AfterErase DEF RingOK, ReadyLen, HeldLen
  <2>2. /\ e' \in 0 .. UINT - 1 /\ r' = r /\ w' = w
        /\ ReadyLen' = ReadyLen /\ HeldLen' = HeldLen - 1 /\ ReadyLen <= HeldLen - 1
    BY <1>3, <2>1 DEF IntrErase, ReadyLen, HeldLen
  <2>3. ReadyLen \in Int /\ HeldLen \in Int
    BY Sizes DEF RingOK, ReadyLen, HeldLen
  <2>4. ReadyLen' <= HeldLen' /\ HeldLen' < INPUT_BUF_SIZE
    BY <2>2, <2>3, Sizes DEF RingOK
  <2>5. buf' \in [0 .. INPUT_BUF_SIZE - 1 -> Stored \cup {"stale"}]
    BY <1>3, Zenon DEF IntrErase, RingOK
  <2> QED
    BY <2>2, <2>4, <2>5, Sizes DEF RingOK, FullIsReadable
<1>4. CASE IntrStore
  <2>0. hpc = "store"
    BY <1>4 DEF IntrStore
  <2>1. (e - r) % UINT < INPUT_BUF_SIZE /\ Char \in Stored
    BY <2>0 DEF StoreInv, HeldLen
  <2>2. /\ (e + 1) % UINT \in 0 .. UINT - 1
        /\ (((e + 1) % UINT) - r) % UINT = ((e - r) % UINT) + 1
        /\ (e + 1 - r) % UINT = ((e - r) % UINT) + 1
    BY <2>1, AfterStore DEF RingOK
  <2>3. e' = (e + 1) % UINT /\ r' = r
    BY <1>4 DEF IntrStore
  <2>4. HeldLen' = HeldLen + 1 /\ (e + 1 - r) % UINT = HeldLen + 1
    BY <2>2, <2>3 DEF HeldLen
  <2>5. ReadyLen \in Int /\ HeldLen \in Int
    BY Sizes DEF RingOK, ReadyLen, HeldLen
  <2>6. \/ w' = e'
        \/ w' = w /\ HeldLen' # INPUT_BUF_SIZE
    BY <1>4, <2>3, <2>4 DEF IntrStore, EndsLine
  <2>7. w' \in 0 .. UINT - 1 /\ e' \in 0 .. UINT - 1 /\ r' \in 0 .. UINT - 1
    BY <2>2, <2>3, <2>6 DEF RingOK
  <2>8. ReadyLen' <= HeldLen'
    <3>1. CASE w' = e'
      BY <2>4, <2>5, <3>1 DEF ReadyLen, HeldLen
    <3>2. CASE w' = w
      <4>1. ReadyLen' = ReadyLen
        BY <2>3, <3>2 DEF ReadyLen
      <4> QED
        BY <2>4, <2>5, <4>1 DEF RingOK
    <3> QED
      BY <2>6, <3>1, <3>2
  <2>9. HeldLen' <= INPUT_BUF_SIZE
    BY <2>1, <2>4, <2>5, Sizes DEF HeldLen
  <2>10. buf' \in [0 .. INPUT_BUF_SIZE - 1 -> Stored \cup {"stale"}]
    BY <1>4, <2>1, Zenon DEF IntrStore, RingOK
  <2> QED
    BY <2>6, <2>7, <2>8, <2>9, <2>10 DEF RingOK, FullIsReadable
<1> QED
  BY <1>1, <1>2, <1>3, <1>4, BufferSteps
\* Outside of uartintr() nothing is added to the buffer.
LEMMA OthersLeaveRoom ==
  ASSUME RingOK, UNCHANGED cons \/ Eat
  PROVE  HeldLen < INPUT_BUF_SIZE => HeldLen' < INPUT_BUF_SIZE
<1>1. CASE UNCHANGED cons
  BY <1>1 DEF cons, HeldLen
<1>2. CASE Eat
  <2>1. (e - ((r + 1) % UINT)) % UINT = ((e - r) % UINT) - 1
    BY <1>2, AfterRead DEF Eat, RingOK, ReadyLen, HeldLen
  <2>2. HeldLen' = HeldLen - 1
    BY <1>2, <2>1 DEF Eat, Consume, HeldLen
  <2>3. HeldLen \in Int
    BY Sizes DEF RingOK, HeldLen
  <2> QED
    BY <2>2, <2>3, Sizes
<1> QED
  BY <1>1, <1>2

\* What a step outside of uartintr() does to its variables.
LEMMA OtherSteps ==
  ASSUME [Next]_vars, ~uartintr
  PROVE  UNCHANGED intr /\ (UNCHANGED cons \/ Eat)
<1>1. CASE UNCHANGED vars
  BY <1>1 DEF vars
<1>2. CASE Receive \/ Send \/ PrintWait \/ PrintPut
  BY <1>2 DEF Receive, Send, PrintWait, PrintPut
<1>3. ASSUME NEW p \in Procs, NEW n, Read(p, n) \/ Write(p, n) \/ kkill(p)
      PROVE  UNCHANGED intr
  BY <1>3 DEF Read, Write, kkill
<1>4. ASSUME NEW p \in Procs, Proc(p)
      PROVE  UNCHANGED intr
  BY <1>4, Zenon DEF Proc, WriteReturn, WriteBatch, WriteLock, WriteSleep, WriteByte, WriteUnlock,
     ReadLock, ReadFail, ReadSleep, ReadChar, ReadEof, ReadFault, ReadReturn
<1>5. UNCHANGED intr
  BY <1>1, <1>2, <1>3, <1>4 DEF Next
<1>6. UNCHANGED cons \/ Eat \/ IntrErase \/ IntrStore
  BY BufferSteps
<1> QED
  BY <1>5, <1>6 DEF uartintr

\* A character that passed the test of consoleintr() can be stored.
LEMMA CharIs ==
  ASSUME key \in Keys \cup {"nul"}, key \notin Erasers \cup {"^P", "nul"}
  PROVE  Char \in Stored
BY ConsoleAssumption DEF Char, Stored, Erasers

LEMMA StoreStep ==
  ASSUME RingOK, DriverOK, StoreInv, [Next]_vars
  PROVE  StoreInv'
<1>1. CASE ~uartintr
  <2>1. UNCHANGED intr
    BY <1>1, OtherSteps
  <2>2. HeldLen < INPUT_BUF_SIZE => HeldLen' < INPUT_BUF_SIZE
    BY <1>1, OtherSteps, OthersLeaveRoom
  <2> QED
    BY <2>1, <2>2 DEF intr, StoreInv, Char
<1>2. CASE IntrClaim \/ IntrTx \/ IntrComplete \/ \E c \in Keys : IntrGet(c)
  <2>1. hpc' \in {"tx", "get", "idle", "switch"}
    BY <1>2 DEF IntrClaim, IntrTx, IntrComplete, IntrGet
  <2> QED
    BY <2>1 DEF StoreInv
<1>3. CASE IntrErase
  BY <1>3 DEF IntrErase, Echo, StoreInv, Erasers, BACKSPACE
<1>4. CASE IntrEcho
  <2>1. hpc' = "echo" /\ echo' = 1 /\ key' = key /\ HeldLen' = HeldLen
    BY <1>4 DEF IntrEcho, Echo, cons, HeldLen
  <2>2. CASE key = "^P"
    BY <2>1, <2>2 DEF StoreInv
  <2>3. CASE Typed
    <3>1. HeldLen < INPUT_BUF_SIZE /\ Char \in Stored
      BY <2>3, CharIs DEF Typed, InputLen, HeldLen, DriverOK, Erasers
    <3> QED
      BY <2>1, <3>1 DEF StoreInv, Char
  <2> QED
    BY <1>4, <2>2, <2>3 DEF IntrEcho
<1>5. CASE IntrIgnore
  BY <1>5 DEF IntrIgnore, Unlock, StoreInv
<1>6. CASE IntrWait
  BY <1>6 DEF IntrWait, cons, StoreInv, HeldLen, Char
<1>7. CASE IntrPut
  <2>1. HeldLen' = HeldLen /\ echo \in Int
    BY <1>7 DEF IntrPut, cons, HeldLen, DriverOK
  <2> QED
    BY <1>7, <2>1 DEF IntrPut, Unlock, StoreInv, Char, Erasers
<1>8. CASE IntrStore
  BY <1>8 DEF IntrStore, Unlock, StoreInv
<1> QED
  BY <1>1, <1>2, <1>3, <1>4, <1>5, <1>6, <1>7, <1>8 DEF uartintr

\* The flags of the driver and of the UART.
LEMMA FlagStep ==
  ASSUME DriverOK, [Next]_vars
  PROVE  tx_busy' \in BOOLEAN /\ thri' \in BOOLEAN
<1>0. tx_busy \in BOOLEAN /\ thri \in BOOLEAN
  BY DEF DriverOK
<1>1. CASE UNCHANGED vars
  BY <1>0, <1>1 DEF vars, uart
<1>2. CASE Receive \/ Send \/ PrintWait \/ PrintPut
  BY <1>0, <1>2, Zenon DEF Receive, Send, PrintWait, PrintPut, WriteTHR, uart
<1>3. ASSUME NEW p \in Procs, NEW n, Read(p, n) \/ Write(p, n) \/ kkill(p)
      PROVE  tx_busy' \in BOOLEAN /\ thri' \in BOOLEAN
  BY <1>0, <1>3 DEF Read, Write, kkill, uart
<1>4. ASSUME NEW p \in Procs, Proc(p)
      PROVE  tx_busy' \in BOOLEAN /\ thri' \in BOOLEAN
  <2>1. CASE WriteByte(p)
    BY <1>0, <2>1, Zenon DEF WriteByte, WriteTHR
  <2>2. CASE ~WriteByte(p)
    BY <1>0, <1>4, <2>2, Zenon DEF Proc, WriteReturn, WriteBatch, WriteLock, WriteSleep, WriteUnlock,
       ReadLock, ReadFail, ReadSleep, ReadChar, ReadEof, ReadFault, ReadReturn, uart
  <2> QED
    BY <2>1, <2>2
<1>5. CASE IntrClaim \/ IntrTx \/ IntrPut
  BY <1>0, <1>5, Zenon DEF IntrClaim, IntrTx, IntrPut, WriteTHR, uart
<1>6. CASE uartintr /\ ~(IntrClaim \/ IntrTx \/ IntrPut)
  BY <1>0, <1>6, Zenon DEF uartintr, IntrComplete, IntrGet, IntrErase, IntrEcho, IntrIgnore,
     IntrWait, IntrStore, uart
<1> QED
  BY <1>1, <1>2, <1>3, <1>4, <1>5, <1>6 DEF Next

\* The UART, the locks and uartintr().
LEMMA DriverStep ==
  ASSUME DriverOK, StoreInv, [Next]_vars
  PROVE  DriverOK'
<1> DEFINE Rest ==
      /\ conslock \in Procs \cup {None, Handler} /\ txlock \in Procs \cup {None}
      /\ rx \in Nat /\ thr \in Nat
      /\ hpc \in IntrPCs /\ key \in Keys \cup {"nul"} /\ echo \in 0 .. BACKSPACE
      /\ prt \in PrintPCs
<1> SUFFICES Rest'
  BY FlagStep DEF DriverOK
<1>0. Rest
  BY DEF DriverOK
<1>1. CASE UNCHANGED vars
  BY <1>0, <1>1 DEF vars, uart, intr
<1>2. CASE Receive \/ Send \/ PrintWait \/ PrintPut
  BY <1>0, <1>2 DEF Receive, Send, PrintWait, PrintPut, WriteTHR, uart, intr, PrintPCs
<1>3. ASSUME NEW p \in Procs, NEW n, Read(p, n) \/ Write(p, n) \/ kkill(p)
      PROVE  Rest'
  BY <1>0, <1>3 DEF Read, Write, kkill, uart, intr
<1>4. ASSUME NEW p \in Procs, Proc(p)
      PROVE  Rest'
  <2>1. CASE \/ WriteReturn(p) \/ WriteBatch(p) \/ WriteLock(p) \/ WriteSleep(p)
             \/ WriteByte(p) \/ WriteUnlock(p)
    BY <1>0, <2>1 DEF WriteReturn, WriteBatch, WriteLock, WriteSleep, WriteByte, WriteUnlock,
       WriteTHR, uart, intr
  <2>2. CASE \/ ReadLock(p) \/ ReadFail(p) \/ ReadSleep(p) \/ ReadReturn(p)
             \/ ReadChar(p) \/ ReadFault(p) \/ ReadEof(p)
    BY <1>0, <2>2, Zenon DEF ReadLock, ReadFail, ReadSleep, ReadReturn, ReadChar, ReadFault, ReadEof,
       uart, intr
  <2> QED
    BY <1>4, <2>1, <2>2 DEF Proc
<1>5. CASE uartintr
  <2>1. CASE IntrClaim \/ IntrTx \/ IntrComplete \/ \E c \in Keys : IntrGet(c)
    BY <1>0, <2>1 DEF IntrClaim, IntrTx, IntrComplete, IntrGet, IntrPCs, uart
  <2>2. CASE IntrErase \/ IntrEcho \/ IntrIgnore
    BY <1>0, <2>2 DEF IntrErase, IntrEcho, IntrIgnore, Echo, Unlock, IntrPCs, uart, BACKSPACE
  <2>3. CASE IntrWait \/ IntrStore
    BY <1>0, <2>3 DEF IntrWait, IntrStore, Unlock, IntrPCs, uart
  <2>4. CASE IntrPut
    <3>1. echo > 0
      BY <2>4 DEF IntrPut, StoreInv
    <3>2. echo' \in 0 .. BACKSPACE /\ thr' \in Nat /\ rx' \in Nat
      BY <1>0, <2>4, <3>1 DEF IntrPut, WriteTHR, BACKSPACE
    <3> QED
      BY <1>0, <2>4, <3>2 DEF IntrPut, Unlock, IntrPCs
  <2> QED
    BY <1>5, <2>1, <2>2, <2>3, <2>4 DEF uartintr
<1> QED
  BY <1>1, <1>2, <1>3, <1>4, <1>5 DEF Next

\* The processes, and the calls they are in.
LEMMA CallsStep ==
  ASSUME CallsOK, [Next]_vars
  PROVE  CallsOK'
<1> DEFINE Pcs    == pc \in [Procs -> PCs]
           Counts == /\ cnt \in [Procs -> Nat] /\ lim \in [Procs -> Nat]
                     /\ nn \in [Procs -> Nat] /\ killed \in [Procs -> BOOLEAN]
<1> SUFFICES Pcs' /\ Counts'
  BY DEF CallsOK
<1>0. Pcs /\ Counts
  BY DEF CallsOK
<1>1. CASE UNCHANGED vars
  BY <1>0, <1>1 DEF vars, calls
<1>2. CASE Receive \/ Send \/ PrintWait \/ PrintPut
  BY <1>0, <1>2 DEF Receive, Send, PrintWait, PrintPut, calls
<1>3. ASSUME NEW p \in Procs, \/ \E n \in ReadLens : Read(p, n)
                             \/ \E n \in WriteLens : Write(p, n)
      PROVE  Pcs' /\ Counts'
  <2>1. PICK n \in ReadLens \cup WriteLens : Read(p, n) \/ Write(p, n)
    BY <1>3
  <2>2. n \in Nat
    BY ConsoleAssumption
  <2>3. lim' = [lim EXCEPT ![p] = n] /\ UNCHANGED <<cnt, nn, killed>>
    BY <2>1 DEF Read, Write
  <2>4. Counts'
    BY <1>0, <2>2, <2>3
  <2>5. \E where \in PCs : pc' = [pc EXCEPT ![p] = where]
    BY <2>1 DEF Read, Write, Goto, PCs, ReadPCs, WritePCs
  <2> QED
    BY <1>0, <2>4, <2>5
<1>4. ASSUME NEW p \in Procs, kkill(p)
      PROVE  Pcs' /\ Counts'
  <2>1. pc[p] \in PCs
    BY <1>0
  <2>2. Counts'
    BY <1>0, <1>4 DEF kkill, calls
  <2>3. \E where \in PCs : pc' = [pc EXCEPT ![p] = where]
    BY <1>4, <2>1, Zenon DEF kkill, Goto, PCs, ReadPCs, WritePCs
  <2> QED
    BY <1>0, <2>2, <2>3
<1>5. ASSUME NEW p \in Procs, Finish(p), UNCHANGED nn
      PROVE  Pcs' /\ Counts'
  BY <1>0, <1>5 DEF Finish, Goto, PCs
<1>6. ASSUME NEW p \in Procs, Proc(p)
      PROVE  Pcs' /\ Counts'
  <2>1. CASE WriteReturn(p) \/ ReadFail(p) \/ ReadEof(p) \/ ReadFault(p) \/ ReadReturn(p)
    BY <1>5, <2>1, Zenon DEF WriteReturn, ReadFail, ReadEof, ReadFault, ReadReturn
  <2>2. CASE WriteBatch(p)
    <3>1. cnt[p] \in Nat /\ lim[p] \in Nat /\ BATCH \in Nat
      BY <1>0, ConsoleAssumption
    <3> DEFINE m == IF BATCH > lim[p] - cnt[p] THEN lim[p] - cnt[p] ELSE BATCH
    <3>2. m \in Nat /\ nn' = [nn EXCEPT ![p] = m]
      BY <2>2, <3>1 DEF WriteBatch
    <3> HIDE DEF m
    <3>3. Counts'
      BY <1>0, <2>2, <3>2 DEF WriteBatch
    <3> QED
      BY <1>0, <2>2, <3>3 DEF WriteBatch, Goto, PCs, WritePCs
  <2>3. CASE WriteByte(p)
    <3>1. nn[p] \in Nat /\ cnt[p] \in Nat
      BY <1>0
    <3>2. nn[p] - 1 \in Nat
      BY <2>3, <3>1 DEF WriteByte
    <3> QED
      BY <1>0, <2>3, <3>1, <3>2 DEF WriteByte
  <2>4. CASE WriteLock(p) \/ WriteSleep(p) \/ WriteUnlock(p) \/ ReadLock(p) \/ ReadSleep(p)
    BY <1>0, <2>4, Zenon DEF WriteLock, WriteSleep, WriteUnlock, ReadLock, ReadSleep, Goto, calls,
       PCs, ReadPCs, WritePCs
  <2>5. CASE ReadChar(p)
    <3>1. CASE Finish(p)
      BY <1>5, <2>5, <3>1 DEF ReadChar
    <3>2. CASE ~Finish(p)
      <4>1. cnt' = [cnt EXCEPT ![p] = @ + 1] /\ UNCHANGED <<pc, lim, killed, nn>>
        BY <2>5, <3>2 DEF ReadChar
      <4> QED
        BY <1>0, <4>1
    <3> QED
      BY <3>1, <3>2
  <2> QED
    BY <1>6, <2>1, <2>2, <2>3, <2>4, <2>5 DEF Proc
<1>7. CASE uartintr
  <2>1. Counts'
    BY <1>0, <1>7, Zenon DEF uartintr, IntrClaim, IntrTx, IntrComplete, IntrGet, IntrErase, IntrEcho,
       IntrIgnore, IntrWait, IntrPut, IntrStore, calls
  <2>2. ASSUME NEW asleep, NEW where \in PCs, Awake(asleep, where)
        PROVE  Pcs'
    BY <1>0, <2>2 DEF Awake
  <2>3. "wlock" \in PCs /\ "rcall" \in PCs
    BY DEF PCs, ReadPCs, WritePCs
  <2>4. CASE IntrTx \/ IntrStore
    BY <1>0, <2>1, <2>2, <2>3, <2>4, Zenon DEF IntrTx, IntrStore
  <2>5. CASE ~(IntrTx \/ IntrStore)
    BY <1>0, <1>7, <2>1, <2>5, Zenon DEF uartintr, IntrClaim, IntrComplete, IntrGet, IntrErase, IntrEcho,
       IntrIgnore, IntrWait, IntrPut
  <2> QED
    BY <2>4, <2>5
<1> QED
  BY <1>1, <1>2, <1>3, <1>4, <1>6, <1>7 DEF Next
-----------------------------------------------------------------------------
(* No reader and no writer is forgotten *)

\* A process falls asleep only when there is nothing to read, or while the
\* UART is busy.
LEMMA SleepSteps ==
  ASSUME CallsOK, [Next]_vars, NEW p \in Procs
  PROVE  /\ pc'[p] = "rsleep" => pc[p] = "rsleep" \/ (r = w /\ UNCHANGED cons)
         /\ pc'[p] = "wsleep" => pc[p] = "wsleep" \/ (tx_busy /\ UNCHANGED tx_busy)
<1> USE DEF CallsOK
<1>1. CASE UNCHANGED vars \/ Receive \/ Send \/ PrintWait \/ PrintPut
  BY <1>1 DEF vars, Receive, Send, PrintWait, PrintPut
<1>2. ASSUME NEW q \in Procs, NEW n, Read(q, n) \/ Write(q, n)
      PROVE  pc'[p] \in {"rloop", "wcopy"} \/ pc'[p] = pc[p]
  BY <1>2 DEF Read, Write, Goto
<1>3. ASSUME NEW q \in Procs, kkill(q)
      PROVE  pc'[p] \in {"rcall", "wlock"} \/ pc'[p] = pc[p]
  BY <1>3 DEF kkill, Goto
<1>4. ASSUME NEW q \in Procs, Proc(q), ~(ReadSleep(q) \/ WriteSleep(q))
      PROVE  pc'[p] \in {"idle", "wloop", "wcopy", "rloop"} \/ pc'[p] = pc[p]
  BY <1>4, Zenon DEF Proc, WriteReturn, WriteBatch, WriteLock, WriteByte, WriteUnlock, ReadLock,
     ReadFail, ReadChar, ReadEof, ReadFault, ReadReturn, Finish, Goto
<1>5. ASSUME NEW q \in Procs, ReadSleep(q)
      PROVE  r = w /\ UNCHANGED cons /\ (pc'[p] = "rsleep" \/ pc'[p] = pc[p])
  BY <1>5 DEF ReadSleep, Goto
<1>6. ASSUME NEW q \in Procs, WriteSleep(q)
      PROVE  tx_busy /\ UNCHANGED tx_busy /\ (pc'[p] = "wsleep" \/ pc'[p] = pc[p])
  BY <1>6 DEF WriteSleep, Goto
<1>7. CASE uartintr
  <2>1. pc'[p] \in {"rcall", "wlock"} \/ pc'[p] = pc[p]
    BY <1>7, Zenon DEF uartintr, IntrClaim, IntrTx, IntrComplete, IntrGet, IntrErase, IntrEcho,
       IntrIgnore, IntrWait, IntrPut, IntrStore, Awake
  <2> QED
    BY <2>1
<1> QED
  BY <1>1, <1>2, <1>3, <1>4, <1>5, <1>6, <1>7 DEF Next

LEMMA ReaderStep ==
  ASSUME CallsOK, ReaderNotForgotten, [Next]_vars
  PROVE  ReaderNotForgotten'
<1> SUFFICES ASSUME NEW p \in Procs, pc'[p] = "rsleep" PROVE r' = w'
  BY DEF ReaderNotForgotten
<1>1. r = w
  BY SleepSteps, Zenon DEF ReaderNotForgotten
<1>2. CASE UNCHANGED cons
  BY <1>1, <1>2 DEF cons
<1>3. CASE Eat
  BY <1>1, <1>3 DEF Eat
<1>4. CASE IntrErase
  BY <1>1, <1>4 DEF IntrErase
<1>5. CASE IntrStore
  <2>1. ~Awake("rsleep", "rcall")
    BY DEF Awake, CallsOK
  <2> QED
    BY <1>1, <1>5, <2>1 DEF IntrStore
<1> QED
  BY <1>2, <1>3, <1>4, <1>5, BufferSteps

LEMMA WriterStep ==
  ASSUME CallsOK, WriterNotForgotten, [Next]_vars
  PROVE  WriterNotForgotten'
<1> SUFFICES ASSUME NEW p \in Procs, pc'[p] = "wsleep" PROVE tx_busy'
  BY DEF WriterNotForgotten
<1>1. tx_busy
  BY SleepSteps, Zenon DEF WriterNotForgotten
<1>2. ~Awake("wsleep", "wlock")
  BY DEF Awake, CallsOK
<1>3. tx_busy' = tx_busy \/ tx_busy' = TRUE
  <2>1. CASE UNCHANGED vars \/ Receive \/ Send \/ PrintWait \/ PrintPut
    BY <2>1 DEF vars, Receive, Send, PrintWait, PrintPut
  <2>2. ASSUME NEW q \in Procs, NEW n, Read(q, n) \/ Write(q, n) \/ kkill(q)
        PROVE  tx_busy' = tx_busy
    BY <2>2 DEF Read, Write, kkill
  <2>3. ASSUME NEW q \in Procs, Proc(q)
        PROVE  tx_busy' = tx_busy \/ tx_busy' = TRUE
    BY <2>3, Zenon DEF Proc, WriteReturn, WriteBatch, WriteLock, WriteSleep, WriteByte, WriteUnlock,
       ReadLock, ReadFail, ReadSleep, ReadChar, ReadEof, ReadFault, ReadReturn
  <2>4. CASE uartintr
    BY <1>2, <2>4, Zenon DEF uartintr, IntrClaim, IntrTx, IntrComplete, IntrGet, IntrErase, IntrEcho,
       IntrIgnore, IntrWait, IntrPut, IntrStore
  <2> QED
    BY <2>1, <2>2, <2>3, <2>4, Zenon DEF Next
<1> QED
  BY <1>1, <1>3, Zenon

-----------------------------------------------------------------------------
(* The transmitter *)

\* What a step does to the transmitter.
LEMMA SendSteps ==
  ASSUME [Next]_vars
  PROVE  \/ UNCHANGED <<thr, thri, tx_busy, prt, hpc>>
         \/ Send \/ PrintWait \/ PrintPut \/ uartintr \/ \E p \in Procs : WriteByte(p)
<1>1. CASE UNCHANGED vars \/ Receive
  BY <1>1 DEF vars, uart, intr, Receive
<1>2. ASSUME NEW p \in Procs, NEW n, Read(p, n) \/ Write(p, n) \/ kkill(p)
      PROVE  UNCHANGED <<thr, thri, tx_busy, prt, hpc>>
  BY <1>2 DEF Read, Write, kkill, uart, intr
<1>3. ASSUME NEW p \in Procs, Proc(p), ~WriteByte(p)
      PROVE  UNCHANGED <<thr, thri, tx_busy, prt, hpc>>
  BY <1>3, Zenon DEF Proc, WriteReturn, WriteBatch, WriteLock, WriteSleep, WriteUnlock,
     ReadLock, ReadFail, ReadSleep, ReadChar, ReadEof, ReadFault, ReadReturn, uart, intr
<1> QED
  BY <1>1, <1>2, <1>3 DEF Next

LEMMA BusyStep ==
  ASSUME DriverOK, BusyHasWaker, [Next]_vars
  PROVE  BusyHasWaker'
<1>0. thr \in Nat
  BY DEF DriverOK
<1>1. CASE UNCHANGED <<thr, thri, tx_busy, prt, hpc>>
  BY <1>1 DEF BusyHasWaker
<1>2. CASE Send
  <2>1. thr = 1 => thri'
    BY <1>2, Zenon DEF Send
  <2>2. thr # 1 => thr' > 0
    BY <1>0, <1>2 DEF Send
  <2> QED
    BY <2>1, <2>2, Zenon DEF BusyHasWaker
<1>3. CASE PrintWait
  BY <1>3, Zenon DEF PrintWait, uart, intr, BusyHasWaker
<1>6. CASE PrintPut
  <2>1. thr' > 0
    BY <1>0, <1>6 DEF PrintPut, WriteTHR
  <2> QED
    BY <2>1, Zenon DEF BusyHasWaker
<1>4. CASE \E p \in Procs : WriteByte(p)
  BY <1>0, <1>4 DEF WriteByte, WriteTHR, BusyHasWaker
<1>5. CASE uartintr
  <2>1. CASE IntrClaim
    BY <2>1 DEF IntrClaim, BusyHasWaker
  <2>2. CASE IntrTx
    <3>1. thr = 0 => ~tx_busy'
      BY <2>2, Zenon DEF IntrTx, TxIdle
    <3>2. thr # 0 => thr' > 0
      BY <1>0, <2>2 DEF IntrTx, uart
    <3> QED
      BY <3>1, <3>2, Zenon DEF BusyHasWaker
  <2>3. CASE IntrPut
    BY <1>0, <2>3 DEF IntrPut, WriteTHR, BusyHasWaker
  <2>4. CASE ~(IntrClaim \/ IntrTx \/ IntrPut)
    <3>1. UNCHANGED <<thr, thri, tx_busy>> /\ hpc # "tx"
      BY <1>5, <2>4, Zenon DEF uartintr, IntrComplete, IntrGet, IntrErase, IntrEcho, IntrIgnore,
         IntrWait, IntrStore, uart
    <3> QED
      BY <3>1 DEF BusyHasWaker
  <2> QED
    BY <2>1, <2>2, <2>3, <2>4
<1> QED
  BY <1>1, <1>2, <1>3, <1>4, <1>5, <1>6, SendSteps

LEMMA FifoStep ==
  ASSUME DriverOK, FifoInv, [Next]_vars
  PROVE  FifoInv'
<1>0. thr \in Nat
  BY DEF DriverOK
<1>1. CASE UNCHANGED <<thr, thri, tx_busy, prt, hpc>>
  BY <1>1 DEF FifoInv, One
<1>2. CASE Send
  BY <1>0, <1>2 DEF Send, FifoInv, One, intr
<1>3. CASE PrintWait \/ PrintPut
  BY <1>0, <1>3 DEF PrintWait, PrintPut, WriteTHR, TxIdle, uart, intr, FifoInv, One
<1>4. CASE \E p \in Procs : WriteByte(p)
  BY <1>0, <1>4 DEF WriteByte, WriteTHR, intr, FifoInv, One
<1>5. CASE uartintr
  <2>1. CASE IntrTx
    BY <1>0, <2>1 DEF IntrTx, TxIdle, uart, FifoInv, One
  <2>2. CASE IntrWait
    BY <1>0, <2>2 DEF IntrWait, TxIdle, uart, FifoInv, One
  <2>3. CASE IntrPut
    <3>1. hpc = "put" /\ hpc' # "put" /\ thr' = thr + 1 /\ UNCHANGED <<prt, tx_busy>>
      BY <2>3 DEF IntrPut, WriteTHR, Unlock
    <3> QED
      BY <1>0, <3>1 DEF FifoInv, One
  <2>4. CASE ~(IntrTx \/ IntrWait \/ IntrPut)
    <3>1. UNCHANGED <<thr, tx_busy, prt>> /\ hpc' # "put"
      BY <1>5, <2>4, Zenon DEF uartintr, IntrClaim, IntrComplete, IntrGet, IntrErase, IntrEcho,
         IntrIgnore, IntrStore, Echo, Unlock, uart
    <3> QED
      BY <1>0, <3>1 DEF FifoInv, One
  <2> QED
    BY <2>1, <2>2, <2>3, <2>4
<1> QED
  BY <1>1, <1>2, <1>3, <1>4, <1>5, SendSteps

-----------------------------------------------------------------------------
(* The invariant *)

LEMMA ConsoleStart == Init => ConsoleInv
<1> SUFFICES ASSUME Init PROVE ConsoleInv
  OBVIOUS
<1> USE DEF Init
<1>1. ReadyLen = 0 /\ HeldLen = 0
  <2>1. 0 \in 0 .. UINT - 1
    BY Sizes
  <2> QED
    BY <2>1, AheadIs DEF ReadyLen, HeldLen
<1>2. RingOK
  BY <1>1, Sizes DEF RingOK
<1>3. DriverOK
  <2>1. tx_busy \in BOOLEAN /\ thri \in BOOLEAN
    BY Zenon
  <2>2. hpc \in IntrPCs /\ echo \in 0 .. BACKSPACE /\ prt \in PrintPCs
    BY DEF IntrPCs, PrintPCs, BACKSPACE
  <2>3. rx \in Nat /\ thr \in Nat
    OBVIOUS
  <2> QED
    BY <2>1, <2>2, <2>3, Zenon DEF DriverOK
<1>4. CallsOK
  BY DEF CallsOK, PCs
<1>5. StoreInv /\ FifoInv
  BY DEF StoreInv, FifoInv, One
<1>6. FullIsReadable /\ ReaderNotForgotten /\ BusyHasWaker /\ WriterNotForgotten
  BY DEF FullIsReadable, ReaderNotForgotten, BusyHasWaker, WriterNotForgotten
<1> QED
  BY <1>2, <1>3, <1>4, <1>5, <1>6 DEF ConsoleInv

\* The inductive invariant of the console: the order of the indices, the room
\* kept for the character in hand, and who is still to be woken, by whom.
THEOREM ConsoleInvariant == Spec => []ConsoleInv
<1>1. ConsoleInv /\ [Next]_vars => ConsoleInv'
  BY RingStep, DriverStep, CallsStep, StoreStep, ReaderStep, FifoStep, BusyStep,
     WriterStep, Zenon DEF ConsoleInv
<1> QED
  BY <1>1, ConsoleStart, PTL DEF Spec

\* cons.r, cons.w and cons.e keep their order, at most a buffer apart, for
\* any size of the buffer and when they wrap.
THEOREM ConsoleTypeOK == Spec => []TypeOK
<1>1. ConsoleInv => TypeOK
  BY Zenon DEF ConsoleInv, RingOK, DriverOK, CallsOK, TypeOK
<1> QED
  BY <1>1, ConsoleInvariant, PTL

\* consoleread() does not sleep through what consoleintr() has made readable,
\* for any number of readers.
THEOREM ReadersWake == Spec => []ReaderNotForgotten
<1>1. ConsoleInv => ReaderNotForgotten
  BY DEF ConsoleInv
<1> QED
  BY <1>1, ConsoleInvariant, PTL

\* A full buffer can be read to its end: consoleintr() never waits for a
\* newline that it would not accept.
THEOREM FullCanBeRead == Spec => []FullIsReadable
<1>1. ConsoleInv => FullIsReadable
  BY DEF ConsoleInv
<1> QED
  BY <1>1, ConsoleInvariant, PTL

\* While tx_busy is set an interrupt is to come that clears it, whatever kernel
\* output does to the UART, and uartwrite() sleeps only then, for any number of
\* writers.
THEOREM WritersWake == Spec => []OutputGoesOn
<1>1. ConsoleInv => OutputGoesOn
  BY DEF ConsoleInv, OutputGoesOn
<1> QED
  BY <1>1, ConsoleInvariant, PTL

\* The transmit FIFO holds at most three bytes: uartputc_sync() loses none
\* although it does not take tx_lock.
THEOREM NoByteLost == Spec => []FifoFits
<1>1. ConsoleInv => FifoFits
  BY DEF ConsoleInv, DriverOK, FifoInv, FifoFits, One
<1> QED
  BY <1>1, ConsoleInvariant, PTL
-----------------------------------------------------------------------------
(* Line by line *)

Bufs == [0 .. INPUT_BUF_SIZE - 1 -> Stored \cup {"stale"}]

\* The slot j places after index x, and the n characters of b that begin d
\* places after it.
Spot(x, j) == (x + j) % INPUT_BUF_SIZE
From(b, x, d, n) == [k \in 1 .. n |-> b[Spot(x, d + k - 1)]]

\* A slot is in the buffer, and two of them differ.
LEMMA SpotIs ==
  ASSUME NEW x \in 0 .. UINT - 1, NEW j \in 0 .. INPUT_BUF_SIZE
  PROVE  Spot(x, j) \in 0 .. INPUT_BUF_SIZE - 1
BY Sizes DEF Spot

LEMMA SpotsDiffer ==
  ASSUME NEW x \in 0 .. UINT - 1, NEW j \in 0 .. INPUT_BUF_SIZE - 1,
         NEW m \in 0 .. INPUT_BUF_SIZE - 1, j # m
  PROVE  Spot(x, j) # Spot(x, m)
<1>0. PICK n \in Nat : n = INPUT_BUF_SIZE /\ n > 0
  BY Sizes
<1>1. x + j \in Nat /\ x + m \in Nat
  BY Sizes
<1>2. \/ x + j < x + m /\ x + m < x + j + n
      \/ x + m < x + j /\ x + j < x + m + n
  BY <1>0, Sizes
<1>3. (x + j) % n # (x + m) % n
  BY <1>0, <1>1, <1>2, ResiduesDiffer, Zenon
<1> QED
  BY <1>0, <1>3, Zenon DEF Spot

\* INPUT_BUF_SIZE divides UINT: an index that wraps keeps its slot.
LEMMA SpotWraps ==
  ASSUME NEW d \in Int
  PROVE  d % INPUT_BUF_SIZE = (d + UINT) % INPUT_BUF_SIZE
<1>1. /\ INPUT_BUF_SIZE \in Nat /\ INPUT_BUF_SIZE > 0 /\ UINT \in Nat
      /\ UINT % INPUT_BUF_SIZE = 0
  BY ConsoleAssumption
<1> QED
  BY <1>1, ResidueWraps, Zenon

\* The slot of index y, d places after x, j further on.
LEMMA SlotIs ==
  ASSUME NEW x \in 0 .. UINT - 1, NEW d \in 0 .. INPUT_BUF_SIZE,
         NEW j \in 0 .. INPUT_BUF_SIZE, d + j <= INPUT_BUF_SIZE, NEW y, y = (x + d) % UINT
  PROVE  Slot((y + j) % UINT) = Spot(x, d + j)
<1>0. UINT \in Nat /\ d \in 0 .. UINT /\ j \in 0 .. UINT /\ x + d \in Nat
  BY Sizes
<1>1. y = IF x + d < UINT THEN x + d ELSE x + d - UINT
  BY <1>0, PlusIs, Zenon
<1>2. y \in 0 .. UINT - 1
  BY <1>0, <1>1
<1>3. PICK v : v = (y + j) % UINT
  OBVIOUS
<1>4. v = IF y + j < UINT THEN y + j ELSE y + j - UINT
  BY <1>0, <1>2, <1>3, PlusIs, Zenon
<1>5. PICK a \in Int : a = x + (d + j)
  BY <1>0
<1>6. v \in Int /\ (v = a \/ v + UINT = a)
  <2>1. x + d + j < UINT + UINT
    BY Sizes
  <2> QED
    BY <1>0, <1>1, <1>2, <1>4, <1>5, <2>1
<1>7. v % INPUT_BUF_SIZE = a % INPUT_BUF_SIZE
  BY <1>6, SpotWraps, Zenon
<1> QED
  BY <1>3, <1>5, <1>7, Zenon DEF Slot, Spot

\* Held, of any buffer b; index y is d places after x.
At(b, i, n) == [k \in 1 .. n |-> b[Slot((i + (k - 1)) % UINT)]]
Ahead(y, x, d) == y = (x + d) % UINT
Gap(d, y, x) == d = (y - x) % UINT

\* The characters held, counted from x.
LEMMA HeldIs ==
  ASSUME NEW b, NEW x \in 0 .. UINT - 1, NEW d \in 0 .. INPUT_BUF_SIZE,
         NEW n \in 0 .. INPUT_BUF_SIZE, d + n <= INPUT_BUF_SIZE, NEW y, Ahead(y, x, d)
  PROVE  At(b, y, n) = From(b, x, d, n)
<1>1. ASSUME NEW k \in 1 .. n
      PROVE  Slot((y + (k - 1)) % UINT) = Spot(x, d + k - 1)
  <2>1. k - 1 \in 0 .. INPUT_BUF_SIZE /\ d + (k - 1) <= INPUT_BUF_SIZE
    BY Sizes
  <2>2. Slot((y + (k - 1)) % UINT) = Spot(x, d + (k - 1))
    BY <2>1, SlotIs, Zenon DEF Ahead
  <2>3. d + (k - 1) = d + k - 1
    BY Sizes
  <2> QED
    BY <2>2, <2>3, Zenon
<1> QED
  BY <1>1, Zenon DEF At, From

\* a is b with c in slot i.
SetAt(a, b, i, c) == a = [b EXCEPT ![i] = c]

\* s is the n characters of b from slot x + d on.
Reads(s, b, x, d, n) ==
  /\ s \in Seq(Stored \cup {"stale"}) /\ Len(s) = n
  /\ \A k \in 1 .. n : s[k] = b[Spot(x, d + k - 1)]

LEMMA FromIs ==
  ASSUME NEW b \in Bufs, NEW x \in 0 .. UINT - 1, NEW d \in 0 .. INPUT_BUF_SIZE,
         NEW n \in 0 .. INPUT_BUF_SIZE, d + n <= INPUT_BUF_SIZE
  PROVE  Reads(From(b, x, d, n), b, x, d, n)
<1> DEFINE F == From(b, x, d, n)
           C == Stored \cup {"stale"}
<1>0. n \in Nat
  BY Sizes
<1>1. ASSUME NEW k \in 1 .. n PROVE Spot(x, d + k - 1) \in 0 .. INPUT_BUF_SIZE - 1
  <2>1. d + k - 1 \in 0 .. INPUT_BUF_SIZE
    BY Sizes
  <2> QED
    BY <2>1, SpotIs, Zenon
<1>2. F = [k \in 1 .. n |-> b[Spot(x, d + k - 1)]]
  BY DEF From
<1>3. \A k \in 1 .. n : F[k] = b[Spot(x, d + k - 1)] /\ F[k] \in C
  BY <1>1, <1>2, Zenon DEF Bufs
<1>4. F = [k \in 1 .. n |-> F[k]]
  BY <1>2, Zenon
<1> HIDE DEF F, C
<1>5. F \in Seq(C) /\ Len(F) = n
  BY <1>0, <1>3, <1>4
<1> QED
  BY <1>3, <1>5, Zenon DEF F, C, Reads

\* A slot outside of them is changed.
LEMMA FromSame ==
  ASSUME NEW b \in Bufs, NEW x \in 0 .. UINT - 1, NEW d \in 0 .. INPUT_BUF_SIZE,
         NEW n \in 0 .. INPUT_BUF_SIZE, d + n <= INPUT_BUF_SIZE,
         NEW m \in 0 .. INPUT_BUF_SIZE - 1, m < d \/ m >= d + n, NEW c,
         NEW a, SetAt(a, b, Spot(x, m), c)
  PROVE  From(a, x, d, n) = From(b, x, d, n)
<1>1. ASSUME NEW k \in 1 .. n
      PROVE  a[Spot(x, d + k - 1)] = b[Spot(x, d + k - 1)]
  <2>1. d + k - 1 \in 0 .. INPUT_BUF_SIZE - 1 /\ d + k - 1 # m /\ d + k - 1 \in 0 .. INPUT_BUF_SIZE
    BY Sizes
  <2>2. Spot(x, d + k - 1) # Spot(x, m)
    BY <2>1, SpotsDiffer, Zenon
  <2>3. Spot(x, d + k - 1) \in DOMAIN b
    BY <2>1, SpotIs, Zenon DEF Bufs
  <2> QED
    BY <2>2, <2>3, Zenon DEF SetAt
<1> QED
  BY <1>1, Zenon DEF From

\* A character is stored behind them.
LEMMA FromAppend ==
  ASSUME NEW b \in Bufs, NEW x \in 0 .. UINT - 1, NEW d \in 0 .. INPUT_BUF_SIZE,
         NEW n \in 0 .. INPUT_BUF_SIZE, d + n < INPUT_BUF_SIZE, NEW c \in Stored,
         NEW a, SetAt(a, b, Spot(x, d + n), c)
  PROVE  From(a, x, d, n + 1) = Append(From(b, x, d, n), c)
<1> DEFINE C == Stored \cup {"stale"}
           S == From(b, x, d, n)
           T == From(a, x, d, n + 1)
<1>0. /\ d + n <= INPUT_BUF_SIZE /\ n + 1 \in 0 .. INPUT_BUF_SIZE /\ d + (n + 1) <= INPUT_BUF_SIZE
      /\ d + n \in 0 .. INPUT_BUF_SIZE /\ d + n \in 0 .. INPUT_BUF_SIZE - 1 /\ (d + n < d \/ d + n >= d + n)
      /\ d + (n + 1) - 1 = d + n /\ n \in Nat /\ n + 1 \in 1 .. n + 1
  BY Sizes
<1>1. Spot(x, d + n) \in 0 .. INPUT_BUF_SIZE - 1
  BY <1>0, SpotIs, Zenon
<1>2. a \in Bufs
  BY <1>1 DEF Bufs, SetAt
<1>3. S \in Seq(C) /\ Len(S) = n /\ \A k \in 1 .. n : S[k] = b[Spot(x, d + k - 1)]
  <2>1. Reads(S, b, x, d, n)
    BY <1>0, FromIs, Zenon
  <2> QED
    BY <2>1, Zenon DEF Reads
<1>4. T \in Seq(C) /\ Len(T) = n + 1 /\ \A k \in 1 .. n + 1 : T[k] = a[Spot(x, d + k - 1)]
  <2>1. Reads(T, a, x, d, n + 1)
    BY <1>0, <1>2, FromIs, Zenon
  <2> QED
    BY <2>1, Zenon DEF Reads
<1>5. From(a, x, d, n) = S
  <2>1. PICK m : m = d + n
    OBVIOUS
  <2>2. /\ m \in 0 .. INPUT_BUF_SIZE - 1 /\ (m < d \/ m >= d + n)
        /\ SetAt(a, b, Spot(x, m), c)
    BY <1>0, <2>1, Zenon
  <2>3. d + n <= INPUT_BUF_SIZE
    BY <1>0
  <2> QED
    BY <2>2, <2>3, FromSame
<1>6. \A k \in 1 .. n : From(a, x, d, n)[k] = a[Spot(x, d + k - 1)]
  <2>1. Reads(From(a, x, d, n), a, x, d, n)
    BY <1>0, <1>2, FromIs, Zenon
  <2> QED
    BY <2>1, Zenon DEF Reads
<1>7. T[n + 1] = a[Spot(x, d + n)]
  <2>1. T[n + 1] = a[Spot(x, d + (n + 1) - 1)]
    BY <1>0, <1>4, Zenon
  <2> QED
    BY <1>0, <2>1, Zenon
<1>8. a[Spot(x, d + n)] = c
  BY <1>1, Zenon DEF Bufs, SetAt
<1> HIDE DEF S, T, C
<1>9. /\ Append(S, c) \in Seq(C) /\ Len(Append(S, c)) = n + 1
      /\ \A k \in 1 .. n : Append(S, c)[k] = S[k]
      /\ Append(S, c)[n + 1] = c
  BY <1>3, AppendProperties DEF C
<1>10. \A k \in 1 .. n + 1 : T[k] = Append(S, c)[k]
  <2>1. \A k \in 1 .. n + 1 : k \in 1 .. n \/ k = n + 1
    BY <1>0
  <2> QED
    BY <1>4, <1>5, <1>6, <1>7, <1>8, <1>9, <2>1, Zenon
<1>11. T = Append(S, c)
  BY <1>4, <1>9, <1>10, SeqEqual, Zenon
<1> QED
  BY <1>11, Zenon DEF S, T

\* The first is left out.
LEMMA FromTail ==
  ASSUME NEW b \in Bufs, NEW x \in 0 .. UINT - 1, NEW d \in 0 .. INPUT_BUF_SIZE,
         NEW n \in 1 .. INPUT_BUF_SIZE, d + n <= INPUT_BUF_SIZE
  PROVE  /\ From(b, x, d, n) # <<>>
         /\ From(b, x, d + 1, n - 1) = Tail(From(b, x, d, n))
<1> DEFINE C == Stored \cup {"stale"}
           S == From(b, x, d, n)
           T == From(b, x, d + 1, n - 1)
<1>0. /\ n \in 0 .. INPUT_BUF_SIZE /\ n - 1 \in 0 .. INPUT_BUF_SIZE
      /\ d + 1 \in 0 .. INPUT_BUF_SIZE /\ (d + 1) + (n - 1) <= INPUT_BUF_SIZE /\ n \in Int
  BY Sizes
<1>1. S \in Seq(C) /\ Len(S) = n /\ \A k \in 1 .. n : S[k] = b[Spot(x, d + k - 1)]
  <2>1. Reads(S, b, x, d, n)
    BY <1>0, FromIs, Zenon
  <2> QED
    BY <2>1, Zenon DEF Reads
<1>2. T \in Seq(C) /\ Len(T) = n - 1 /\ \A k \in 1 .. n - 1 : T[k] = b[Spot(x, (d + 1) + k - 1)]
  <2>1. Reads(T, b, x, d + 1, n - 1)
    BY <1>0, FromIs, Zenon
  <2> QED
    BY <2>1, Zenon DEF Reads
<1> HIDE DEF S, T, C
<1>3. S # <<>>
  BY <1>0, <1>1, EmptySeq
<1>4. /\ Tail(S) \in Seq(C) /\ Len(Tail(S)) = n - 1
      /\ \A k \in 1 .. n - 1 : Tail(S)[k] = S[k + 1]
  <2>1. /\ Tail(S) \in Seq(C) /\ Len(Tail(S)) = Len(S) - 1
        /\ \A i \in 1 .. Len(Tail(S)) : Tail(S)[i] = S[i + 1]
    BY <1>1, <1>3, HeadTailProperties, Zenon
  <2> QED
    BY <1>1, <2>1
<1>5. ASSUME NEW k \in 1 .. n - 1 PROVE T[k] = Tail(S)[k]
  <2>1. k + 1 \in 1 .. n /\ d + (k + 1) - 1 = (d + 1) + k - 1
    BY <1>0, Sizes
  <2>2. S[k + 1] = b[Spot(x, d + (k + 1) - 1)]
    BY <1>1, <2>1, Zenon
  <2> QED
    BY <1>2, <1>4, <2>1, <2>2, Zenon
<1>6. T = Tail(S)
  <2>1. Len(T) = Len(Tail(S)) /\ \A k \in 1 .. Len(T) : T[k] = Tail(S)[k]
    BY <1>2, <1>4, <1>5, Zenon
  <2> QED
    BY <1>2, <1>4, <2>1, SeqEqual, Zenon
<1> QED
  BY <1>3, <1>6, Zenon DEF S, T

\* The last is left out.
LEMMA FromFront ==
  ASSUME NEW b \in Bufs, NEW x \in 0 .. UINT - 1, NEW d \in 0 .. INPUT_BUF_SIZE,
         NEW n \in 1 .. INPUT_BUF_SIZE, d + n <= INPUT_BUF_SIZE
  PROVE  /\ From(b, x, d, n) # <<>>
         /\ From(b, x, d, n - 1) = SubSeq(From(b, x, d, n), 1, Len(From(b, x, d, n)) - 1)
<1> DEFINE C == Stored \cup {"stale"}
           S == From(b, x, d, n)
           T == From(b, x, d, n - 1)
<1>0. /\ n \in 0 .. INPUT_BUF_SIZE /\ n - 1 \in 0 .. INPUT_BUF_SIZE
      /\ d + (n - 1) <= INPUT_BUF_SIZE /\ n \in Int
  BY Sizes
<1>1. S \in Seq(C) /\ Len(S) = n /\ \A k \in 1 .. n : S[k] = b[Spot(x, d + k - 1)]
  <2>1. Reads(S, b, x, d, n)
    BY <1>0, FromIs, Zenon
  <2> QED
    BY <2>1, Zenon DEF Reads
<1>2. T \in Seq(C) /\ Len(T) = n - 1 /\ \A k \in 1 .. n - 1 : T[k] = b[Spot(x, d + k - 1)]
  <2>1. Reads(T, b, x, d, n - 1)
    BY <1>0, FromIs, Zenon
  <2> QED
    BY <2>1, Zenon DEF Reads
<1> HIDE DEF S, T, C
<1>3. S # <<>>
  BY <1>0, <1>1, EmptySeq
<1> DEFINE Z == SubSeq(S, 1, n - 1)
<1>4. /\ Z \in Seq(C) /\ Len(Z) = n - 1
      /\ \A k \in 1 .. n - 1 : Z[k] = S[k]
  <2>1. \A i \in 1 .. n - 1 : S[i] \in C
    BY <1>0, <1>1
  <2>2. /\ Z \in Seq(C) /\ Len(Z) = IF 1 <= n - 1 THEN (n - 1) - 1 + 1 ELSE 0
        /\ \A i \in 1 .. (n - 1) - 1 + 1 : Z[i] = S[1 + i - 1]
    BY <1>0, <2>1, SubSeqProperties
  <2> HIDE DEF Z
  <2>3. Len(Z) = n - 1 /\ (n - 1) - 1 + 1 = n - 1
    BY <1>0, <2>2, Sizes
  <2>4. \A k \in 1 .. n - 1 : 1 + k - 1 = k
    BY <1>0
  <2> QED
    BY <2>2, <2>3, <2>4, Zenon
<1> HIDE DEF Z
<1>5. \A k \in 1 .. n - 1 : T[k] = Z[k]
  <2>1. \A k \in 1 .. n - 1 : k \in 1 .. n
    BY <1>0
  <2> QED
    BY <1>1, <1>2, <1>4, <2>1, Zenon
<1>6. T = Z
  BY <1>2, <1>4, <1>5, SeqEqual, Zenon
<1> QED
  BY <1>1, <1>3, <1>6, Zenon DEF S, T, Z

\* Two parts that follow each other.
LEMMA FromCat ==
  ASSUME NEW b \in Bufs, NEW x \in 0 .. UINT - 1, NEW l \in 0 .. INPUT_BUF_SIZE,
         NEW n \in 0 .. INPUT_BUF_SIZE, l + n <= INPUT_BUF_SIZE
  PROVE  From(b, x, 0, l + n) = From(b, x, 0, l) \o From(b, x, l, n)
<1> DEFINE C == Stored \cup {"stale"}
           S == From(b, x, 0, l)
           T == From(b, x, l, n)
           U == From(b, x, 0, l + n)
<1>0. /\ 0 \in 0 .. INPUT_BUF_SIZE /\ l + n \in 0 .. INPUT_BUF_SIZE
      /\ 0 + l <= INPUT_BUF_SIZE /\ 0 + (l + n) <= INPUT_BUF_SIZE /\ l \in Int /\ n \in Int
  BY Sizes
<1>1. S \in Seq(C) /\ Len(S) = l /\ \A k \in 1 .. l : S[k] = b[Spot(x, 0 + k - 1)]
  <2>1. Reads(S, b, x, 0, l)
    BY <1>0, FromIs, Zenon
  <2> QED
    BY <2>1, Zenon DEF Reads
<1>2. T \in Seq(C) /\ Len(T) = n /\ \A k \in 1 .. n : T[k] = b[Spot(x, l + k - 1)]
  <2>1. Reads(T, b, x, l, n)
    BY <1>0, FromIs, Zenon
  <2> QED
    BY <2>1, Zenon DEF Reads
<1>3. U \in Seq(C) /\ Len(U) = l + n /\ \A k \in 1 .. l + n : U[k] = b[Spot(x, 0 + k - 1)]
  <2>1. Reads(U, b, x, 0, l + n)
    BY <1>0, FromIs, Zenon
  <2> QED
    BY <2>1, Zenon DEF Reads
<1> HIDE DEF S, T, U, C
<1>4. /\ S \o T \in Seq(C) /\ Len(S \o T) = l + n
      /\ \A i \in 1 .. l + n : (S \o T)[i] = IF i <= l THEN S[i] ELSE T[i - l]
  <2>1. S \in Seq(C) /\ T \in Seq(C) /\ Len(S) = l /\ Len(T) = n
    BY <1>1, <1>2, Zenon
  <2>2. /\ S \o T \in Seq(C) /\ Len(S \o T) = Len(S) + Len(T)
        /\ \A i \in 1 .. Len(S) + Len(T) : (S \o T)[i] = IF i <= Len(S) THEN S[i] ELSE T[i - Len(S)]
    <3>1. S \in Seq(C) /\ T \in Seq(C)
      BY <2>1, Zenon
    <3> QED
      BY <3>1, ConcatProperties, Zenon
  <2> QED
    BY <2>1, <2>2, Zenon
<1>5. ASSUME NEW k \in 1 .. l + n PROVE U[k] = (S \o T)[k]
  <2>1. CASE k <= l
    <3>1. k \in 1 .. l
      BY <1>0, <2>1
    <3> QED
      BY <1>1, <1>3, <1>4, <2>1, <3>1, Zenon
  <2>2. CASE ~(k <= l)
    <3>1. k - l \in 1 .. n /\ l + (k - l) - 1 = 0 + k - 1
      BY <1>0, <2>2
    <3>2. T[k - l] = b[Spot(x, l + (k - l) - 1)]
      BY <1>2, <3>1, Zenon
    <3> QED
      BY <1>3, <1>4, <2>2, <3>1, <3>2, Zenon
  <2> QED
    BY <2>1, <2>2, Zenon
<1>6. U = S \o T
  BY <1>3, <1>4, <1>5, SeqEqual, Zenon
<1> QED
  BY <1>6 DEF S, T, U

\* The place from which is counted moves on.
LEMMA FromNext ==
  ASSUME NEW b, NEW x \in 0 .. UINT - 1, NEW d \in 0 .. INPUT_BUF_SIZE,
         NEW n \in 0 .. INPUT_BUF_SIZE, NEW y, y = (x + 1) % UINT
  PROVE  From(b, y, d, n) = From(b, x, d + 1, n)
<1>0. UINT \in Nat /\ 1 \in 0 .. UINT /\ n \in Int /\ d \in Int
  BY Sizes
<1>1. y = IF x + 1 < UINT THEN x + 1 ELSE x + 1 - UINT
  BY <1>0, PlusIs
<1>2. ASSUME NEW k \in 1 .. n PROVE Spot(y, d + k - 1) = Spot(x, (d + 1) + k - 1)
  <2>1. PICK a \in Int : a = x + ((d + 1) + k - 1)
    BY <1>0
  <2>2. PICK v \in Int : v = y + (d + k - 1)
    BY <1>0, <1>1
  <2>3. v = a \/ v + UINT = a
    BY <1>0, <1>1, <2>1, <2>2
  <2>4. v % INPUT_BUF_SIZE = a % INPUT_BUF_SIZE
    BY <2>3, SpotWraps, Zenon
  <2> QED
    BY <2>1, <2>2, <2>4, Zenon DEF Spot
<1> QED
  BY <1>2, Zenon DEF From
\* What may be read and what is being edited are the first and the second part
\* of the characters from cons.r on.
LEMMA ViewIs ==
  ASSUME NEW b, NEW x \in 0 .. UINT - 1, NEW y \in 0 .. UINT - 1, NEW z \in 0 .. UINT - 1,
         NEW l, Gap(l, y, x), NEW h, Gap(h, z, x), l <= h, h <= INPUT_BUF_SIZE
  PROVE  /\ l \in 0 .. INPUT_BUF_SIZE /\ h \in 0 .. INPUT_BUF_SIZE /\ (z - y) % UINT = h - l
         /\ Ahead(z, x, h)
         /\ At(b, x, l) = From(b, x, 0, l)
         /\ At(b, y, (z - y) % UINT) = From(b, x, l, h - l)
<1>0. UINT \in Nat /\ INPUT_BUF_SIZE \in Nat /\ INPUT_BUF_SIZE < UINT
  BY Sizes
<1>1. l = IF y >= x THEN y - x ELSE y - x + UINT
  BY AheadIs DEF Gap
<1>2. h = IF z >= x THEN z - x ELSE z - x + UINT
  BY AheadIs DEF Gap
<1>3. PICK n : n = (z - y) % UINT
  OBVIOUS
<1>4. n = IF z >= y THEN z - y ELSE z - y + UINT
  BY <1>3, AheadIs
<1>5. l \in 0 .. INPUT_BUF_SIZE /\ h \in 0 .. INPUT_BUF_SIZE /\ n = h - l
  BY <1>0, <1>1, <1>2, <1>4
<1>6. /\ n \in 0 .. INPUT_BUF_SIZE /\ l + n <= INPUT_BUF_SIZE /\ 0 + l <= INPUT_BUF_SIZE
      /\ 0 \in 0 .. INPUT_BUF_SIZE /\ l \in 0 .. UINT /\ h \in 0 .. UINT /\ 0 \in 0 .. UINT
  BY <1>0, <1>5
<1>7. Ahead(x, x, 0)
  <2>1. (x + 0) % UINT = IF x + 0 < UINT THEN x + 0 ELSE x + 0 - UINT
    BY <1>6, PlusIs
  <2> QED
    BY <1>0, <2>1 DEF Ahead
<1>8. Ahead(y, x, l)
  <2>1. (x + l) % UINT = IF x + l < UINT THEN x + l ELSE x + l - UINT
    BY <1>6, PlusIs
  <2> QED
    BY <1>0, <1>1, <2>1 DEF Ahead
<1>9. Ahead(z, x, h)
  <2>1. (x + h) % UINT = IF x + h < UINT THEN x + h ELSE x + h - UINT
    BY <1>6, PlusIs
  <2> QED
    BY <1>0, <1>2, <2>1 DEF Ahead
<1>10. At(b, x, l) = From(b, x, 0, l)
  BY <1>5, <1>6, <1>7, HeldIs
<1>11. At(b, y, n) = From(b, x, l, n)
  BY <1>5, <1>6, <1>8, HeldIs
<1> QED
  BY <1>3, <1>5, <1>9, <1>10, <1>11, Zenon

Ready == Held(r, ReadyLen)
Line  == Held(w, (e - w) % UINT)

LEMMA ViewNow ==
  ASSUME RingOK
  PROVE  /\ ReadyLen \in 0 .. INPUT_BUF_SIZE /\ HeldLen \in 0 .. INPUT_BUF_SIZE
         /\ Ahead(e, r, HeldLen)
         /\ Ready = From(buf, r, 0, ReadyLen)
         /\ Line = From(buf, r, ReadyLen, HeldLen - ReadyLen)
<1>1. PICK l : l = ReadyLen
  OBVIOUS
<1>2. PICK h : h = HeldLen
  OBVIOUS
<1>3. /\ r \in 0 .. UINT - 1 /\ w \in 0 .. UINT - 1 /\ e \in 0 .. UINT - 1
      /\ Gap(l, w, r) /\ Gap(h, e, r) /\ l <= h /\ h <= INPUT_BUF_SIZE
  BY <1>1, <1>2 DEF RingOK, ReadyLen, HeldLen, Gap
<1>4. /\ l \in 0 .. INPUT_BUF_SIZE /\ h \in 0 .. INPUT_BUF_SIZE
      /\ Ahead(e, r, h)
      /\ At(buf, r, l) = From(buf, r, 0, l)
      /\ At(buf, w, (e - w) % UINT) = From(buf, r, l, h - l)
  BY <1>3, ViewIs
<1> QED
  BY <1>1, <1>2, <1>4, Zenon DEF Ready, Line, Held, At

LEMMA ViewNext ==
  ASSUME RingOK'
  PROVE  /\ Ready' = From(buf', r', 0, ReadyLen')
         /\ Line' = From(buf', r', ReadyLen', HeldLen' - ReadyLen')
<1>1. PICK l : l = ReadyLen'
  OBVIOUS
<1>2. PICK h : h = HeldLen'
  OBVIOUS
<1>3. /\ r' \in 0 .. UINT - 1 /\ w' \in 0 .. UINT - 1 /\ e' \in 0 .. UINT - 1
      /\ Gap(l, w', r') /\ Gap(h, e', r') /\ l <= h /\ h <= INPUT_BUF_SIZE
  BY <1>1, <1>2 DEF RingOK, ReadyLen, HeldLen, Gap
<1>4. /\ At(buf', r', l) = From(buf', r', 0, l)
      /\ At(buf', w', (e' - w') % UINT) = From(buf', r', l, h - l)
  BY <1>3, ViewIs
<1> QED
  BY <1>1, <1>2, <1>4, Zenon DEF Ready, Line, Held, At
\* consoleread() takes the first character that may be read.
LEMMA EatTakes ==
  ASSUME RingOK, RingOK', Eat
  PROVE  Ready # <<>> /\ Ready' = Tail(Ready) /\ Line' = Line
<1>1. /\ buf \in Bufs /\ r \in 0 .. UINT - 1 /\ r # w
      /\ r' = (r + 1) % UINT /\ SetAt(buf', buf, Slot(r), "stale")
  BY DEF Eat, Consume, RingOK, Bufs, SetAt
<1>2. PICK l : l = ReadyLen
  OBVIOUS
<1>3. PICK h : h = HeldLen
  OBVIOUS
<1>4. /\ l \in 0 .. INPUT_BUF_SIZE /\ h \in 0 .. INPUT_BUF_SIZE /\ l <= h
      /\ Ready = From(buf, r, 0, l) /\ Line = From(buf, r, l, h - l)
  BY <1>2, <1>3, ViewNow, Zenon DEF RingOK
<1>5. ReadyLen' = l - 1 /\ HeldLen' = h - 1
  <2>1. /\ (w - ((r + 1) % UINT)) % UINT = ((w - r) % UINT) - 1
        /\ (e - ((r + 1) % UINT)) % UINT = ((e - r) % UINT) - 1
    BY AfterRead, Zenon DEF Eat, RingOK, ReadyLen, HeldLen
  <2> QED
    BY <1>2, <1>3, <2>1 DEF Eat, Consume, ReadyLen, HeldLen
<1>6. l > 0
  <2>1. l = IF w >= r THEN w - r ELSE w - r + UINT
    BY <1>2, AheadIs, Zenon DEF RingOK, ReadyLen
  <2> QED
    BY <1>1, <2>1, Sizes DEF RingOK
<1>7. Slot(r) = Spot(r, 0)
  BY <1>1, Sizes DEF Slot, Spot
<1>8. /\ l \in 1 .. INPUT_BUF_SIZE /\ l - 1 \in 0 .. INPUT_BUF_SIZE /\ h - l \in 0 .. INPUT_BUF_SIZE
      /\ 0 \in 0 .. INPUT_BUF_SIZE /\ 1 \in 0 .. INPUT_BUF_SIZE /\ 0 \in 0 .. INPUT_BUF_SIZE - 1
      /\ 0 + 1 = 1 /\ (l - 1) + 1 = l /\ (h - 1) - (l - 1) = h - l
      /\ 0 < 1 /\ 0 < l /\ 0 + l <= INPUT_BUF_SIZE
      /\ 1 + (l - 1) <= INPUT_BUF_SIZE /\ l + (h - l) <= INPUT_BUF_SIZE
  BY <1>4, <1>6, Sizes
<1>9. Ready' = From(buf', r', 0, l - 1) /\ Line' = From(buf', r', l - 1, h - l)
  <2>1. /\ Ready' = From(buf', r', 0, ReadyLen')
        /\ Line' = From(buf', r', ReadyLen', HeldLen' - ReadyLen')
    BY ViewNext
  <2> QED
    BY <1>5, <1>8, <2>1, Zenon
<1>10. Ready' = From(buf', r, 1, l - 1)
  <2>1. From(buf', r', 0, l - 1) = From(buf', r, 0 + 1, l - 1)
    BY <1>1, <1>8, FromNext
  <2> QED
    BY <1>8, <1>9, <2>1, Zenon
<1>11. Line' = From(buf', r, l, h - l)
  <2>1. From(buf', r', l - 1, h - l) = From(buf', r, (l - 1) + 1, h - l)
    BY <1>1, <1>8, FromNext
  <2> QED
    BY <1>8, <1>9, <2>1, Zenon
<1>12. SetAt(buf', buf, Spot(r, 0), "stale")
  BY <1>1, <1>7, Zenon
<1>13. From(buf', r, 1, l - 1) = From(buf, r, 1, l - 1)
  BY <1>1, <1>8, <1>12, FromSame
<1>14. From(buf', r, l, h - l) = From(buf, r, l, h - l)
  BY <1>1, <1>4, <1>8, <1>12, FromSame
<1>15. From(buf, r, 0, l) # <<>> /\ From(buf, r, 0 + 1, l - 1) = Tail(From(buf, r, 0, l))
  BY <1>1, <1>8, FromTail, Zenon
<1> QED
  BY <1>4, <1>8, <1>10, <1>11, <1>13, <1>14, <1>15, Zenon

\* Backspace, DEL and ^U take back the last character of the unfinished line.
LEMMA EraseErases ==
  ASSUME RingOK, RingOK', IntrErase
  PROVE  Line # <<>> /\ Line' = SubSeq(Line, 1, Len(Line) - 1) /\ Ready' = Ready
<1>1. /\ buf \in Bufs /\ r \in 0 .. UINT - 1 /\ w \in 0 .. UINT - 1 /\ e \in 0 .. UINT - 1 /\ e # w
      /\ r' = r /\ w' = w /\ e' = (e - 1) % UINT /\ SetAt(buf', buf, Slot(e - 1), "stale")
  BY Zenon DEF IntrErase, MayErase, RingOK, Bufs, SetAt
<1>2. PICK l : l = ReadyLen
  OBVIOUS
<1>3. PICK h : h = HeldLen
  OBVIOUS
<1>4. /\ l \in 0 .. INPUT_BUF_SIZE /\ h \in 0 .. INPUT_BUF_SIZE /\ l <= h /\ Ahead(e, r, h)
      /\ Ready = From(buf, r, 0, l) /\ Line = From(buf, r, l, h - l)
  BY <1>2, <1>3, ViewNow, Zenon DEF RingOK
<1>5. ReadyLen' = l /\ HeldLen' = h - 1 /\ l <= h - 1
  <2>1. /\ (((e - 1) % UINT) - r) % UINT = ((e - r) % UINT) - 1
        /\ (w - r) % UINT <= ((e - r) % UINT) - 1
    BY <1>1, AfterErase, Zenon DEF RingOK, ReadyLen, HeldLen
  <2> QED
    BY <1>1, <1>2, <1>3, <2>1, Zenon DEF ReadyLen, HeldLen
<1>6. Slot(e - 1) = Spot(r, h - 1)
  <2>1. PICK a \in Int : a = r + (h - 1)
    BY <1>1, <1>4
  <2>2. PICK d \in Int : d = e - 1
    BY <1>1
  <2>3. e = IF r + h < UINT THEN r + h ELSE r + h - UINT
    <3>1. h \in 0 .. UINT
      BY <1>4, Sizes
    <3> QED
      BY <1>1, <1>4, <3>1, PlusIs, Zenon DEF Ahead
  <2>4. d = a \/ d + UINT = a
    BY <1>1, <1>4, <2>1, <2>2, <2>3, Sizes
  <2>5. d % INPUT_BUF_SIZE = a % INPUT_BUF_SIZE
    BY <2>4, SpotWraps, Zenon
  <2> QED
    BY <2>1, <2>2, <2>5, Zenon DEF Slot, Spot
<1>7. /\ h - l \in 1 .. INPUT_BUF_SIZE /\ h - 1 \in 0 .. INPUT_BUF_SIZE - 1
      /\ (h - 1) - l \in 0 .. INPUT_BUF_SIZE /\ (h - l) - 1 = (h - 1) - l
      /\ 0 \in 0 .. INPUT_BUF_SIZE /\ 0 + l <= INPUT_BUF_SIZE
      /\ l + (h - l) <= INPUT_BUF_SIZE /\ l + ((h - 1) - l) <= INPUT_BUF_SIZE
      /\ h - 1 >= 0 + l /\ h - 1 >= l + ((h - 1) - l)
  BY <1>4, <1>5, Sizes
<1>8. Ready' = From(buf', r, 0, l) /\ Line' = From(buf', r, l, (h - 1) - l)
  <2>1. /\ Ready' = From(buf', r', 0, ReadyLen')
        /\ Line' = From(buf', r', ReadyLen', HeldLen' - ReadyLen')
    BY ViewNext
  <2> QED
    BY <1>1, <1>5, <2>1, Zenon
<1>9. SetAt(buf', buf, Spot(r, h - 1), "stale")
  BY <1>1, <1>6, Zenon
<1>10. From(buf', r, 0, l) = From(buf, r, 0, l)
  BY <1>1, <1>4, <1>7, <1>9, FromSame
<1>11. From(buf', r, l, (h - 1) - l) = From(buf, r, l, (h - 1) - l)
  BY <1>1, <1>4, <1>7, <1>9, FromSame
<1>12. /\ From(buf, r, l, h - l) # <<>>
       /\ From(buf, r, l, (h - l) - 1)
            = SubSeq(From(buf, r, l, h - l), 1, Len(From(buf, r, l, h - l)) - 1)
  BY <1>1, <1>4, <1>7, FromFront, Zenon
<1> QED
  BY <1>4, <1>7, <1>8, <1>10, <1>11, <1>12, Zenon

\* A character that is stored ends the unfinished line, which may then be read,
\* or is appended to it.
LEMMA StoreTypes ==
  ASSUME RingOK, RingOK', StoreInv, IntrStore
  PROVE  Char \in Stored /\ Lines!Type(Char)
<1>1. /\ buf \in Bufs /\ r \in 0 .. UINT - 1 /\ e \in 0 .. UINT - 1 /\ hpc = "store"
      /\ r' = r /\ e' = (e + 1) % UINT /\ SetAt(buf', buf, Slot(e), Char)
  BY Zenon DEF IntrStore, RingOK, Bufs, SetAt
<1>2. PICK l : l = ReadyLen
  OBVIOUS
<1>3. PICK h : h = HeldLen
  OBVIOUS
<1>4. /\ l \in 0 .. INPUT_BUF_SIZE /\ h \in 0 .. INPUT_BUF_SIZE /\ l <= h /\ Ahead(e, r, h)
      /\ Ready = From(buf, r, 0, l) /\ Line = From(buf, r, l, h - l)
  BY <1>2, <1>3, ViewNow, Zenon DEF RingOK
<1>5. h < INPUT_BUF_SIZE /\ Char \in Stored
  BY <1>1, <1>3 DEF StoreInv
<1>6. HeldLen' = h + 1 /\ (e + 1 - r) % UINT = h + 1
  <2>1. /\ (((e + 1) % UINT) - r) % UINT = ((e - r) % UINT) + 1
        /\ (e + 1 - r) % UINT = ((e - r) % UINT) + 1
    BY <1>1, <1>3, <1>5, AfterStore, Zenon DEF HeldLen
  <2> QED
    BY <1>1, <1>3, <2>1 DEF HeldLen
<1>7. Slot(e) = Spot(r, h)
  <2>1. PICK a \in Int : a = r + h
    BY <1>1, <1>4
  <2>2. e = IF r + h < UINT THEN r + h ELSE r + h - UINT
    <3>1. h \in 0 .. UINT
      BY <1>4, Sizes
    <3> QED
      BY <1>1, <1>4, <3>1, PlusIs, Zenon DEF Ahead
  <2>3. e \in Int /\ (e = a \/ e + UINT = a)
    BY <1>1, <1>4, <2>1, <2>2, Sizes
  <2>4. e % INPUT_BUF_SIZE = a % INPUT_BUF_SIZE
    BY <2>3, SpotWraps, Zenon
  <2> QED
    BY <2>1, <2>4, Zenon DEF Slot, Spot
<1>8. /\ h - l \in 0 .. INPUT_BUF_SIZE /\ h \in 0 .. INPUT_BUF_SIZE - 1
      /\ l + (h - l) = h /\ l + (h - l) < INPUT_BUF_SIZE /\ l + (h - l) <= INPUT_BUF_SIZE
      /\ (h - l) + 1 \in 0 .. INPUT_BUF_SIZE /\ l + ((h - l) + 1) = h + 1
      /\ (h + 1) - l = (h - l) + 1 /\ l + ((h - l) + 1) <= INPUT_BUF_SIZE
      /\ (h + 1) - (h + 1) = 0 /\ 0 \in 0 .. INPUT_BUF_SIZE /\ 0 + l <= INPUT_BUF_SIZE
      /\ h >= 0 + l /\ h + 1 \in 0 .. INPUT_BUF_SIZE /\ (h + 1) + 0 <= INPUT_BUF_SIZE
  BY <1>4, <1>5, Sizes
<1>9. /\ Ready' = From(buf', r, 0, ReadyLen')
      /\ Line' = From(buf', r, ReadyLen', (h + 1) - ReadyLen')
  <2>1. /\ Ready' = From(buf', r', 0, ReadyLen')
        /\ Line' = From(buf', r', ReadyLen', HeldLen' - ReadyLen')
    BY ViewNext
  <2> QED
    BY <1>1, <1>6, <2>1, Zenon
<1>10. SetAt(buf', buf, Spot(r, h), Char)
  BY <1>1, <1>7, Zenon
<1>11. buf' \in Bufs
  BY DEF RingOK, Bufs
<1>12. From(buf', r, 0, l) = From(buf, r, 0, l)
  BY <1>1, <1>4, <1>8, <1>10, FromSame
<1>13. From(buf', r, l, (h - l) + 1) = Append(From(buf, r, l, h - l), Char)
  <2>1. PICK n : n = h - l
    OBVIOUS
  <2>2. SetAt(buf', buf, Spot(r, l + n), Char)
    BY <1>8, <1>10, <2>1, Zenon
  <2>3. /\ buf \in Bufs /\ r \in 0 .. UINT - 1 /\ l \in 0 .. INPUT_BUF_SIZE
        /\ n \in 0 .. INPUT_BUF_SIZE /\ l + n < INPUT_BUF_SIZE /\ Char \in Stored
    BY <1>1, <1>4, <1>5, <1>8, <2>1, Zenon
  <2>4. From(buf', r, l, n + 1) = Append(From(buf, r, l, n), Char)
    BY <2>2, <2>3, FromAppend
  <2> QED
    BY <2>1, <2>4, Zenon
<1>14. Len(Ready) = l /\ Len(Line) = h - l
  <2>1. PICK n : n = h - l
    OBVIOUS
  <2>2. /\ buf \in Bufs /\ r \in 0 .. UINT - 1 /\ l \in 0 .. INPUT_BUF_SIZE
        /\ n \in 0 .. INPUT_BUF_SIZE /\ l + n <= INPUT_BUF_SIZE
        /\ 0 \in 0 .. INPUT_BUF_SIZE /\ 0 + l <= INPUT_BUF_SIZE
    BY <1>1, <1>4, <1>8, <2>1, Zenon
  <2>3. Len(From(buf, r, 0, l)) = l /\ Len(From(buf, r, l, n)) = n
    <3>1. Reads(From(buf, r, 0, l), buf, r, 0, l)
      BY <2>2, FromIs, Zenon
    <3>2. Reads(From(buf, r, l, n), buf, r, l, n)
      BY <2>2, FromIs, Zenon
    <3> QED
      BY <3>1, <3>2, Zenon DEF Reads
  <2> QED
    BY <1>4, <2>1, <2>3, Zenon
<1>15. CASE Char \in {"nl", "^D"} \/ h + 1 = INPUT_BUF_SIZE
  <2>1. EndsLine((e + 1 - r) % UINT)
    BY <1>6, <1>15 DEF EndsLine
  <2>2. w' = e'
    BY <1>1, <2>1, Zenon DEF IntrStore
  <2>3. ReadyLen' = h + 1
    BY <1>6, <2>2 DEF ReadyLen, HeldLen
  <2>4. Ready' = From(buf', r, 0, l + ((h - l) + 1)) /\ Line' = From(buf', r, h + 1, 0)
    BY <1>8, <1>9, <2>3, Zenon
  <2>5. Ready' = From(buf', r, 0, l) \o From(buf', r, l, (h - l) + 1)
    <3>1. From(buf', r, 0, l + ((h - l) + 1)) = From(buf', r, 0, l) \o From(buf', r, l, (h - l) + 1)
      <4>1. PICK n : n = (h - l) + 1
        OBVIOUS
      <4>2. /\ buf' \in Bufs /\ r \in 0 .. UINT - 1 /\ l \in 0 .. INPUT_BUF_SIZE
            /\ n \in 0 .. INPUT_BUF_SIZE /\ l + n <= INPUT_BUF_SIZE
        BY <1>1, <1>4, <1>8, <1>11, <4>1, Zenon
      <4>3. From(buf', r, 0, l + n) = From(buf', r, 0, l) \o From(buf', r, l, n)
        BY <4>2, FromCat, Zenon
      <4> QED
        BY <4>1, <4>3, Zenon
    <3> QED
      BY <2>4, <3>1, Zenon
  <2>6. Ready' = Ready \o Append(Line, Char)
    BY <1>4, <1>12, <1>13, <2>5, Zenon
  <2>7. Line' = <<>>
    <3>1. From(buf', r, h + 1, 0) \in Seq(Stored \cup {"stale"}) /\ Len(From(buf', r, h + 1, 0)) = 0
      <4>1. PICK d : d = h + 1
        OBVIOUS
      <4>2. /\ buf' \in Bufs /\ r \in 0 .. UINT - 1 /\ d \in 0 .. INPUT_BUF_SIZE
            /\ 0 \in 0 .. INPUT_BUF_SIZE /\ d + 0 <= INPUT_BUF_SIZE
        BY <1>1, <1>8, <1>11, <4>1, Zenon
      <4>3. From(buf', r, d, 0) \in Seq(Stored \cup {"stale"}) /\ Len(From(buf', r, d, 0)) = 0
        <5>1. Reads(From(buf', r, d, 0), buf', r, d, 0)
          BY <4>2, FromIs, Zenon
        <5> QED
          BY <5>1, Zenon DEF Reads
      <4> QED
        BY <4>1, <4>3, Zenon
    <3> QED
      BY <2>4, <3>1, EmptySeq
  <2>8. Len(Ready) + Len(Line) < INPUT_BUF_SIZE /\ Len(Ready) + Len(Line) + 1 = h + 1
    BY <1>4, <1>5, <1>14, Sizes
  <2> QED
    BY <1>5, <1>15, <2>6, <2>7, <2>8, Zenon DEF Lines!Type, Lines!Room, Ready, Line
<1>16. CASE ~(Char \in {"nl", "^D"} \/ h + 1 = INPUT_BUF_SIZE)
  <2>1. ~EndsLine((e + 1 - r) % UINT)
    BY <1>6, <1>16 DEF EndsLine
  <2>2. w' = w
    BY <1>1, <2>1, Zenon DEF IntrStore
  <2>3. ReadyLen' = l
    BY <1>1, <1>2, <2>2 DEF ReadyLen
  <2>4. Ready' = Ready /\ Line' = Append(Line, Char)
    BY <1>4, <1>8, <1>9, <1>12, <1>13, <2>3, Zenon
  <2>5. Len(Ready) + Len(Line) < INPUT_BUF_SIZE /\ Len(Ready) + Len(Line) + 1 = h + 1
    BY <1>4, <1>5, <1>14, Sizes
  <2> QED
    BY <1>5, <1>16, <2>4, <2>5, Zenon DEF Lines!Type, Lines!Room, Ready, Line
<1> QED
  BY <1>15, <1>16

\* The console implements LineInput: what is typed is read line by line, in
\* order and once, for any buffer and any word size that it divides.
THEOREM LineTheorem == Spec => LineByLine
<1>1. Init => Lines!LineInit
  <2> SUFFICES ASSUME Init PROVE Lines!LineInit
    OBVIOUS
  <2>1. RingOK /\ buf \in Bufs /\ r \in 0 .. UINT - 1
    BY ConsoleStart DEF ConsoleInv, RingOK, Bufs
  <2>2. ReadyLen = 0 /\ HeldLen = 0
    <3>1. 0 \in 0 .. UINT - 1
      BY Sizes
    <3> QED
      BY <3>1, AheadIs DEF Init, ReadyLen, HeldLen
  <2>3. Ready = From(buf, r, 0, 0) /\ Line = From(buf, r, 0, 0)
    BY <2>1, <2>2, ViewNow
  <2>4. From(buf, r, 0, 0) \in Seq(Stored \cup {"stale"}) /\ Len(From(buf, r, 0, 0)) = 0
    <3>1. /\ buf \in Bufs /\ r \in 0 .. UINT - 1 /\ 0 \in 0 .. INPUT_BUF_SIZE
          /\ 0 + 0 <= INPUT_BUF_SIZE
      BY <2>1, Sizes
    <3>2. Reads(From(buf, r, 0, 0), buf, r, 0, 0)
      BY <3>1, FromIs, Zenon
    <3> QED
      BY <3>2, Zenon DEF Reads
  <2>5. From(buf, r, 0, 0) = <<>>
    BY <2>4, EmptySeq
  <2> QED
    BY <2>3, <2>5 DEF Lines!LineInit, Ready, Line
<1>2. ASSUME ConsoleInv, [Next]_vars PROVE Lines!LineNext \/ UNCHANGED Lines!lineVars
  <2>1. RingOK /\ StoreInv /\ RingOK'
    BY <1>2, RingStep DEF ConsoleInv
  <2>2. CASE UNCHANGED cons
    BY <2>2, Zenon DEF cons, Lines!lineVars, Held, ReadyLen
  <2>3. CASE Eat
    BY <2>1, <2>3, EatTakes DEF Lines!LineNext, Lines!Take, Ready, Line
  <2>4. CASE IntrErase
    BY <2>1, <2>4, EraseErases DEF Lines!LineNext, Lines!Erase, Ready, Line
  <2>5. CASE IntrStore
    BY <2>1, <2>5, StoreTypes DEF Lines!LineNext
  <2> QED
    BY <1>2, <2>2, <2>3, <2>4, <2>5, BufferSteps
<1> QED
  BY <1>1, <1>2, ConsoleInvariant, PTL DEF Spec, LineByLine, Lines!LineSpec
=============================================================================
