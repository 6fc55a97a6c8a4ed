------------------------------ MODULE Console -------------------------------
(***************************************************************************)
(* The console: the line editor of kernel/console.c, the 16550 driver of   *)
(* kernel/uart.c, and the UART itself as the driver uses it (external).    *)
(*                                                                         *)
(* Who runs.  Processes read and write the console.  uartintr() runs on    *)
(* one CPU at a time: the PLIC holds the next interrupt of the UART back   *)
(* until plic_complete().  printf() runs on any CPU, one at a time         *)
(* (pr.lock).  An echoed or printed byte goes out through uartputc_sync(), *)
(* which neither takes tx_lock nor looks at tx_busy.                       *)
(*                                                                         *)
(* Bytes in the FIFOs of the UART are counted: which character was typed   *)
(* is chosen when uartgetc() reads it.  A slot of cons.buf that was read   *)
(* or erased counts as "stale", whatever it still holds: a step that used  *)
(* it again would show.  cons.r, cons.w and cons.e are unsigned and wrap   *)
(* at UINT.                                                                *)
(***************************************************************************)
EXTENDS Integers, Sequences, FiniteSets

CONSTANTS
  Readers, Writers,  \* processes that read, and that write, the console
  None, Handler,     \* no holder of a lock; uartintr() as a holder
  Plain, Keys,       \* characters without a special meaning; those typed
  INPUT_BUF_SIZE, UINT,
  BATCH,             \* size of the buffer of consolewrite()
  RXFIFO,            \* bound: characters received and not yet read
  ReadLens, WriteLens,  \* bounds: the values of n in a read() or write()
  Mortal             \* bound: the processes that may be killed

Procs == Readers \cup Writers

ASSUME ConsoleAssumption ==
  /\ IsFiniteSet(Procs) /\ None \notin Procs /\ Handler \notin Procs /\ None # Handler
  /\ INPUT_BUF_SIZE \in Nat \ {0} /\ UINT \in Nat
  /\ INPUT_BUF_SIZE < UINT /\ UINT % INPUT_BUF_SIZE = 0
  /\ BATCH \in Nat \ {0} /\ RXFIFO \in Nat /\ ReadLens \cup WriteLens \subseteq Nat /\ Mortal \subseteq Procs
  /\ Plain \cap {"nul", "^P", "^U", "^H", "del", "cr", "nl", "^D"} = {}
  /\ Keys \subseteq Plain \cup {"nul", "^P", "^U", "^H", "del", "cr", "nl", "^D"}

Stored  == Plain \cup {"nl", "^D"}        \* what cons.buf can hold

ReadPCs  == {"rcall", "rloop", "rsleep"}
WritePCs == {"wcopy", "wlock", "wloop", "wsleep"}
PCs      == {"idle"} \cup ReadPCs \cup WritePCs
IntrPCs  == {"idle", "tx", "get", "switch", "echo", "put", "store"}
PrintPCs == {"idle", "put"}

VARIABLES
  buf, r, w, e,        \* cons
  conslock, txlock,    \* holders of cons.lock and of tx_lock
  tx_busy,
  rx, thr, thri,       \* UART: bytes received, bytes to send, transmit interrupt
  hpc, key, echo,      \* uartintr(): where it is, its c, bytes left to echo
  prt,                 \* where a printf() is
  pc, cnt, lim,        \* processes; progress and end of a read() or write()
  nn,                  \* bytes left of the batch of a write()
  killed

cons  == <<buf, r, w, e>>
uart  == <<rx, thr, thri>>
intr  == <<hpc, key, echo>>
calls == <<cnt, lim, nn>>
vars  == <<cons, conslock, txlock, tx_busy, uart, intr, prt, pc, calls, killed>>

\* consoleinit() and uartinit() are done.
Init ==
  /\ buf = [i \in 0 .. INPUT_BUF_SIZE - 1 |-> "stale"] /\ r = 0 /\ w = 0 /\ e = 0
  /\ conslock = None /\ txlock = None /\ tx_busy = FALSE
  /\ rx = 0 /\ thr = 0 /\ thri = TRUE
  /\ hpc = "idle" /\ key = "nul" /\ echo = 0 /\ prt = "idle"
  /\ pc = [p \in Procs |-> "idle"] /\ killed = [p \in Procs |-> FALSE]
  /\ cnt = [p \in Procs |-> 0] /\ lim = [p \in Procs |-> 0] /\ nn = [p \in Procs |-> 0]

Goto(p, where) == pc' = [pc EXCEPT ![p] = where]

AwakeNone(asleep, where) == UNCHANGED pc                          \* mutant

\* wakeup(&cons.r), wakeup(&tx_chan)
Awake(asleep, where) == pc' = [p \in Procs |-> IF pc[p] = asleep THEN where ELSE pc[p]]

-----------------------------------------------------------------------------
(* The UART (external) *)

\* The user types a character.
Receive ==
  /\ rx < RXFIFO
  /\ rx' = rx + 1
  /\ UNCHANGED <<cons, conslock, txlock, tx_busy, thr, thri, intr, prt, pc, calls, killed>>

\* A byte leaves; with the last one the UART asks for more.
Send ==
  /\ thr > 0
  /\ thr' = thr - 1 /\ thri' = (thr = 1)
  /\ UNCHANGED <<cons, conslock, txlock, tx_busy, rx, intr, prt, pc, calls, killed>>

TxIdle == thr = 0                                 \* LSR_TX_IDLE

\* WriteReg(THR, c): a byte is queued, the request for more is withdrawn.
WriteTHR == thr' = thr + 1 /\ thri' = FALSE /\ UNCHANGED rx

-----------------------------------------------------------------------------
(* printf(): uartputc_sync() *)

\* It has found the UART idle; it writes.
PrintWait ==
  /\ prt = "idle" /\ TxIdle /\ prt' = "put"
  /\ UNCHANGED <<cons, conslock, txlock, tx_busy, uart, intr, pc, calls, killed>>

PrintPut ==
  /\ prt = "put" /\ WriteTHR /\ prt' = "idle"
  /\ UNCHANGED <<cons, conslock, txlock, tx_busy, intr, pc, calls, killed>>

-----------------------------------------------------------------------------
(* write(): consolewrite() and uartwrite() *)

Write(p, n) ==
  /\ p \in Writers /\ pc[p] = "idle"
  /\ Goto(p, "wcopy")
  /\ lim' = [lim EXCEPT ![p] = n]
  /\ UNCHANGED <<cons, conslock, txlock, tx_busy, uart, intr, prt, cnt, nn, killed>>

\* The call returns; a killed process ends, and another one takes its place.
Finish(p) ==
  /\ Goto(p, "idle")
  /\ cnt' = [cnt EXCEPT ![p] = 0] /\ lim' = [lim EXCEPT ![p] = 0]
  /\ killed' = [killed EXCEPT ![p] = FALSE]

\* The loop of consolewrite() ends, or either_copyin() fails.
WriteReturn(p) ==
  /\ pc[p] = "wcopy" /\ Finish(p)
  /\ UNCHANGED <<cons, conslock, txlock, tx_busy, uart, intr, prt, nn>>

\* A batch is copied; uartwrite() begins.
WriteBatch(p) ==
  /\ pc[p] = "wcopy" /\ cnt[p] < lim[p] /\ txlock = None
  /\ nn' = [nn EXCEPT ![p] = IF BATCH > lim[p] - cnt[p] THEN lim[p] - cnt[p] ELSE BATCH]
  /\ txlock' = p /\ Goto(p, "wloop")
  /\ UNCHANGED <<cons, conslock, tx_busy, uart, intr, prt, cnt, lim, killed>>

\* acquire(&tx_lock) in sleep(), after a wakeup.
WriteLock(p) ==
  /\ pc[p] = "wlock" /\ txlock = None
  /\ txlock' = p /\ Goto(p, "wloop")
  /\ UNCHANGED <<cons, conslock, tx_busy, uart, intr, prt, calls, killed>>

\* sleep(&tx_chan, &tx_lock); killed() is not looked at.
WriteSleep(p) ==
  /\ pc[p] = "wloop" /\ nn[p] > 0 /\ tx_busy
  /\ txlock' = None /\ Goto(p, "wsleep")
  /\ UNCHANGED <<cons, conslock, tx_busy, uart, intr, prt, calls, killed>>

\* mutant: tx_busy is forgotten
WriteByteIdle(p) ==
  /\ pc[p] = "wloop" /\ nn[p] > 0 /\ ~tx_busy
  /\ WriteTHR
  /\ nn' = [nn EXCEPT ![p] = @ - 1] /\ cnt' = [cnt EXCEPT ![p] = @ + 1]
  /\ UNCHANGED <<cons, conslock, txlock, tx_busy, intr, prt, pc, lim, killed>>

WriteByte(p) ==
  /\ pc[p] = "wloop" /\ nn[p] > 0 /\ ~tx_busy
  /\ WriteTHR /\ tx_busy' = TRUE
  /\ nn' = [nn EXCEPT ![p] = @ - 1] /\ cnt' = [cnt EXCEPT ![p] = @ + 1]
  /\ UNCHANGED <<cons, conslock, txlock, intr, prt, pc, lim, killed>>

WriteUnlock(p) ==
  /\ pc[p] = "wloop" /\ nn[p] = 0
  /\ txlock' = None /\ Goto(p, "wcopy")
  /\ UNCHANGED <<cons, conslock, tx_busy, uart, intr, prt, calls, killed>>

-----------------------------------------------------------------------------
(* read(): consoleread() *)

Read(p, n) ==
  /\ p \in Readers /\ pc[p] = "idle" /\ conslock = None
  /\ conslock' = p /\ Goto(p, "rloop")
  /\ lim' = [lim EXCEPT ![p] = n]
  /\ UNCHANGED <<cons, txlock, tx_busy, uart, intr, prt, cnt, nn, killed>>

\* acquire(&cons.lock) in sleep(), after a wakeup.
ReadLock(p) ==
  /\ pc[p] = "rcall" /\ conslock = None
  /\ conslock' = p /\ Goto(p, "rloop")
  /\ UNCHANGED <<cons, txlock, tx_busy, uart, intr, prt, calls, killed>>

Reading(p) == pc[p] = "rloop" /\ cnt[p] < lim[p]

ReadFail(p) ==
  /\ Reading(p) /\ r = w /\ killed[p]
  /\ conslock' = None /\ Finish(p)
  /\ UNCHANGED <<cons, txlock, tx_busy, uart, intr, prt, nn>>

\* sleep(&cons.r, &cons.lock)
ReadSleep(p) ==
  /\ Reading(p) /\ r = w /\ ~killed[p]
  /\ conslock' = None /\ Goto(p, "rsleep")
  /\ UNCHANGED <<cons, txlock, tx_busy, uart, intr, prt, calls, killed>>

Slot(i) == i % INPUT_BUF_SIZE
Front   == buf[Slot(r)]

\* cons.r++
Consume == r' = (r + 1) % UINT /\ buf' = [buf EXCEPT ![Slot(r)] = "stale"]

\* A character for the caller; after a newline the read is over.
ReadChar(p) ==
  /\ Reading(p) /\ r # w /\ Front # "^D"
  /\ Consume
  /\ \/ Front = "nl" /\ conslock' = None /\ Finish(p)
     \/ /\ Front # "nl"
        /\ cnt' = [cnt EXCEPT ![p] = @ + 1] /\ UNCHANGED <<conslock, pc, lim, killed>>
  /\ UNCHANGED <<w, e, txlock, tx_busy, uart, intr, prt, nn>>

\* End of file: kept for the next read() if this one has characters.
ReadEof(p) ==
  /\ Reading(p) /\ r # w /\ Front = "^D"
  /\ IF cnt[p] > 0 THEN UNCHANGED <<r, buf>> ELSE Consume
  /\ conslock' = None /\ Finish(p)
  /\ UNCHANGED <<w, e, txlock, tx_busy, uart, intr, prt, nn>>

\* either_copyout() fails: the character is lost.
ReadFault(p) ==
  /\ Reading(p) /\ r # w /\ Front # "^D"
  /\ Consume
  /\ conslock' = None /\ Finish(p)
  /\ UNCHANGED <<w, e, txlock, tx_busy, uart, intr, prt, nn>>

ReadReturn(p) ==
  /\ pc[p] = "rloop" /\ cnt[p] >= lim[p]
  /\ conslock' = None /\ Finish(p)
  /\ UNCHANGED <<cons, txlock, tx_busy, uart, intr, prt, nn>>

\* kkill(): the flag, and a wakeup if the process is asleep at that moment.
kkill(p) ==
  /\ p \in Mortal /\ pc[p] # "idle"
  /\ killed' = [killed EXCEPT ![p] = TRUE]
  /\ Goto(p, CASE pc[p] = "rsleep" -> "rcall" [] pc[p] = "wsleep" -> "wlock" [] OTHER -> pc[p])
  /\ UNCHANGED <<cons, conslock, txlock, tx_busy, uart, intr, prt, calls>>

-----------------------------------------------------------------------------
(* uartintr() *)

\* devintr() claims the interrupt; reading ISR takes back the request for
\* more output, unless it reports received data.
IntrClaim ==
  /\ hpc = "idle" /\ (thri \/ rx > 0)
  /\ hpc' = "tx"
  /\ thri' = (thri /\ rx > 0)
  /\ UNCHANGED <<cons, conslock, txlock, tx_busy, rx, thr, key, echo, prt, pc, calls, killed>>

\* mutant: input is served first, and output only if there is none
IntrTxInputFirst ==
  /\ hpc = "tx" /\ txlock = None
  /\ hpc' = "get"
  /\ IF TxIdle /\ rx = 0 THEN tx_busy' = FALSE /\ Awake("wsleep", "wlock")
                         ELSE UNCHANGED <<tx_busy, pc>>
  /\ UNCHANGED <<cons, conslock, txlock, uart, key, echo, prt, calls, killed>>

IntrTx ==
  /\ hpc = "tx" /\ txlock = None
  /\ hpc' = "get"
  /\ IF TxIdle THEN tx_busy' = FALSE /\ Awake("wsleep", "wlock") ELSE UNCHANGED <<tx_busy, pc>>
  /\ UNCHANGED <<cons, conslock, txlock, uart, key, echo, prt, calls, killed>>

\* uartgetc(), and acquire(&cons.lock) in consoleintr().
IntrGet(c) ==
  /\ hpc = "get" /\ rx > 0 /\ conslock = None
  /\ key' = c /\ rx' = rx - 1
  /\ conslock' = Handler /\ hpc' = "switch"
  /\ UNCHANGED <<cons, txlock, tx_busy, thr, thri, echo, prt, pc, calls, killed>>

\* There is no more: plic_complete().
IntrComplete ==
  /\ hpc = "get" /\ rx = 0
  /\ hpc' = "idle"
  /\ UNCHANGED <<cons, conslock, txlock, tx_busy, uart, key, echo, prt, pc, calls, killed>>

-----------------------------------------------------------------------------
(* consoleintr(), under cons.lock *)

\* Bytes written by consputc(BACKSPACE).
BACKSPACE == 3

Unlock == conslock' = None /\ key' = "nul" /\ hpc' = "get"

Echo(n) == hpc' = "echo" /\ echo' = n /\ UNCHANGED <<conslock, key>>

Last == buf[Slot(e - 1)]

\* ^U goes on erasing; ^H and del erase one character.
MayErase == IF key = "^U" THEN e # w /\ Last # "nl" ELSE e # w

IntrErase ==
  /\ hpc = "switch" /\ key \in {"^U", "^H", "del"} /\ MayErase
  /\ e' = (e - 1) % UINT /\ buf' = [buf EXCEPT ![Slot(e - 1)] = "stale"]
  /\ Echo(BACKSPACE)
  /\ UNCHANGED <<r, w, txlock, tx_busy, uart, prt, pc, calls, killed>>

InputLen == (e - r) % UINT

Typed == key \notin {"^P", "^U", "^H", "del", "nul"} /\ InputLen < INPUT_BUF_SIZE

\* procdump() prints, here one byte; a character is echoed.
IntrEcho ==
  /\ hpc = "switch" /\ (key = "^P" \/ Typed)
  /\ Echo(1)
  /\ UNCHANGED <<cons, txlock, tx_busy, uart, prt, pc, calls, killed>>

\* Nothing to erase, NUL, or the buffer is full.
IntrIgnore ==
  /\ hpc = "switch"
  /\ \/ key \in {"^U", "^H", "del"} /\ ~MayErase
     \/ key \notin {"^P", "^U", "^H", "del"} /\ ~Typed
  /\ Unlock
  /\ UNCHANGED <<cons, txlock, tx_busy, uart, echo, prt, pc, calls, killed>>

\* uartputc_sync(): spin until the UART is idle, then write.
IntrWait ==
  /\ hpc = "echo" /\ TxIdle
  /\ hpc' = "put"
  /\ UNCHANGED <<cons, conslock, txlock, tx_busy, uart, key, echo, prt, pc, calls, killed>>

\* After the last byte ^U looks for more, a character is stored, else done.
IntrPut ==
  /\ hpc = "put" /\ WriteTHR
  /\ echo' = echo - 1
  /\ \/ echo > 1 /\ hpc' = "echo" /\ UNCHANGED <<conslock, key>>
     \/ echo = 1 /\ key = "^U" /\ hpc' = "switch" /\ UNCHANGED <<conslock, key>>
     \/ echo = 1 /\ key \in {"^P", "^H", "del"} /\ Unlock
     \/ echo = 1 /\ key \notin {"^P", "^U", "^H", "del"} /\ hpc' = "store"
        /\ UNCHANGED <<conslock, key>>
  /\ UNCHANGED <<cons, txlock, tx_busy, prt, pc, calls, killed>>

Char == IF key = "cr" THEN "nl" ELSE key

EndsLineAlways(n) == TRUE                                         \* mutant
EndsLineOnly(n) == Char \in {"nl", "^D"}                          \* mutant

\* Whether a line is complete, n being the input that is held with Char.
EndsLine(n) == Char \in {"nl", "^D"} \/ n = INPUT_BUF_SIZE

IntrStore ==
  /\ hpc = "store"
  /\ buf' = [buf EXCEPT ![Slot(e)] = Char]
  /\ e' = (e + 1) % UINT
  /\ IF EndsLine((e + 1 - r) % UINT)
     THEN w' = (e + 1) % UINT /\ Awake("rsleep", "rcall")
     ELSE UNCHANGED <<w, pc>>
  /\ Unlock
  /\ UNCHANGED <<r, txlock, tx_busy, uart, echo, prt, calls, killed>>

-----------------------------------------------------------------------------
(* Specification *)

\* The steps of a call that has begun.
Proc(p) ==
  \/ WriteReturn(p) \/ WriteBatch(p) \/ WriteLock(p) \/ WriteSleep(p)
  \/ WriteByte(p) \/ WriteUnlock(p)
  \/ ReadLock(p) \/ ReadFail(p) \/ ReadSleep(p)
  \/ ReadChar(p) \/ ReadEof(p) \/ ReadFault(p) \/ ReadReturn(p)

uartintr ==
  \/ IntrClaim \/ IntrTx \/ IntrComplete \/ \E c \in Keys : IntrGet(c)
  \/ IntrErase \/ IntrEcho \/ IntrIgnore \/ IntrWait \/ IntrPut \/ IntrStore

Next ==
  \/ Receive \/ Send \/ PrintWait \/ PrintPut \/ uartintr
  \/ \E p \in Procs : \/ \E n \in ReadLens : Read(p, n)
                      \/ \E n \in WriteLens : Write(p, n)
                      \/ Proc(p) \/ kkill(p)

Spec == Init /\ [][Next]_vars

-----------------------------------------------------------------------------
(* Properties *)

\* The characters that may be read, and all that are held.
ReadyLen == (w - r) % UINT
HeldLen  == (e - r) % UINT

\* The state keeps its types, and cons.r, cons.w and cons.e keep their order,
\* at most a buffer apart, also when they have wrapped.
TypeOK ==
  /\ buf \in [0 .. INPUT_BUF_SIZE - 1 -> Stored \cup {"stale"}]
  /\ r \in 0 .. UINT - 1 /\ w \in 0 .. UINT - 1 /\ e \in 0 .. UINT - 1
  /\ ReadyLen <= HeldLen /\ HeldLen <= INPUT_BUF_SIZE
  /\ conslock \in Procs \cup {None, Handler} /\ txlock \in Procs \cup {None}
  /\ tx_busy \in BOOLEAN /\ rx \in Nat /\ thr \in Nat /\ thri \in BOOLEAN
  /\ hpc \in IntrPCs /\ key \in Keys \cup {"nul"} /\ echo \in 0 .. BACKSPACE /\ prt \in PrintPCs
  /\ pc \in [Procs -> PCs] /\ killed \in [Procs -> BOOLEAN]
  /\ cnt \in [Procs -> Nat] /\ lim \in [Procs -> Nat] /\ nn \in [Procs -> Nat]

\* The n characters from index i on.
Held(i, n) == [k \in 1 .. n |-> buf[Slot((i + (k - 1)) % UINT)]]

Lines == INSTANCE LineInput WITH
           Chars <- Stored, Enders <- {"nl", "^D"}, Size <- INPUT_BUF_SIZE,
           ready <- Held(r, ReadyLen), line <- Held(w, (e - w) % UINT)

\* The console implements LineInput: consoleread() delivers what was typed, in
\* order and once, and backspace and ^U take back only what no complete line
\* holds, however reads, interrupts and the wrapping of the indices fall.
LineByLine == Lines!LineSpec

\* No reader sleeps while a complete line, an end of file or a full buffer
\* waits for it: consoleintr() wakes all, and consoleread() looks again under
\* cons.lock.
ReaderNotForgotten == \A p \in Procs : pc[p] = "rsleep" => r = w

\* A full buffer may be read to its end: consoleintr() ignores all further
\* characters, the newline too, so it must not wait for one.
FullIsReadable == HeldLen = INPUT_BUF_SIZE => w = e

\* While tx_busy is set there is still an interrupt to come that clears it:
\* the UART has bytes to send, or asks for more, or uartintr() has taken the
\* request and not yet looked at the line status.
BusyHasWaker == tx_busy => thr > 0 \/ thri \/ hpc = "tx"

\* A writer that sleeps waits for that interrupt.
WriterNotForgotten == \A p \in Procs : pc[p] = "wsleep" => tx_busy

\* Output goes on: whoever sleeps in uartwrite() has an interrupt to come that
\* wakes it, although uartputc_sync() uses the transmitter without tx_lock.
OutputGoesOn == BusyHasWaker /\ WriterNotForgotten

\* Output is not lost: uartputc_sync() does not take tx_lock, and may find the
\* UART idle at the same time as another CPU, but the transmit FIFO (16 bytes)
\* never holds more than one byte of each of the three paths to it.
FifoFits == thr <= 3
=============================================================================
