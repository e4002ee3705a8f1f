----------------------------- MODULE SerialPort -----------------------------
(***************************************************************************)
(* A serial port (linux_uart.c, unix_fdrw.c): opened with its settings,    *)
(* read by its owner either from the file descriptor itself or, with the   *)
(* flag rd_thread, from a FIFO (fifo.c) that a thread of the port fills,   *)
(* and closed.                                                             *)
(*                                                                         *)
(* Each section under the FIFO's mutex is a step, which Mutex justifies.   *)
(* The bytes are copied to and from the FIFO's memory between two of these *)
(* sections, without the lock.  A semaphore is its count; the one that is  *)
(* posted at each removal is left out: nobody waits for room.              *)
(***************************************************************************)
EXTENDS Integers, Sequences

CONSTANTS
    Depth,     \* bytes of the FIFO
    MaxBytes,  \* bound: bytes that come
    Asked      \* how many bytes the reader asks for at a time

ASSUME SerialAssumption ==
    /\ Depth \in Nat \ {0}
    /\ MaxBytes \in Nat
    /\ Asked \subseteq Nat \ {0}

VARIABLES
    threaded,     \* STREAM_UART_FLAG_rd_thread
    line,         \* the device: "up", "unplugged" (reads give nothing),
                  \* or "failing" (reads give an error)
    came,         \* bytes that have come, numbered from 1
    fetched,      \* those that were read from the file descriptor
    port,         \* "opening", "open", "closing" or "freed"
    isError,      \* pParent->is_error
    threadState,  \* pLU->thread_state
    fifo,         \* its memory, cnt, wr_idx and rd_idx
    inSem,        \* the count of in_sem
    worker,       \* the port's thread, and the bytes it moves at a time
    reader,       \* the owner in STREAM_rdBytes
    taken         \* the bytes the owner was given

portVars == <<threaded, line, came, fetched, port, isError, threadState,
              fifo, inSem, worker, reader, taken>>

lineVars == <<line, came>>
settings == <<threaded, port>>

Least(a, b) == IF a < b THEN a ELSE b

WorkerGoto(step) == [at |-> step, moves |-> 0]

EmptyFifo == [buf |-> [i \in 0 .. Depth - 1 |-> 0], cnt |-> 0, wr |-> 0, rd |-> 0]

(* It has not begun: that takes the global lock, which its creator holds.  *)
NewThread == WorkerGoto("created")

NotReading == [at |-> "idle", todo |-> 0, done |-> 0, waits |-> FALSE, moves |-> 0]

PortInit ==
    /\ threaded \in BOOLEAN
    /\ line = "up" /\ came = 0 /\ fetched = 0
    /\ port = "opening" /\ isError = FALSE
    /\ threadState = IF threaded THEN "birth" ELSE "none"
    /\ fifo = EmptyFifo
    /\ inSem = 0
    /\ worker = IF threaded THEN NewThread ELSE WorkerGoto("none")
    /\ reader = NotReading
    /\ taken = <<>>

-----------------------------------------------------------------------------
(* The device.  What comes before the port is set up is flushed.           *)

ByteComes ==
    /\ line = "up" /\ port = "open" /\ came < MaxBytes
    /\ came' = came + 1
    /\ UNCHANGED <<settings, line, fetched, isError, threadState, fifo, inSem,
                   worker, reader, taken>>

LineEnds ==
    /\ line = "up" /\ port = "open"
    /\ line' \in {"unplugged", "failing"}
    /\ UNCHANGED <<settings, came, fetched, isError, threadState, fifo, inSem,
                   worker, reader, taken>>

(* POLL_readable: a dead device is readable too.                           *)
Readable == line # "up" \/ fetched < came

(* UNIX_fdRdThis: what one read gives.  Bytes that are still in the driver *)
(* are lost with the device.                                               *)
ReadGives(room) ==
    IF line = "up" THEN 1 .. Least(room, came - fetched) ELSE {}

ReadFails == line = "failing"

-----------------------------------------------------------------------------
(* The FIFO's sections.                                                    *)

RoomEvenIfFull ==
    IF fifo.wr >= fifo.rd THEN Depth - fifo.wr ELSE fifo.rd - fifo.wr

(* FIFO_insertDMA_setup: how many bytes may be written at wr_idx.          *)
Room ==
    IF fifo.cnt = Depth THEN 0
    ELSE IF fifo.wr >= fifo.rd THEN Depth - fifo.wr ELSE fifo.rd - fifo.wr

(* FIFO_removeDMA_setup: how many bytes may be read at rd_idx.             *)
Stock ==
    IF fifo.cnt = 0 THEN 0
    ELSE IF fifo.rd < fifo.wr THEN fifo.wr - fifo.rd ELSE Depth - fifo.rd

InsertedUntold(n) ==
    /\ fifo' = [fifo EXCEPT !.cnt = @ + n, !.wr = (@ + n) % Depth]
    /\ UNCHANGED inSem

Posted == inSem' = inSem + 1

(* FIFO_insertDMA_update.                                                  *)
Inserted(n) ==
    /\ fifo' = [fifo EXCEPT !.cnt = @ + n, !.wr = (@ + n) % Depth]
    /\ Posted

(* FIFO_removeDMA_update.                                                  *)
Removed(n) == [fifo EXCEPT !.cnt = @ - n, !.rd = (@ + n) % Depth]

-----------------------------------------------------------------------------
(* The port's thread, _uart_rx_thread.                                     *)

WorkerSame == UNCHANGED <<settings, lineVars, reader, taken>>

(* It begins once the creator has released the global lock, and says so    *)
(* whatever was asked of it in between.                                    *)
WorkerBegins ==
    /\ worker.at = "created" /\ port # "freed"
    /\ threadState' = "alive"
    /\ worker' = WorkerGoto("loop")
    /\ UNCHANGED <<fetched, isError, fifo, inSem>> /\ WorkerSame

WorkerEnds ==
    /\ worker.at = "loop" /\ port # "freed"
    /\ threadState # "alive" \/ isError
    /\ threadState' = "dead"
    /\ worker' = WorkerGoto("ended")
    /\ UNCHANGED <<fetched, isError, fifo, inSem>> /\ WorkerSame

(* A poll that finds nothing goes round again.                             *)
WorkerPolls ==
    /\ worker.at = "loop" /\ threadState = "alive" /\ ~isError /\ port # "freed"
    /\ Readable
    /\ worker' = WorkerGoto("setup")
    /\ UNCHANGED <<fetched, isError, threadState, fifo, inSem>> /\ WorkerSame

(* _fd_to_fifo: without room the bytes stay in the driver.                 *)
WorkerSetsUp ==
    /\ worker.at = "setup" /\ port # "freed"
    /\ worker' = IF Room = 0 THEN WorkerGoto("loop") ELSE [at |-> "read", moves |-> Room]
    /\ UNCHANGED <<fetched, isError, threadState, fifo, inSem>> /\ WorkerSame

(* The bytes go where wr_idx was.  A read that gives nothing ends the      *)
(* transfer; that the device is gone is noted in the request only, whose   *)
(* is_connected the thread does not look at.                               *)
WorkerReads ==
    /\ worker.at = "read" /\ port # "freed"
    /\ \/ \E n \in ReadGives(worker.moves) :
            /\ fetched' = fetched + n
            /\ fifo' = [fifo EXCEPT !.buf =
                 [i \in DOMAIN @ |-> IF i \in fifo.wr .. fifo.wr + n - 1
                                     THEN fetched + 1 + i - fifo.wr ELSE @[i]]]
            /\ worker' = [at |-> "update", moves |-> n]
            /\ UNCHANGED isError
       \/ /\ ReadGives(worker.moves) = {}
          /\ isError' = (isError \/ ReadFails)
          /\ worker' = WorkerGoto("loop")
          /\ UNCHANGED <<fetched, fifo>>
    /\ UNCHANGED <<threadState, inSem>> /\ WorkerSame

WorkerUpdates ==
    /\ worker.at = "update" /\ port # "freed"
    /\ Inserted(worker.moves)
    /\ worker' = WorkerGoto("setup")
    /\ UNCHANGED <<fetched, isError, threadState>> /\ WorkerSame

-----------------------------------------------------------------------------
(* The owner reads, STREAM_rdBytes.                                        *)

ReaderSame == UNCHANGED <<settings, lineVars, threadState, worker>>

ReaderGoto(step) == reader' = [reader EXCEPT !.at = step]

Ask ==
    /\ reader.at = "idle" /\ port = "open"
    /\ \E n \in Asked, w \in BOOLEAN :
         reader' = [at |-> IF threaded THEN "setup" ELSE IF w THEN "poll" ELSE "read",
                    todo |-> n, done |-> 0, waits |-> w, moves |-> 0]
    /\ UNCHANGED <<fetched, isError, fifo, inSem, taken>> /\ ReaderSame

(* FIFO_removeWithTimeout ends without what was asked for: _app_fifo_rw    *)
(* calls it again, with the full timeout, unless it has given nothing.     *)
CallEnds ==
    reader' = IF reader.moves = 0 THEN NotReading
              ELSE [reader EXCEPT !.at = "setup", !.moves = 0]

(* What there is, up to the end of the memory.                             *)
ReaderSetsUp ==
    /\ reader.at = "setup" /\ port # "freed"
    /\ \/ /\ Stock > 0
          /\ reader' = [reader EXCEPT !.at = "copy",
                                       !.moves = Least(Stock, reader.todo - reader.done)]
       \/ /\ Stock = 0
          /\ IF reader.waits THEN ReaderGoto("wait") ELSE CallEnds
    /\ UNCHANGED <<fetched, isError, fifo, inSem, taken>> /\ ReaderSame

ReaderIsWoken ==
    /\ reader.at = "wait" /\ inSem > 0 /\ port # "freed"
    /\ inSem' = inSem - 1
    /\ ReaderGoto("setup")
    /\ UNCHANGED <<fetched, isError, fifo, taken>> /\ ReaderSame

ReaderIsLate ==
    /\ reader.at = "wait" /\ inSem = 0 /\ port # "freed"
    /\ CallEnds
    /\ UNCHANGED <<fetched, isError, fifo, inSem, taken>> /\ ReaderSame

ReaderCopies ==
    /\ reader.at = "copy" /\ port # "freed"
    /\ taken' = taken \o [i \in 1 .. reader.moves |-> fifo.buf[fifo.rd + i - 1]]
    /\ ReaderGoto("update")
    /\ UNCHANGED <<fetched, isError, fifo, inSem>> /\ ReaderSame

ReaderUpdates ==
    /\ reader.at = "update" /\ port # "freed"
    /\ fifo' = Removed(reader.moves)
    /\ reader' = IF reader.done + reader.moves = reader.todo THEN NotReading
                 ELSE [reader EXCEPT !.at = "setup", !.done = @ + reader.moves]
    /\ UNCHANGED <<fetched, isError, inSem, taken>> /\ ReaderSame

(* _simple_rw, without a FIFO: a poll of the given time, then a read.      *)
ReaderPolls ==
    /\ reader.at = "poll" /\ port # "freed"
    /\ IF Readable THEN ReaderGoto("read") ELSE reader' = NotReading
    /\ UNCHANGED <<fetched, isError, fifo, inSem, taken>> /\ ReaderSame

(* uart_disconnect_check makes an error of a read that failed, and of one  *)
(* that told that the device is gone.                                      *)
ReaderReads ==
    /\ reader.at = "read" /\ port # "freed"
    /\ \/ \E n \in ReadGives(reader.todo - reader.done) :
            /\ fetched' = fetched + n
            /\ taken' = taken \o [i \in 1 .. n |-> fetched + i]
            /\ reader' = IF reader.done + n = reader.todo THEN NotReading
                         ELSE [reader EXCEPT !.done = @ + n,
                                             !.at = IF reader.waits THEN "poll" ELSE "read"]
            /\ UNCHANGED isError
       \/ /\ ReadGives(reader.todo - reader.done) = {}
          /\ isError' = (isError \/ line # "up")
          /\ reader' = NotReading
          /\ UNCHANGED <<fetched, taken>>
    /\ UNCHANGED <<fifo, inSem>> /\ ReaderSame

-----------------------------------------------------------------------------
(* STREAM_createUart and _uart_closePtr.                                   *)

OwnerSame == UNCHANGED <<threaded, lineVars, fetched, isError, fifo, inSem, worker, taken>>

(* The thread runs already while the line's settings are made.             *)
Configured ==
    /\ port = "opening"
    /\ port' = "open"
    /\ UNCHANGED <<threadState, reader>> /\ OwnerSame

(* Closed by its owner, or since a setting was refused.  An interface      *)
(* closes its port before it stops its own thread, which may be reading.   *)
Close ==
    /\ port \in {"opening", "open"}
    /\ port' = "closing"
    /\ threadState' = IF threaded THEN "exit" ELSE threadState
    /\ UNCHANGED reader /\ OwnerSame

(* The loop compares thread_state with itself, so it always lasts its 100  *)
(* rounds of a millisecond, in which a thread that was told to exit and    *)
(* polls for as long as that has ended.                                    *)
Free ==
    /\ port = "closing"
    /\ threaded => worker.at = "ended" \/ threadState = "alive"
    /\ port' = "freed"
    /\ reader' = NotReading
    /\ UNCHANGED threadState /\ OwnerSame

-----------------------------------------------------------------------------
WorkerStep == WorkerBegins \/ WorkerEnds \/ WorkerPolls \/ WorkerSetsUp
              \/ WorkerReads \/ WorkerUpdates

ReaderStep == Ask \/ ReaderSetsUp \/ ReaderIsWoken \/ ReaderIsLate \/ ReaderCopies
              \/ ReaderUpdates \/ ReaderPolls \/ ReaderReads

PortNext == ByteComes \/ LineEnds \/ WorkerStep \/ ReaderStep
            \/ Configured \/ Close \/ Free

PortSpec == PortInit /\ [][PortNext]_portVars

-----------------------------------------------------------------------------
(* The owner is given the bytes that came, each once and in order, though  *)
(* neither side holds the lock while it copies: the FIFO and the direct    *)
(* reads implement Pipe.                                                   *)
Line == INSTANCE Pipe
ImplementsPipe == Line!Spec

(* The owner does not sleep, with nobody to wake it, while the FIFO holds  *)
(* bytes: the semaphore is posted after the bytes are counted, and a count *)
(* that is left over costs a look at the FIFO only.                        *)
SleepsWithoutData ==
    reader.at = "wait" /\ inSem = 0 => fifo.cnt = 0
=============================================================================
