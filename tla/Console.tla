------------------------------- MODULE Console -------------------------------
(***************************************************************************)
(* kernel/console.c and kernel/uart.c, with the locks of kernel/spinlock.c *)
(* and the interrupts they turn off.  On every hart there is a process in  *)
(* consoleread() or consolewrite(), and the hart may interrupt it, or the  *)
(* scheduler while it sleeps, to run uartintr().  The PLIC has one hart at *)
(* a time serve the UART.                                                  *)
(*                                                                         *)
(* What a lock protects changes in one step between acquire() and          *)
(* release(), but the UART's registers are no lock's: reading LSR and      *)
(* writing THR are steps of their own.  r, w and e are unsigned and wrap   *)
(* at WRAP; uart_tx_r and uart_tx_w are counted modulo WRAP too, and a     *)
(* byte that is written is identified by its place in that count.          *)
(***************************************************************************)
EXTENDS Integers, Sequences

CONSTANTS Reader, Writer,      \* harts, by what their process does
          None,
          INPUT_BUF, UART_TX_BUF_SIZE,
          WRAP,                \* a multiple of both, more than once
          Script,              \* bound: what is typed, and the lengths of the
                               \* read()s and of the write()s
          Start                \* the indices at first: any value, all alike

Hart == Reader \cup Writer

\* Who executes on a hart: its process, or its interrupt handler.
Ctx == Hart \X {"proc", "intr"}

VARIABLES cpu,           \* of every hart: noff, intena, and SIE of sstatus
          lk,            \* of cons.lock and uart_tx_lock: who holds it, or None
          pc,            \* of every context: its place
          n, got,        \* of every process: bytes left, and target - n
          calls,         \* of every process: the lengths of its calls to come
          killed,        \* of every process
          ich,           \* the character that consoleintr() has
          buf, r, w, e,                     \* cons
          txbuf, txr, txw,                  \* uart_tx_buf and its indices
          thr, rhr, irq, sent,    \* the UART: what it sends, what it received,
                                  \* its request to the PLIC, and how many
                                  \* bytes of uart_tx_buf it has sent
          keys           \* what will be typed: letters, "nl", "D", "U" and "H"

cons == <<buf, r, w, e>>
tx == <<txbuf, txr, txw>>
uart == <<thr, rhr, irq, sent, keys>>
user == <<n, got, killed, calls>>
vars == <<cpu, lk, pc, user, ich, cons, tx, uart>>

Init ==
  /\ cpu = [h \in Hart |-> [noff |-> 0, intena |-> TRUE, sie |-> TRUE]]
  /\ lk = [cons |-> None, tx |-> None]
  /\ pc = [c \in Ctx |-> IF c[2] = "proc" THEN "user" ELSE "off"]
  /\ n = [h \in Hart |-> 0] /\ got = [h \in Hart |-> 0]
  /\ killed = [h \in Hart |-> FALSE]
  /\ ich = "nl"
  /\ w \in Start
  /\ buf = [k \in 0..(INPUT_BUF - 1) |-> "nl"] /\ r = w /\ e = w
  /\ txbuf = [k \in 0..(UART_TX_BUF_SIZE - 1) |-> 0] /\ txr = w /\ txw = w
  /\ thr = <<>> /\ rhr = <<>> /\ irq = FALSE /\ sent = w
  /\ \E s \in Script :
       /\ keys = s.keys
       /\ calls = [h \in Hart |-> IF h \in Reader THEN s.reads ELSE s.writes]

Plus(x, y) == (x + y) % WRAP

-----------------------------------------------------------------------------
(* spinlock.c *)

\* push_off() and pop_off(), as functions of a struct cpu
PushOff(c) ==
  [noff |-> c.noff + 1, intena |-> IF c.noff = 0 THEN c.sie ELSE c.intena, sie |-> FALSE]

PopOff(c) ==
  [c EXCEPT !.noff = @ - 1, !.sie = IF c.noff = 1 /\ c.intena THEN TRUE ELSE @]

\* c is what its hart executes: an interrupted process is not.
Executes(c) == c[2] = "intr" \/ pc[<<c[1], "intr">>] = "off"

At(c, place) == pc[c] = place /\ Executes(c)

Goto(c, place) == pc' = [pc EXCEPT ![c] = place]

Off(c) == cpu' = [cpu EXCEPT ![c[1]] = PushOff(@)]
On(c) == cpu' = [cpu EXCEPT ![c[1]] = PopOff(@)]

acquireKeepsInterrupts(c, l) ==
  /\ lk[l] = None
  /\ lk' = [lk EXCEPT ![l] = c]
  /\ UNCHANGED cpu

\* acquire(): the spinning that comes before is no step.
acquire(c, l) ==
  /\ lk[l] = None
  /\ lk' = [lk EXCEPT ![l] = c]
  /\ Off(c)

\* release(), and on with what comes after the critical section
ReleaseTo(c, l, place) ==
  /\ lk' = [lk EXCEPT ![l] = None]
  /\ On(c)
  /\ Goto(c, place)

\* Go on inside the critical section.
StayAt(c, place) == Goto(c, place) /\ UNCHANGED <<cpu, lk>>

\* sleep() gives the lock and the hart back; the scheduler there enables
\* interrupts.  The place it sleeps at tells the channel.
SleepAt(c, l, place) ==
  /\ lk' = [lk EXCEPT ![l] = None]
  /\ cpu' = [cpu EXCEPT ![c[1]] = [noff |-> 0, intena |-> TRUE, sie |-> TRUE]]
  /\ Goto(c, place)

\* wakeup() of those who sleep at the one place, who go on at the other; c goes
\* on at its own.
WakeupAnd(asleep, awake, c, place) ==
  pc' = [d \in Ctx |-> IF d = c THEN place ELSE IF pc[d] = asleep THEN awake ELSE pc[d]]

-----------------------------------------------------------------------------
(* consoleread() *)

proc(h) == <<h, "proc">>
intr(h) == <<h, "intr">>

ReadCall(h) ==
  /\ At(proc(h), "user")
  /\ calls[h] # <<>>
  /\ n' = [n EXCEPT ![h] = Head(calls[h])]
  /\ calls' = [calls EXCEPT ![h] = Tail(@)]
  /\ Goto(proc(h), "racquire")
  /\ UNCHANGED <<cpu, lk, got, killed, ich, cons, tx, uart>>

ReadAcquire(h) ==
  /\ At(proc(h), "racquire")
  /\ acquire(proc(h), "cons")
  /\ Goto(proc(h), "read")
  /\ UNCHANGED <<user, ich, cons, tx, uart>>

\* read() returns, and the process exits if it was killed; another one goes on.
ReadReturn(h) ==
  /\ ReleaseTo(proc(h), "cons", "user")
  /\ n' = [n EXCEPT ![h] = 0] /\ got' = [got EXCEPT ![h] = 0]
  /\ killed' = [killed EXCEPT ![h] = FALSE]
  /\ UNCHANGED calls

\* A byte was copied out, and read() goes on.
ReadMore(h) ==
  /\ n' = [n EXCEPT ![h] = @ - 1] /\ got' = [got EXCEPT ![h] = @ + 1]
  /\ StayAt(proc(h), "read")
  /\ UNCHANGED <<killed, calls>>

\* There is nothing to read: leave when killed, and sleep otherwise.
ReadWait(h) ==
  /\ At(proc(h), "read") /\ r = w
  /\ IF killed[h]
     THEN ReadReturn(h)
     ELSE SleepAt(proc(h), "cons", "rasleep") /\ UNCHANGED user
  /\ UNCHANGED <<ich, cons, tx, uart>>

\* One character: control-D ends the read and stays for the next one when this
\* one has bytes; a newline or the last byte wanted ends it too, and so does
\* either_copyout() when it fails, with the character gone.
ReadChar(h) ==
  /\ At(proc(h), "read") /\ r # w
  /\ LET c == buf[r % INPUT_BUF] IN
     IF c = "D"
     THEN r' = (IF got[h] > 0 THEN r ELSE Plus(r, 1)) /\ ReadReturn(h)
     ELSE /\ r' = Plus(r, 1)
          /\ \/ c # "nl" /\ n[h] > 1 /\ ReadMore(h)
             \/ ReadReturn(h)
  /\ UNCHANGED <<ich, buf, w, e, tx, uart>>

\* kill() sets killed and wakes the process, whatever it sleeps for.  Only the
\* test of ReadWait, and being woken, tell when.
Kill(h) ==
  /\ ~killed[h] /\ pc[proc(h)] \in {"racquire", "rasleep", "wasleep"}
  /\ killed' = [killed EXCEPT ![h] = TRUE]
  /\ pc' = [pc EXCEPT ![proc(h)] = CASE @ = "rasleep" -> "racquire"
                                           [] @ = "wasleep" -> "wacquire"
                                           [] OTHER -> @]
  /\ UNCHANGED <<cpu, lk, n, got, calls, ich, cons, tx, uart>>

-----------------------------------------------------------------------------
(* consolewrite(), which calls uartputc() for every byte *)

WriteCall(h) ==
  /\ At(proc(h), "user")
  /\ calls[h] # <<>>
  /\ n' = [n EXCEPT ![h] = Head(calls[h])]
  /\ calls' = [calls EXCEPT ![h] = Tail(@)]
  /\ Goto(proc(h), "wacquire")
  /\ UNCHANGED <<cpu, lk, got, killed, ich, cons, tx, uart>>

WriteAcquire(h) ==
  /\ At(proc(h), "wacquire")
  /\ acquire(proc(h), "tx")
  /\ Goto(proc(h), "write")
  /\ UNCHANGED <<user, ich, cons, tx, uart>>

FullOneLate == txw = Plus(txr, UART_TX_BUF_SIZE + 1)

\* The transmit buffer is full.
Full == txw = Plus(txr, UART_TX_BUF_SIZE)

WriteWait(h) ==
  /\ At(proc(h), "write") /\ Full
  /\ SleepAt(proc(h), "tx", "wasleep")
  /\ UNCHANGED <<user, ich, cons, tx, uart>>

WriteChar(h) ==
  /\ At(proc(h), "write") /\ ~Full
  /\ txbuf' = [txbuf EXCEPT ![txw % UART_TX_BUF_SIZE] = txw]
  /\ txw' = Plus(txw, 1)
  /\ Goto(proc(h), "start")
  /\ UNCHANGED <<cpu, lk, user, ich, cons, txr, uart>>

\* uartputc() returns, to the next byte or out of consolewrite().
PutReturn(h) ==
  /\ ReleaseTo(proc(h), "tx", IF n[h] > 1 THEN "wacquire" ELSE "user")
  /\ n' = [n EXCEPT ![h] = @ - 1]
  /\ killed' = [killed EXCEPT ![h] = @ /\ n[h] > 1]
  /\ UNCHANGED <<got, calls>>

\* plic_complete() and the return from the trap, which turns interrupts on again
IntrReturn(h) ==
  /\ lk' = [lk EXCEPT !.tx = None]
  /\ cpu' = [cpu EXCEPT ![h] = [PopOff(@) EXCEPT !.sie = TRUE]]
  /\ Goto(intr(h), "off")
  /\ UNCHANGED user

\* uartstart(), which the writer and the handler call with uart_tx_lock held:
\* whether there is a byte to send and LSR says that the UART is idle.
StartTest(c) ==
  /\ At(c, "start")
  /\ \/ txw # txr /\ thr = <<>> /\ StayAt(c, "send") /\ UNCHANGED user
     \/ /\ txw = txr \/ thr # <<>>
        /\ IF c[2] = "proc" THEN PutReturn(c[1]) ELSE IntrReturn(c[1])
  /\ UNCHANGED <<ich, cons, tx, uart>>

StartSendNoWakeup(c) ==
  /\ At(c, "send")
  /\ thr' = Append(thr, txbuf[txr % UART_TX_BUF_SIZE])
  /\ txr' = Plus(txr, 1)
  /\ Goto(c, "start")
  /\ UNCHANGED <<cpu, lk, user, ich, cons, txbuf, txw, rhr, irq, sent, keys>>

\* The byte goes to THR, and uartputc() may have room.
StartSend(c) ==
  /\ At(c, "send")
  /\ thr' = Append(thr, txbuf[txr % UART_TX_BUF_SIZE])
  /\ txr' = Plus(txr, 1)
  /\ WakeupAnd("wasleep", "wacquire", c, "start")
  /\ UNCHANGED <<cpu, lk, user, ich, cons, txbuf, txw, rhr, irq, sent, keys>>

-----------------------------------------------------------------------------
(* uartintr() and consoleintr() *)

\* External: the PLIC hands the UART's request to one hart, until plic_complete().
Served == \E h \in Hart : pc[intr(h)] # "off"

\* devintr() with the UART's irq: the trap turns interrupts off.
Interrupt(h) ==
  /\ irq /\ ~Served /\ cpu[h].sie
  /\ irq' = FALSE
  /\ cpu' = [cpu EXCEPT ![h].sie = FALSE]
  /\ Goto(intr(h), "getc")
  /\ UNCHANGED <<lk, user, ich, cons, tx, thr, rhr, sent, keys>>

\* uartgetc()
Getc(h) ==
  /\ At(intr(h), "getc")
  /\ IF rhr = <<>>
     THEN Goto(intr(h), "iacquire") /\ UNCHANGED <<ich, rhr>>
     ELSE Goto(intr(h), "cacquire") /\ ich' = Head(rhr) /\ rhr' = Tail(rhr)
  /\ UNCHANGED <<cpu, lk, user, cons, tx, thr, irq, sent, keys>>

IntrAcquire(h) ==
  /\ At(intr(h), "cacquire")
  /\ acquire(intr(h), "cons")
  /\ Goto(intr(h), "edit")
  /\ UNCHANGED <<user, ich, cons, tx, uart>>

\* consoleintr() returns to the loop of uartintr().
EditReturn(h) == ReleaseTo(intr(h), "cons", "getc") /\ ich' = "nl"

\* The switch of consoleintr(): erase a character of the line, for control-U as
\* long as there is one, or see whether there is room for one more.
Edit(h) ==
  /\ At(intr(h), "edit")
  /\ LET erase == /\ ich \in {"U", "H"} /\ e # w
                  /\ ich = "U" => buf[Plus(e, WRAP - 1) % INPUT_BUF] # "nl"
         keep == ich \notin {"U", "H"} /\ Plus(e, WRAP - r) < INPUT_BUF
     IN /\ e' = IF erase THEN Plus(e, WRAP - 1) ELSE e
        /\ IF erase \/ keep THEN StayAt(intr(h), "echo") /\ UNCHANGED ich ELSE EditReturn(h)
  /\ UNCHANGED <<user, buf, r, w, tx, uart>>

\* uartputc_sync(): spin until LSR says that the UART is idle ...
EchoTest(h) ==
  /\ At(intr(h), "echo")
  /\ thr = <<>>
  /\ Off(intr(h))
  /\ Goto(intr(h), "sync")
  /\ UNCHANGED <<lk, user, ich, cons, tx, uart>>

StoreLineOnly(h) ==
  /\ buf' = [buf EXCEPT ![e % INPUT_BUF] = ich]
  /\ e' = Plus(e, 1)
  /\ IF ich \in {"nl", "D"}
     THEN w' = e' /\ WakeupAnd("rasleep", "racquire", intr(h), "getc")
     ELSE w' = w /\ Goto(intr(h), "getc")

\* Keep the character; at the end of a line, or when the buffer is full, wake
\* the readers.
Store(h) ==
  /\ buf' = [buf EXCEPT ![e % INPUT_BUF] = ich]
  /\ e' = Plus(e, 1)
  /\ IF ich \in {"nl", "D"} \/ e' = Plus(r, INPUT_BUF)
     THEN w' = e' /\ WakeupAnd("rasleep", "racquire", intr(h), "getc")
     ELSE w' = w /\ Goto(intr(h), "getc")

\* ... and write THR, without uart_tx_lock (the three bytes of a BACKSPACE are
\* one here), and finish consoleintr(): a control-U tries the next character.
EchoSend(h) ==
  /\ At(intr(h), "sync")
  /\ thr' = Append(thr, WRAP)
  /\ LET back == PopOff(cpu[h]) IN
     IF ich = "U"
     THEN /\ cpu' = [cpu EXCEPT ![h] = back]
          /\ Goto(intr(h), "edit")
          /\ UNCHANGED <<lk, ich, cons>>
     ELSE /\ cpu' = [cpu EXCEPT ![h] = PopOff(back)]
          /\ lk' = [lk EXCEPT !.cons = None]
          /\ ich' = "nl"
          /\ IF ich = "H"
             THEN Goto(intr(h), "getc") /\ UNCHANGED cons
             ELSE Store(h) /\ UNCHANGED r
  /\ UNCHANGED <<user, tx, rhr, irq, sent, keys>>

TxAcquire(h) ==
  /\ At(intr(h), "iacquire")
  /\ acquire(intr(h), "tx")
  /\ Goto(intr(h), "start")
  /\ UNCHANGED <<user, ich, cons, tx, uart>>

-----------------------------------------------------------------------------
(* External: the UART *)

\* A character arrives, and the hardware's FIFO has room for it.
Typed ==
  /\ keys # <<>>
  /\ keys' = Tail(keys) /\ rhr' = Append(rhr, Head(keys)) /\ irq' = TRUE
  /\ UNCHANGED <<cpu, lk, pc, user, ich, cons, tx, thr, sent>>

\* A byte leaves; when none is left the UART asks for more.
Transmit ==
  /\ thr # <<>>
  /\ thr' = Tail(thr)
  /\ irq' = (irq \/ Tail(thr) = <<>>)
  /\ sent' = IF Head(thr) = WRAP THEN sent ELSE Plus(sent, 1)
  /\ UNCHANGED <<cpu, lk, pc, user, ich, cons, tx, rhr, keys>>

-----------------------------------------------------------------------------
ReadStep(h) == ReadAcquire(h) \/ ReadWait(h) \/ ReadChar(h)

WriteStep(h) ==
  \/ WriteAcquire(h) \/ WriteWait(h) \/ WriteChar(h)
  \/ StartTest(proc(h)) \/ StartSend(proc(h))

IntrStep(h) ==
  \/ Getc(h) \/ IntrAcquire(h) \/ Edit(h) \/ EchoTest(h) \/ EchoSend(h)
  \/ TxAcquire(h) \/ StartTest(intr(h)) \/ StartSend(intr(h))

Next ==
  \/ \E h \in Reader : ReadCall(h) \/ ReadStep(h)
  \/ \E h \in Writer : WriteCall(h) \/ WriteStep(h)
  \/ \E h \in Hart : Interrupt(h) \/ IntrStep(h) \/ Kill(h)
  \/ Typed \/ Transmit

Spec == Init /\ [][Next]_vars

\* What the harts and the UART do by themselves.  Processes need not call or be
\* killed, nor anybody type.
Work ==
  \/ \E h \in Reader : ReadStep(h)
  \/ \E h \in Writer : WriteStep(h)
  \/ \E h \in Hart : Interrupt(h) \/ IntrStep(h)
  \/ Transmit

\* Some hart or the UART goes on as long as one can.  Which one does not matter:
\* what is typed, read and written is finite, and a hart that waits for a lock or
\* for LSR takes no steps.
Fairness == WF_vars(Work)

FairSpec == Spec /\ Fairness
-----------------------------------------------------------------------------
\* The characters of cons.buf from one index to another
Chars(from, to) ==
  [k \in 1..Plus(to, WRAP - from) |-> buf[Plus(from, k - 1) % INPUT_BUF]]

\* cons.buf is a line editor.  What consoleintr() stores and erases and what
\* consoleread() takes, whatever interrupts what, is a line that is edited until
\* a newline, control-D or a full buffer finishes it, and characters of finished
\* lines handed out in order: the indices never pass one another when they wrap,
\* no finished character can be erased, a read() ends with its newline, and a
\* control-D is left for a read() that returns 0.
Line == INSTANCE LineInput WITH
          Char <- {"a", "nl", "D"}, Capacity <- INPUT_BUF, ready <- Chars(r, w), edit <- Chars(w, e),
          got <- [h \in Reader |-> got[h]]
LineDiscipline == Line!Spec

\* The bytes that were given to write() and that the UART has not sent yet
Unsent ==
  SelectSeq(thr, LAMBDA b : b # WRAP) \o
  [k \in 1..Plus(txw, WRAP - txr) |-> txbuf[Plus(txr, k - 1) % UART_TX_BUF_SIZE]]

\* uartstart() is called by a writer and by the handler, and uartputc_sync()
\* writes THR without uart_tx_lock in between: still every byte of write() leaves
\* the UART once and in order, and THR never gets more than one byte from each
\* of the two before it is empty again.
OutputInOrder ==
  /\ Unsent = [k \in 1..Plus(txw, WRAP - sent) |-> Plus(sent, k - 1)]
  /\ Len(thr) <= 2

Acquires(c, l) ==
  pc[c] \in IF l = "cons" THEN {"racquire", "cacquire"} ELSE {"wacquire", "iacquire"}

Held(h) == {l \in DOMAIN lk : lk[l] \in {proc(h), intr(h)}}

\* The locks of code that interrupts.  A hart never acquires a lock it holds
\* itself (acquire() would panic, and the handler would wait for the process it
\* interrupted), no hart that holds a lock can be interrupted, and noff counts
\* the locks a hart holds and its uartputc_sync(), so that pop_off() never panics
\* and turns interrupts on when the last one is released.
LocksSafe ==
  \A h \in Hart :
    /\ \A c \in {proc(h), intr(h)}, l \in DOMAIN lk :
         Acquires(c, l) /\ Executes(c) => l \notin Held(h)
    /\ Held(h) # {} => ~cpu[h].sie
    /\ LET locks == IF Held(h) = {} THEN 0 ELSE IF Held(h) = DOMAIN lk THEN 2 ELSE 1
       IN cpu[h].noff = locks + IF pc[intr(h)] = "sync" THEN 1 ELSE 0
    /\ ~cpu[h].sie => Held(h) # {} \/ pc[intr(h)] # "off"

\* Nobody waits for ever.  Again and again, however calls, keys and interrupts
\* fell together, every write() has returned although its process may have slept
\* for room in uart_tx_buf, what was written is sent, and nobody waits in read()
\* for characters that are there: no wakeup and no interrupt of the UART is lost,
\* and the handler never waits for a lock that will not be released.
ConsoleProgress ==
  []<>(/\ \A h \in Writer : pc[proc(h)] = "user"
       /\ sent = txw
       /\ \A h \in Reader : pc[proc(h)] = "user" \/ r = w)
=============================================================================
