------------------------------ MODULE TinyPort ------------------------------
(***************************************************************************)
(* One port of the tiny serial drivers, src/serial/tiny_tty.c ("tty") and  *)
(* src/serial/tiny_serial.c ("serial").  While the port is open a timer    *)
(* delivers a character every two seconds; in the serial driver it also    *)
(* sends what the serial core put into the circular transmit buffer.       *)
(*                                                                         *)
(* External: the tty layer calls activate (startup) for the first opener   *)
(* and shutdown after the last one has closed; del_timer removes a pending *)
(* timer and does not wait for a function that runs; setting up or adding  *)
(* a timer that is pending corrupts the timer list ("corrupt"), and when   *)
(* the module is gone ("unloaded") so is the function: after either        *)
(* nothing is said.  The serial core stores x_char under port->lock, which *)
(* tiny_tx_chars does not take.  tiny_write changes nothing.  Flow control *)
(* (uart_tx_stopped) is left out, and so is the flush of a buffer that is  *)
(* not empty at the last close: the next opener goes on.                   *)
(***************************************************************************)
EXTENDS Integers

CONSTANTS
  Kinds,             \* the drivers considered
  UART_XMIT_SIZE,    \* size of the transmit buffer, a power of two
  fifosize,          \* port->fifosize; tiny_serial.c leaves it 0
  MaxOpens, MaxChars \* bounds: opens, and characters written

VARIABLES
  kind,
  mod,            \* "loaded", "unloaded", "corrupt"
  opens, users,   \* opens made, and port->count
  pending, tpc,   \* the timer, and where its function is
  head, tail,     \* the circular buffer of the serial core
  count,          \* characters tiny_tx_chars may still send in this run
  x_char,         \* a high-priority character that waits; 0 if there is none
  written, tx,    \* characters put into the buffer, and icount.tx
  xset, xsent,    \* high-priority characters stored, sent, and those stored over
  xlost           \* one that was not sent

vars == <<kind, mod, opens, users, pending, tpc, head, tail, count, x_char, written, tx,
          xset, xsent, xlost>>

Init ==
  /\ kind \in Kinds
  /\ mod = "loaded" /\ opens = 0 /\ users = 0
  /\ pending = FALSE /\ tpc = "idle"
  /\ head = 0 /\ tail = 0 /\ count = 0 /\ x_char = 0
  /\ written = 0 /\ tx = 0 /\ xset = 0 /\ xsent = 0 /\ xlost = 0

xVars == <<xset, xsent, xlost>>
bufVars == <<head, tail, count, x_char, written, tx, xVars>>

-----------------------------------------------------------------------------
(* tiny_open, tiny_activate, tiny_startup, tiny_close, tiny_shutdown       *)

\* The first opener sets the timer up and adds it.
Open ==
  /\ mod = "loaded" /\ opens < MaxOpens
  /\ opens' = opens + 1 /\ users' = users + 1
  /\ IF users > 0 THEN UNCHANGED <<mod, pending>>
     ELSE IF pending THEN mod' = "corrupt" /\ UNCHANGED pending
     ELSE pending' = TRUE /\ UNCHANGED mod
  /\ UNCHANGED <<kind, tpc, bufVars>>

\* The last one deletes it.
Close ==
  /\ mod = "loaded" /\ users > 0 /\ users' = users - 1
  /\ pending' = (pending /\ users' > 0)
  /\ UNCHANGED <<kind, mod, opens, tpc, bufVars>>

\* tiny_exit: an open port would have pinned the module, so no shutdown runs.
Unload ==
  /\ kind = "tty" /\ mod = "loaded" /\ users = 0 /\ mod' = "unloaded"
  /\ UNCHANGED <<kind, opens, users, pending, tpc, bufVars>>

-----------------------------------------------------------------------------
(* tiny_timer, tiny_tx_chars                                               *)

Expire ==
  /\ mod = "loaded" /\ pending /\ tpc = "idle"
  /\ pending' = FALSE /\ tpc' = "insert"
  /\ UNCHANGED <<kind, mod, opens, users, bufVars>>

\* add_timer at the end of the function, or before the transmission.  Somebody who
\* closed and opened the port since the function began has added the timer already.
TimerAdd ==
  /\ tpc = "insert" /\ tpc' = IF kind = "tty" THEN "idle" ELSE "tx"
  /\ IF pending THEN mod' = "corrupt" /\ UNCHANGED pending
                ELSE pending' = TRUE /\ UNCHANGED mod
  /\ UNCHANGED <<kind, opens, users, bufVars>>

Empty == head = tail

TxStart_TestFirst ==
  /\ tpc = "tx"
  /\ tpc' = IF x_char # 0 THEN "xchar"
            ELSE IF Empty \/ fifosize \div 2 <= 0 THEN "idle" ELSE "send"
  /\ count' = fifosize \div 2
  /\ UNCHANGED <<kind, mod, opens, users, pending, head, tail, x_char, written, tx, xVars>>

\* x_char first; nothing to do when the buffer is empty; else count is set
TxStart ==
  /\ tpc = "tx"
  /\ tpc' = IF x_char # 0 THEN "xchar" ELSE IF Empty THEN "idle" ELSE "send"
  /\ count' = fifosize \div 2
  /\ UNCHANGED <<kind, mod, opens, users, pending, head, tail, x_char, written, tx, xVars>>

\* The character tested was sent; the one cleared may be another.
TxXChar ==
  /\ tpc = "xchar" /\ tpc' = "idle"
  /\ tx' = tx + 1 /\ x_char' = 0 /\ xsent' = xsent + 1
  /\ UNCHANGED <<kind, mod, opens, users, pending, head, tail, count, written, xset, xlost>>

TxSend_Twice ==
  /\ tpc = "send"
  /\ tail' = (tail + 2) % UART_XMIT_SIZE
  /\ tx' = tx + 1 /\ count' = count - 1
  /\ tpc' = IF head = tail' \/ count' <= 0 THEN "idle" ELSE "send"
  /\ UNCHANGED <<kind, mod, opens, users, pending, head, x_char, written, xVars>>

\* One turn of the do-while loop
TxSend ==
  /\ tpc = "send"
  /\ tail' = (tail + 1) % UART_XMIT_SIZE
  /\ tx' = tx + 1 /\ count' = count - 1
  /\ tpc' = IF head = tail' \/ count' <= 0 THEN "idle" ELSE "send"
  /\ UNCHANGED <<kind, mod, opens, users, pending, head, x_char, written, xVars>>

Timer == mod = "loaded" /\ (TimerAdd \/ TxStart \/ TxXChar \/ TxSend)

-----------------------------------------------------------------------------
(* The serial core                                                         *)

\* A slot of the buffer always stays free.
CoreWrite ==
  /\ kind = "serial" /\ mod = "loaded" /\ users > 0
  /\ written < MaxChars /\ written' = written + 1
  /\ head' = (head + 1) % UART_XMIT_SIZE /\ head' # tail
  /\ UNCHANGED <<kind, mod, opens, users, pending, tpc, tail, count, x_char, tx, xVars>>

\* Whatever waits there
CoreXChar ==
  /\ kind = "serial" /\ mod = "loaded" /\ users > 0
  /\ xset < MaxChars /\ xset' = xset + 1
  /\ x_char' = 1 /\ xlost' = xlost + x_char
  /\ UNCHANGED <<kind, mod, opens, users, pending, tpc, head, tail, count, written, tx, xsent>>

Next == Open \/ Close \/ Unload \/ Expire \/ Timer \/ CoreWrite \/ CoreXChar

Spec == Init /\ [][Next]_vars

\* A pending timer expires and its function runs on.
Fairness == WF_vars(Expire) /\ WF_vars(Timer)

FairSpec == Spec /\ Fairness

-----------------------------------------------------------------------------
(* Properties                                                              *)

TypeOK ==
  /\ kind \in Kinds /\ mod \in {"loaded", "unloaded", "corrupt"}
  /\ opens \in 0..MaxOpens /\ users \in 0..MaxOpens
  /\ pending \in BOOLEAN /\ x_char \in 0..1
  /\ tpc \in {"idle", "insert", "tx", "xchar", "send"}
  /\ head \in 0..UART_XMIT_SIZE - 1 /\ tail \in 0..UART_XMIT_SIZE - 1
  /\ count \in Int
  /\ written \in 0..MaxChars /\ tx \in 0..2 * MaxChars
  /\ xset \in 0..MaxChars /\ xsent \in 0..MaxChars /\ xlost \in 0..MaxChars

\* tiny_tx_chars against the core that fills the buffer and stores x_char at the same
\* time: icount.tx counts each character of the buffer that has left it once, and each
\* high-priority character that was sent; one of these is sent, waits, or was lost to
\* another that was stored before it was cleared.
TxConserved ==
  /\ tx = written - ((head - tail) % UART_XMIT_SIZE) + xsent
  /\ xset = xsent + xlost + x_char

\* tiny_timer sends at least a character of a filled buffer in each run that finds no
\* high-priority one, although count starts at 0 when fifosize does: what was written
\* gets sent unless the port is closed.
TxDrains == (users > 0) ~> (Empty \/ users = 0 \/ mod = "corrupt")

\* "shut down our timer": once the last user has closed and no function runs the
\* timer is not pending.
ShutdownStopsTimer == users = 0 /\ tpc = "idle" => ~pending
=============================================================================
