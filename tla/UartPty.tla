------------------------------- MODULE UartPty -------------------------------
(***************************************************************************)
(* What is typed at the emulated node on its way to the firmware: through  *)
(* the pseudo-terminal, the thread that serves it, a FIFO into the thread  *)
(* of the processor, the input FIFO of the simulated UART with its XON and *)
(* XOFF, and the receive interrupt or the polling loop of the boot loader. *)
(*                                                                         *)
(* The FIFOs are the channels that Fifo.tla shows them to be.  The bytes   *)
(* are told apart by their numbers, 1, 2, 3 ...; a 0 is what reading an    *)
(* empty FIFO gives.  Timers expire at any time.  Callbacks of the         *)
(* processor's thread do not interrupt one another.                        *)
(***************************************************************************)
EXTENDS Integers, Sequences

CONSTANTS
    MaxTyped,   \* bytes typed
    TapCap,     \* the terminal's buffer, bytes read at a time
    OutCap,     \* room in pty.out, 511 bytes in the code
    InputCap,   \* room in the UART's input FIFO, 63 bytes in the code
    PrintCap    \* room in pty.in, 511 bytes in the code

ASSUME UartAssumption ==
    /\ MaxTyped \in Nat
    /\ {TapCap, OutCap, InputCap, PrintCap} \subseteq Nat \ {0}

VARIABLES
    typed,      \* how many bytes have been typed
    terminal,   \* those that the thread has not read
    buf,        \* port.buffer from buffer_done to buffer_len
    thread,     \* where uart_pty_thread is: "select", "fill" or "drain"
    drains,     \* is the terminal in its write_set?
    out,        \* pty.out
    printed,    \* how many bytes there are in pty.in
    xon, xoff,  \* uart_pty's xon, and the value of the XOFF irq
    flushTimer, rxTimer,    \* uart_pty_flush_timer and avr_uart_rxc_raise
    flushing,   \* the caller of uart_pty_flush_incoming: "none", "xon" or "timer"
    input,      \* the UART's input FIFO
    rxc, rxcie, pending,    \* RXC and RXCIE, and is the interrupt pending?
    program,    \* "boot" (loader), "getch", "app" or "isr"
    received,   \* what the program has read from UDR
    stranded    \* has the application enabled the interrupt with RXC set?

host     == <<typed, terminal>>
pty      == <<buf, thread, drains>>
uart     == <<input, rxTimer>>
flags    == <<rxc, rxcie, pending>>
flow     == <<xon, xoff, flushTimer>>
firmware == <<program, received, stranded>>
vars     == <<host, pty, out, printed, flow, flushing, uart, flags, firmware>>

Init ==
    /\ typed = 0 /\ terminal = <<>>
    /\ buf = <<>> /\ thread = "select" /\ drains = FALSE
    /\ out = <<>> /\ printed = 0
    /\ xon = FALSE /\ xoff = FALSE
    /\ flushTimer = FALSE /\ rxTimer = FALSE
    /\ flushing = "none"
    /\ input = <<>>
    /\ rxc = FALSE /\ rxcie = FALSE /\ pending = FALSE
    /\ program = "boot" /\ received = <<>> /\ stranded = FALSE

Type ==
    /\ typed < MaxTyped
    /\ typed' = typed + 1
    /\ terminal' = Append(terminal, typed + 1)
    /\ UNCHANGED <<pty, out, printed, flow, flushing, uart, flags, firmware>>

-----------------------------------------------------------------------------
(* The thread of the terminal.                                             *)

\* select returns: the terminal is asked for bytes only if the last ones have been
\* passed on, and may be written to if pty.in had a byte when the loop looked.
\* With nothing ready it times out and the loop starts over, without passing on
\* what is left of them.
Select ==
    /\ thread = "select"
    /\ drains' \in {FALSE, printed > 0}
    /\ IF buf = <<>> /\ terminal # <<>>
       THEN \E n \in 1 .. TapCap:
              /\ n <= Len(terminal)
              /\ buf' = SubSeq(terminal, 1, n)
              /\ terminal' = SubSeq(terminal, n + 1, Len(terminal))
       ELSE drains' /\ UNCHANGED <<buf, terminal>>
    /\ thread' = "fill"
    /\ UNCHANGED <<typed, out, printed, flow, flushing, uart, flags, firmware>>

Fill ==
    /\ thread = "fill"
    /\ IF buf # <<>> /\ Len(out) < OutCap
       THEN out' = Append(out, Head(buf)) /\ buf' = Tail(buf) /\ UNCHANGED thread
       ELSE thread' = "drain" /\ UNCHANGED <<out, buf>>
    /\ UNCHANGED <<host, drains, printed, flow, flushing, uart, flags, firmware>>

Drain ==
    /\ thread = "drain"
    /\ printed' = IF drains THEN 0 ELSE printed
    /\ drains' = FALSE
    /\ thread' = "select"
    /\ UNCHANGED <<host, buf, out, flow, flushing, uart, flags, firmware>>

Thread == Select \/ Fill \/ Drain

-----------------------------------------------------------------------------
(* Flow control.                                                           *)

\* Raising XOFF in vain: the irq is filtered, the value was TRUE before.
RaiseXoff ==
    /\ xoff' = TRUE
    /\ IF xoff THEN UNCHANGED <<xon, flushTimer>>
               ELSE xon' = FALSE /\ flushTimer' = FALSE

\* avr_uart_irq_input.
InputByte(byte) ==
    /\ rxTimer' = (rxTimer \/ input = <<>>)
    /\ input' = IF Len(input) < InputCap THEN Append(input, byte) ELSE input
    /\ IF Len(input') = InputCap THEN RaiseXoff ELSE UNCHANGED flow

\* A turn of the loop of uart_pty_flush_incoming.
FlushByte ==
    /\ flushing # "none"
    /\ xon /\ out # <<>>
    /\ out' = Tail(out)
    /\ InputByte(Head(out))
    /\ UNCHANGED <<host, pty, printed, flushing, flags, firmware>>

\* The loop is left; either caller sees to it that the timer runs while xon is set.
FlushEnds ==
    /\ flushing # "none"
    /\ ~(xon /\ out # <<>>)
    /\ flushTimer' = xon
    /\ flushing' = "none"
    /\ UNCHANGED <<host, pty, out, printed, xon, xoff, uart, flags, firmware>>

FlushTimer ==
    /\ flushing = "none"
    /\ flushTimer
    /\ flushTimer' = FALSE
    /\ flushing' = "timer"
    /\ UNCHANGED <<host, pty, out, printed, xon, xoff, uart, flags, firmware>>

\* A slip in avr_uart_rxc_read: XON as soon as there is room for a byte, and not
\* after an XOFF that clears the filter.
TellXonUnfiltered ==
    IF Len(input) < InputCap
    THEN /\ xon' = TRUE /\ flushing' = "xon"
         /\ UNCHANGED <<xoff, flushTimer>>
    ELSE UNCHANGED <<flow, flushing>>

\* avr_uart_rxc_read: reading the status with an empty FIFO raises XOFF, with the
\* value FALSE, which uart_pty does not look at, and then XON.
TellXon ==
    IF input = <<>>
    THEN /\ xon' = TRUE /\ xoff' = FALSE
         /\ flushTimer' = IF xoff THEN FALSE ELSE flushTimer
         /\ flushing' = "xon"
    ELSE UNCHANGED <<flow, flushing>>

-----------------------------------------------------------------------------
(* The receiver and the interrupt.                                         *)

\* avr_uart_rxc_raise, with avr_raise_interrupt.
RxTimer ==
    /\ flushing = "none"
    /\ rxTimer
    /\ rxTimer' = FALSE
    /\ IF pending THEN UNCHANGED <<rxc, pending>>
                  ELSE rxc' = TRUE /\ pending' = rxcie
    /\ UNCHANGED <<host, pty, out, printed, flow, flushing, input, rxcie, firmware>>

\* A slip in avr_uart_read: the timer not started again for the bytes behind.
ReadUdrOnce ==
    /\ rxc' = FALSE
    /\ received' = Append(received, IF input = <<>> THEN 0 ELSE Head(input))
    /\ input' = IF input = <<>> THEN <<>> ELSE Tail(input)
    /\ UNCHANGED rxTimer

\* avr_uart_read.
ReadUdr ==
    /\ rxc' = FALSE
    /\ received' = Append(received, IF input = <<>> THEN 0 ELSE Head(input))
    /\ input' = IF input = <<>> THEN <<>> ELSE Tail(input)
    /\ rxTimer' = (rxTimer \/ input' # <<>>)

\* The boot loader polls the status, and reads the data if RXC was set.
Poll ==
    /\ flushing = "none"
    /\ program = "boot"
    /\ TellXon
    /\ program' = IF rxc THEN "getch" ELSE "boot"
    /\ UNCHANGED <<host, pty, out, printed, uart, flags, received, stranded>>

Getch ==
    /\ flushing = "none"
    /\ program = "getch"
    /\ ReadUdr
    /\ program' = "boot"
    /\ UNCHANGED <<host, pty, out, printed, flow, flushing, rxcie, pending, stranded>>

\* The application begins and enables the receive interrupt, which takes no notice
\* of an RXC that is set already.
BeginApp ==
    /\ flushing = "none"
    /\ program = "boot"
    /\ program' = "app"
    /\ rxcie' = TRUE
    /\ stranded' = rxc
    /\ UNCHANGED <<host, pty, out, printed, flow, flushing, uart, rxc, pending,
                   received>>

\* avr_service_interrupts, avr_clear_interrupt: the handler is called.
Service ==
    /\ flushing = "none"
    /\ program = "app"
    /\ pending
    /\ pending' = FALSE /\ rxc' = FALSE
    /\ program' = "isr"
    /\ UNCHANGED <<host, pty, out, printed, flow, flushing, uart, rxcie, received,
                   stranded>>

\* The handler reads the byte.  (The status it reads before that, for the parity,
\* with a byte in the FIFO tells nobody anything.)
Isr ==
    /\ flushing = "none"
    /\ program = "isr"
    /\ ReadUdr
    /\ program' = "app"
    /\ UNCHANGED <<host, pty, out, printed, flow, flushing, rxcie, pending, stranded>>

\* A slip in _write: pty.in taken to have room for ever.
EmitUnchecked ==
    /\ flushing = "none"
    /\ program = "app"
    /\ printed' = printed + 1
    /\ TellXon
    /\ UNCHANGED <<host, pty, out, uart, flags, firmware>>

\* The application prints a byte: uart_pty_in_hook puts it in pty.in, or drops it,
\* and clearing TXC reads the status.
Emit ==
    /\ flushing = "none"
    /\ program = "app"
    /\ printed' = IF printed < PrintCap THEN printed + 1 ELSE printed
    /\ TellXon
    /\ UNCHANGED <<host, pty, out, uart, flags, firmware>>

Program == Poll \/ Getch \/ BeginApp \/ Service \/ Isr \/ Emit

Flush == FlushByte \/ FlushEnds

Next == Type \/ Thread \/ Flush \/ FlushTimer \/ RxTimer \/ Program

Spec == Init /\ [][Next]_vars

\* The thread runs, timers expire, callbacks return, and between two of them the
\* processor executes instructions: a handler goes on, the loader starts the
\* application in the end, and that prints for ever.
FairSpec ==
    /\ Spec
    /\ WF_vars(Thread) /\ WF_vars(Flush)
    /\ SF_vars(Getch) /\ SF_vars(Isr)
    /\ SF_vars(FlushTimer) /\ SF_vars(RxTimer)
    /\ SF_vars(BeginApp) /\ SF_vars(Service) /\ SF_vars(Emit)

-----------------------------------------------------------------------------
(* Properties.                                                             *)

TypeOK ==
    /\ typed \in 0 .. MaxTyped
    /\ terminal \in Seq(1 .. MaxTyped) /\ Len(terminal) <= MaxTyped
    /\ buf \in Seq(1 .. MaxTyped) /\ Len(buf) <= TapCap
    /\ thread \in {"select", "fill", "drain"} /\ drains \in BOOLEAN
    /\ out \in Seq(1 .. MaxTyped) /\ Len(out) <= OutCap
    /\ printed \in 0 .. PrintCap
    /\ xon \in BOOLEAN /\ xoff \in BOOLEAN
    /\ flushTimer \in BOOLEAN /\ rxTimer \in BOOLEAN
    /\ flushing \in {"none", "xon", "timer"}
    /\ input \in Seq(1 .. MaxTyped) /\ Len(input) <= InputCap
    /\ rxc \in BOOLEAN /\ rxcie \in BOOLEAN /\ pending \in BOOLEAN
    /\ program \in {"boot", "getch", "app", "isr"}
    /\ received \in Seq(0 .. MaxTyped)
    /\ stranded \in BOOLEAN

\* What the program has read and what is on its way to it are the bytes typed, each
\* once and in order: no FIFO is ever written when it is full, and UDR is never read
\* when the UART's is empty.
NothingLost ==
    received \o input \o out \o buf \o terminal = [k \in 1 .. typed |-> k]

\* As long as there are bytes in the UART something will make the program read the
\* next: the timer, the flag the loader polls, or the interrupt; unless a byte that
\* came in between the loader's last look and the application's begin lies there
\* with its flag set and no interrupt.
ByteAnnounced ==
    input # <<>> /\ ~stranded =>
        \/ rxTimer
        \/ program \in {"boot", "getch"} /\ rxc
        \/ pending
        \/ program = "isr"

\* Every byte typed is read in the end, through every FIFO however full, unless the
\* receiver is stranded.
TypedIsRead ==
    \A k \in 1 .. MaxTyped: typed >= k ~> Len(received) >= k \/ stranded
=============================================================================
