----------------------------- MODULE Interrupts -----------------------------
(***************************************************************************)
(* Boot, interrupts and the console: src/boot.S, src/kernel.cpp,           *)
(* src/interrupts/, src/timer/timer.cpp, src/uart/ and read_line of        *)
(* src/shell/shell.cpp, on both boards.                                    *)
(*                                                                         *)
(* One core runs the foreground program (boot, the initialisation of the   *)
(* subsystems, then the loop that reads lines and echoes them) and is      *)
(* interrupted by the timer and the UART, or by a fault of its own.  The   *)
(* foreground's registers are the one register x0, which holds uart_getc's *)
(* result.  The initialisations that touch neither interrupts nor the      *)
(* console are left out; of the output only prompts and echoes are kept.   *)
(***************************************************************************)
EXTENDS Integers, Sequences, SequencesExt

CONSTANTS
  Boards,      \* a subset of {"pi3", "pi5"}
  Chars,       \* what is typed: characters, "BS", "DEL", "CR", and "CTRL" for
               \* the control characters that read_line discards ("PROMPT" is
               \* what the shell prints, and is no character)
  Faults,      \* exception classes a faulting store may raise, or "none"
  FIFO_SIZE,   \* characters the UART holds, received
  TX_SIZE,     \* and to be transmitted
  MAX_LINE,    \* size of the line buffer, terminator included
  MaxTicks,    \* bound: how often the timer expires
  MaxChars     \* bound: how many characters are typed

VARIABLES
  board,
  pc,          \* what the core executes
  masked,      \* PSTATE.I
  elr, spsr,   \* ELR_EL1 and the I bit of SPSR_EL1
  x0,          \* general registers
  stack,       \* frames pushed by save_registers
  enabled,     \* sources the interrupt controller lets through
  active,      \* GIC: is the timer interrupt acknowledged and not ended?
  timer_on, expired,  \* the timer; expired is the level of its line
  time,        \* tick counter of timer.cpp
  ticks,       \* history: how often the timer has expired
  uart_on, rx_irq, fifo,    \* the UART; rx_irq is its raw receive interrupt
  pending,     \* the handler's snapshot: is the timer pending?
  fault,       \* the exception read_line's store raises, "none" if none
  line,        \* read_line's buffer
  out,         \* what uart_puts has still to put
  tx,          \* the UART's transmit FIFO
  screen,      \* the terminal: what is right of the prompt, and the cursor
  typed,       \* history: what the FIFO took since the line was begun
  received     \* history: how many characters were sent to the UART

core    == <<pc, masked, elr, spsr, x0, stack>>
control == <<enabled, active>>
timer   == <<timer_on, expired, time, ticks>>
uart    == <<uart_on, rx_irq, fifo, typed, received>>
serial  == <<out, tx, screen>>
vars    == <<board, core, control, timer, uart, pending, fault, line, serial>>

ASSUME InterruptsAssumption ==
  /\ Boards \subseteq {"pi3", "pi5"}
  /\ FIFO_SIZE \in Nat /\ TX_SIZE \in Nat /\ MaxTicks \in Nat
  /\ MAX_LINE \in Nat /\ MAX_LINE >= 2
  /\ "PROMPT" \notin Chars

Sources == {"timer", "uart"}

\* On the Pi 5 the UART's interrupt is not routed to the core.
Wired(b) == IF b = "pi5" THEN {"timer"} ELSE Sources

\* The firmware may leave sources enabled.
Init ==
  /\ board \in Boards
  /\ pc = "boot" /\ masked = TRUE
  /\ elr = "boot" /\ spsr = TRUE /\ x0 = "" /\ stack = <<>>
  /\ enabled \in SUBSET Wired(board) /\ active = FALSE
  /\ timer_on = FALSE /\ expired = FALSE /\ time = 0 /\ ticks = 0
  /\ uart_on = FALSE /\ rx_irq = FALSE /\ fifo = <<>>
  /\ pending = FALSE
  /\ fault \in Faults
  /\ line = <<>> /\ typed = <<>> /\ received = 0
  /\ out = <<>> /\ tx = <<>> /\ screen = [cells |-> <<>>, cursor |-> 0]

At(here, next) == pc = here /\ pc' = next

-----------------------------------------------------------------------------
(* The foreground: boot.S and kernel_main.                                 *)

\* uart_puts(s), then uart_getc: uart_putc has its character in x0, which is
\* dead ("") once the last one has been put.
puts(s) ==
  /\ pc'  = IF s = <<>> THEN "getc" ELSE "putc"
  /\ x0'  = IF s = <<>> THEN "" ELSE Head(s)
  /\ out' = IF s = <<>> THEN s ELSE Tail(s)

\* The vector table is installed and IRQs are unmasked before any device has
\* been initialised.
unmask_irqs ==
  /\ At("boot", "uart_init")
  /\ masked' = FALSE
  /\ UNCHANGED <<board, elr, spsr, x0, stack, control, timer, uart, pending, fault, line, serial>>

uart_init ==
  /\ At("uart_init", "timer_init")
  /\ rx_irq' = FALSE /\ uart_on' = TRUE
  /\ UNCHANGED <<board, masked, elr, spsr, x0, stack, control, timer, fifo, typed, received,
                 pending, fault, line, serial>>

timer_init ==
  /\ At("timer_init", "interrupt_init")
  /\ expired' = FALSE /\ timer_on' = TRUE
  /\ UNCHANGED <<board, masked, elr, spsr, x0, stack, control, time, ticks, uart, pending, fault, line, serial>>

\* Pi 3: the peripherals' interrupts are disabled, the core's timer is not.
\* Pi 5: the distributor is switched off, and on again at the end.
interrupt_init ==
  /\ At("interrupt_init", "enable")
  /\ enabled' = enabled \ {"uart"}
  /\ UNCHANGED <<board, masked, elr, spsr, x0, stack, active, timer, uart, pending, fault, line, serial>>

\* Fault: the timer's bit is not set.
enable_sources_NoTimer ==
  /\ pc = "enable"
  /\ enabled' = IF board = "pi3" THEN {"uart"} ELSE enabled
  /\ puts(<<"PROMPT">>)
  /\ UNCHANGED <<board, masked, elr, spsr, stack, active, timer, uart, pending, fault, line,
                 tx, screen>>

\* The last of the initialisation, its enabling writes in one step; shell_run
\* prints its first prompt.  The sources are those a handler services: the ARM
\* timer of the BCM2835 (basic IRQ 0), which interrupts_pi3.cpp:144 enables too
\* and nothing starts, is none of them.  The Pi 5 writes its distributor
\* and CPU interface (interrupts_pi5.cpp:127-137; see Delivering).
enable_sources ==
  /\ pc = "enable"
  /\ enabled' = enabled \cup Wired(board)
  /\ puts(<<"PROMPT">>)
  /\ UNCHANGED <<board, masked, elr, spsr, stack, active, timer, uart, pending, fault, line,
                 tx, screen>>

\* uart_putc polls until there is room in the transmit FIFO.
uart_putc ==
  /\ pc = "putc" /\ Len(tx) < TX_SIZE
  /\ tx' = Append(tx, x0)
  /\ puts(out)
  /\ UNCHANGED <<board, masked, elr, spsr, stack, control, timer, uart, pending, fault, line,
                 screen>>

\* uart_getc polls until the receive FIFO is not empty.
uart_getc ==
  /\ At("getc", "store") /\ fifo # <<>>
  /\ x0' = Head(fifo) /\ fifo' = Tail(fifo)
  /\ rx_irq' \in {rx_irq, FALSE}
  /\ UNCHANGED <<board, masked, elr, spsr, stack, control, timer, uart_on, typed, received,
                 pending, fault, line, serial>>

\* A polling loop, or the one the synchronous handler ends in.
Spin ==
  /\ \/ pc = "getc" /\ fifo = <<>>
     \/ pc = "putc" /\ Len(tx) = TX_SIZE
     \/ pc = "halt"
  /\ UNCHANGED vars

Printable(c) == c \notin {"BS", "CR", "CTRL"}   \* c >= 32, so DEL is

\* What read_line makes of one character other than CR.
Edit(buf, c) ==
  IF c \in {"BS", "DEL"} /\ buf # <<>> THEN Front(buf)
  ELSE IF Printable(c) THEN Append(buf, c)
  ELSE buf

LineEnds(buf, c) == c = "CR" \/ Len(Edit(buf, c)) = MAX_LINE - 1

\* Fault: backspace moves the terminal's cursor and erases nothing.
Echo_NoErase(buf, c) ==
  IF c = "CR" THEN <<"CR">>
  ELSE IF c \in {"BS", "DEL"} /\ buf # <<>> THEN <<"BS">>
  ELSE IF Printable(c) THEN <<c>>
  ELSE <<>>

\* What read_line prints for it.
Echo(buf, c) ==
  IF c = "CR" THEN <<"CR">>
  ELSE IF c \in {"BS", "DEL"} /\ buf # <<>> THEN <<"BS", " ", "BS">>
  ELSE IF Printable(c) THEN <<c>>
  ELSE <<>>

Prompt(buf, c) == IF LineEnds(buf, c) THEN <<"PROMPT">> ELSE <<>>

\* The character goes into the line and is echoed; a line that ends is handed
\* to the shell, which runs the command, prints its prompt and begins another.
store ==
  /\ pc = "store" /\ fault = "none"
  /\ line' = IF LineEnds(line, x0) THEN <<>> ELSE Edit(line, x0)
  /\ typed' = IF LineEnds(line, x0) THEN fifo ELSE typed
  /\ puts(Echo(line, x0) \o Prompt(line, x0))
  /\ UNCHANGED <<board, masked, elr, spsr, stack, control, timer, uart_on, rx_irq, fifo,
                 received, pending, fault, tx, screen>>

\* The store, or the command it leads to, raises an exception, whatever the
\* I bit is.
TakeSync ==
  /\ At("store", "save_sync") /\ fault # "none"
  /\ elr' = pc /\ spsr' = masked /\ masked' = TRUE
  /\ UNCHANGED <<board, x0, stack, control, timer, uart, pending, fault, line, serial>>

Foreground ==
  \/ unmask_irqs \/ uart_init \/ timer_init
  \/ interrupt_init \/ enable_sources
  \/ uart_getc \/ uart_putc \/ Spin \/ store \/ TakeSync

-----------------------------------------------------------------------------
(* The devices.                                                            *)

TimerExpires ==
  /\ timer_on /\ ~expired /\ ticks < MaxTicks
  /\ expired' = TRUE /\ ticks' = ticks + 1
  /\ UNCHANGED <<board, core, control, timer_on, time, uart, pending, fault, line, serial>>

\* The UART raises its interrupt when the FIFO has reached its level, or after
\* a while.
CharArrives ==
  \E c \in Chars, raise \in BOOLEAN :
    /\ uart_on /\ Len(fifo) < FIFO_SIZE /\ received < MaxChars
    /\ fifo' = Append(fifo, c) /\ typed' = Append(typed, c) /\ received' = received + 1
    /\ rx_irq' = (rx_irq \/ raise)
    /\ UNCHANGED <<board, core, control, timer, uart_on, pending, fault, line, serial>>

\* A character that finds the FIFO full is lost, which is an interrupt as well.
CharLost ==
  /\ uart_on /\ Len(fifo) = FIFO_SIZE /\ received < MaxChars
  /\ received' = received + 1 /\ rx_irq' = TRUE
  /\ UNCHANGED <<board, core, control, timer, uart_on, fifo, typed, pending, fault, line, serial>>

\* What a character does to the terminal: CR and a prompt begin a line, a
\* backspace moves the cursor, DEL is ignored.
Show(t, c) ==
  CASE c \in {"PROMPT", "CR"} -> [cells |-> <<>>, cursor |-> 0]
    [] c = "BS"  -> [t EXCEPT !.cursor = @ - 1]
    [] c = "DEL" -> t
    [] OTHER     ->
         LET at == t.cursor + 1
         IN  [cells  |-> IF at \in DOMAIN t.cells THEN [t.cells EXCEPT ![at] = c]
                         ELSE IF at > 0 THEN Append(t.cells, c) ELSE t.cells,
              cursor |-> at]

Transmit ==
  /\ tx # <<>>
  /\ tx' = Tail(tx) /\ screen' = Show(screen, Head(tx))
  /\ UNCHANGED <<board, core, control, timer, uart, pending, fault, line, out>>

TimerPending == "timer" \in enabled /\ expired /\ ~active
UartPending  == "uart" \in enabled /\ uart_on /\ rx_irq

\* While interrupt_init runs on the Pi 5 the distributor passes nothing.
Delivering == ~(board = "pi5" /\ pc = "enable")

-----------------------------------------------------------------------------
(* Exception entry and return: the core and vector_table.S.                *)

TakeIrq ==
  /\ ~masked
  /\ (TimerPending /\ Delivering) \/ UartPending
  /\ elr' = pc /\ spsr' = masked /\ masked' = TRUE
  /\ pc' = "save"
  /\ UNCHANGED <<board, x0, stack, control, timer, uart, pending, fault, line, serial>>

save_registers ==
  /\ At("save", "handle") \/ At("save_sync", "decode")
  /\ stack' = Append(stack, [x0 |-> x0, elr |-> elr, spsr |-> spsr])
  /\ x0' = elr
  /\ UNCHANGED <<board, masked, elr, spsr, control, timer, uart, pending, fault, line, serial>>

\* Fault: x0 is restored before it is used to restore ELR_EL1.
load_registers_Scratch ==
  /\ At("load", "eret")
  /\ elr' = Last(stack).elr /\ spsr' = Last(stack).spsr
  /\ x0' = Last(stack).elr
  /\ stack' = Front(stack)
  /\ UNCHANGED <<board, masked, control, timer, uart, pending, fault, line, serial>>

\* Fault: SP is not moved back.
load_registers_Leak ==
  /\ At("load", "eret")
  /\ elr' = Last(stack).elr /\ spsr' = Last(stack).spsr
  /\ x0' = Last(stack).x0
  /\ UNCHANGED <<board, masked, stack, control, timer, uart, pending, fault, line, serial>>

load_registers ==
  /\ At("load", "eret")
  /\ elr' = Last(stack).elr /\ spsr' = Last(stack).spsr
  /\ x0' = Last(stack).x0
  /\ stack' = Front(stack)
  /\ UNCHANGED <<board, masked, control, timer, uart, pending, fault, line, serial>>

\* ELR_EL1 and SPSR_EL1 are dead from here until the next exception sets them.
eret ==
  /\ At("eret", elr)
  /\ masked' = spsr
  /\ elr' = "boot" /\ spsr' = TRUE
  /\ UNCHANGED <<board, x0, stack, control, timer, uart, pending, fault, line, serial>>

-----------------------------------------------------------------------------
(* handle_synchronous_interrupts and handle_interrupt_requests.            *)

\* The exception classes it has a case for that ends in a loop: aborts of
\* instruction and of data, and an illegal execution state.
Fatal == {"0x20", "0x21", "0x24", "0x25", "0x0E"}

\* Fault: the cases end in break.
handle_synchronous_interrupts_Break ==
  /\ At("decode", "load")
  /\ UNCHANGED <<board, masked, elr, spsr, x0, stack, control, timer, uart, pending, fault,
                 line, serial>>

\* For other classes it returns, to the instruction that raised the exception.
handle_synchronous_interrupts ==
  /\ At("decode", IF fault \in Fatal THEN "halt" ELSE "load")
  /\ UNCHANGED <<board, masked, elr, spsr, x0, stack, control, timer, uart, pending, fault,
                 line, serial>>

\* Pi 3: IRQ_C0_SOURCE.  Pi 5: GICC_IAR, which acknowledges the interrupt.
read_status ==
  /\ At("handle", IF board = "pi3" THEN "uart" ELSE "timer")
  /\ pending' = TimerPending
  /\ active' = (board = "pi5" /\ TimerPending)
  /\ x0' = "status"
  /\ UNCHANGED <<board, masked, elr, spsr, stack, enabled, timer, uart, fault, line, serial>>

\* Fault: the interrupt is not cleared in the UART.
uart_handle_irq_Keep ==
  At("uart", "timer") /\ UNCHANGED <<board, masked, elr, spsr, x0, stack, control, timer, uart,
                                     pending, fault, line, serial>>

\* UART0_ICR, when IRQ_P2 shows the UART pending.
uart_handle_irq ==
  /\ At("uart", "timer")
  /\ rx_irq' = IF UartPending THEN FALSE ELSE rx_irq
  /\ UNCHANGED <<board, masked, elr, spsr, x0, stack, control, timer, uart_on, fifo, typed,
                 received, pending, fault, line, serial>>

\* Fault: CNTP_TVAL_EL0 is not written.
reload_timer_None ==
  /\ At("timer", IF pending THEN "tick" ELSE "end")
  /\ UNCHANGED <<board, masked, elr, spsr, x0, stack, control, timer, uart, pending, fault, line, serial>>

\* CNTP_TVAL_EL0 := freq / 10.
reload_timer ==
  /\ At("timer", IF pending THEN "tick" ELSE "end")
  /\ expired' = (expired /\ ~pending)
  /\ UNCHANGED <<board, masked, elr, spsr, x0, stack, control, timer_on, time, ticks, uart,
                 pending, fault, line, serial>>

increment_time ==
  /\ At("tick", "end")
  /\ time' = time + 1
  /\ UNCHANGED <<board, masked, elr, spsr, x0, stack, control, timer_on, expired, ticks,
                 uart, pending, fault, line, serial>>

\* Pi 5: GICC_EOIR.  The handler's locals go with it.
end_interrupt ==
  /\ At("end", "load")
  /\ active' = FALSE /\ pending' = FALSE
  /\ UNCHANGED <<board, masked, elr, spsr, x0, stack, enabled, timer, uart, fault, line, serial>>

Handler ==
  \/ save_registers \/ handle_synchronous_interrupts \/ read_status \/ uart_handle_irq \/ reload_timer
  \/ increment_time \/ end_interrupt \/ load_registers \/ eret

Next ==
  \/ Foreground \/ TakeIrq \/ Handler
  \/ TimerExpires \/ CharArrives \/ CharLost \/ Transmit

\* The core executes the next instruction of whatever it runs, and takes an
\* interrupt that is pending and not masked within finite time, also when
\* exceptions keep masking it in between.  The UART transmits.
Fairness ==
  /\ WF_vars(Foreground) /\ WF_vars(Handler) /\ SF_vars(TakeIrq)
  /\ WF_vars(Transmit)

Spec == Init /\ [][Next]_vars /\ Fairness

-----------------------------------------------------------------------------
(* Properties.                                                             *)

ForegroundPcs == {"boot", "uart_init", "timer_init", "interrupt_init", "enable", "putc", "getc", "store"}
HandlerPcs    == {"save", "save_sync", "decode", "halt", "handle", "uart", "timer", "tick", "end", "load", "eret"}

TypeOK ==
  /\ board \in Boards /\ pc \in ForegroundPcs \cup HandlerPcs
  /\ masked \in BOOLEAN /\ spsr \in BOOLEAN /\ elr \in ForegroundPcs
  /\ Len(stack) <= 1
  /\ enabled \subseteq Wired(board)
  /\ time \in 0 .. MaxTicks /\ ticks \in 0 .. MaxTicks
  /\ fifo \in Seq(Chars) /\ Len(fifo) <= FIFO_SIZE
  /\ line \in Seq(Chars) /\ Len(line) < MAX_LINE
  /\ Len(tx) <= TX_SIZE

\* An interrupt leaves no trace in the program it interrupts: whenever the
\* foreground runs, the stack is where it was and IRQs are unmasked again, so
\* the next interrupt is taken as the first one was.
InterruptsLeaveNoTrace ==
  pc \in ForegroundPcs => stack = <<>> /\ (pc # "boot" => ~masked)

\* The line that read_line makes of some characters.
Edited(chars) ==
  LET buf[n \in 0 .. Len(chars)] == IF n = 0 THEN <<>> ELSE Edit(buf[n - 1], chars[n])
  IN  buf[Len(chars)]

Consumed == Len(typed) - Len(fifo) - (IF pc = "store" THEN 1 ELSE 0)

\* Every character that the FIFO took is in the line, once and in order,
\* edited as read_line does; the one uart_getc has just returned survives in
\* its register whatever interrupts come before it is stored.
CharactersReachLine ==
  pc \in {"getc", "store"} =>
    LET inHand == IF pc = "store" THEN <<x0>> ELSE <<>>
    IN  /\ typed = SubSeq(typed, 1, Consumed) \o inHand \o fifo
        /\ line = Edited(SubSeq(typed, 1, Consumed))

\* DEL on an empty line is stored as a character, which no terminal shows.
DelStored ==
  \E n \in 1 .. Consumed : "DEL" \in Range(Edited(SubSeq(typed, 1, n)))

\* What the user sees is what the shell will get: when read_line waits and the
\* UART has sent everything, the terminal shows the line, blanks after it and
\* the cursor behind its last character.
ScreenShowsLine ==
  pc = "getc" /\ tx = <<>> /\ ~DelStored =>
    /\ screen.cursor = Len(line)
    /\ \A i \in DOMAIN screen.cells :
         screen.cells[i] = IF i <= Len(line) THEN line[i] ELSE " "
    /\ Len(line) <= Len(screen.cells)

\* Each time the timer expires time advances by one, also when it expires
\* between the handler's steps or before interrupt_init: no tick is counted
\* twice and none is lost.
EveryTickCountedOnce ==
  ticks = time + (IF expired THEN 1 ELSE 0) + (IF pc = "tick" THEN 1 ELSE 0)

\* A tick does not stay uncounted, also when the foreground executes a faulting
\* instruction again and again; unless the core has stopped for good.
TicksAreCounted == \A n \in 1 .. MaxTicks : ticks >= n ~> (time >= n \/ pc = "halt")

\* Interrupts do not keep the shell from reading what was typed: every run of
\* the handler silences what it was called for.
CharactersAreRead == fifo # <<>> ~> (fifo = <<>> \/ fault # "none")

\* An exception of a class with a case stops the core for good.
FatalFaultsHalt == pc = "store" /\ fault \in Fatal ~> [](pc = "halt")
=============================================================================
