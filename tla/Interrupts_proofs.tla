------------------------- MODULE Interrupts_proofs --------------------------
(***************************************************************************)
(* Proofs about Interrupts.tla.  The inductive invariant says, for each    *)
(* step of a handler, where the interrupted program's registers are: still *)
(* in the registers, or in the frame on the stack.                         *)
(***************************************************************************)
EXTENDS Interrupts, NumberLemmas, SequenceTheorems, TLAPS

\* The steps at which the interrupted program's registers are in place, and
\* those at which they are in the frame.
Entering == {"save", "save_sync", "eret"}
Handling == {"decode", "halt", "handle", "uart", "timer", "tick", "end", "load"}

\* The foreground runs with IRQs unmasked and nothing on the stack; nothing
\* interrupts a handler, and what it will return to is such a state.
ControlInv ==
  /\ pc \in ForegroundPcs \cup Entering \cup Handling
  /\ elr \in ForegroundPcs /\ spsr \in BOOLEAN
  /\ pc \in ForegroundPcs => stack = <<>> /\ masked = (pc = "boot")
  /\ pc \in Entering =>
       masked = TRUE /\ stack = <<>> /\ elr # "boot" /\ spsr = FALSE
  /\ pc \in Handling =>
       \E x, e : /\ masked = TRUE /\ e \in ForegroundPcs \ {"boot"}
                 /\ stack = << [x0 |-> x, elr |-> e, spsr |-> FALSE] >>

LEMMA Pcs ==
  /\ ForegroundPcs = {"boot", "uart_init", "timer_init", "interrupt_init", "enable",
                      "putc", "getc", "store"}
  /\ HandlerPcs = Entering \cup Handling
BY DEF ForegroundPcs, HandlerPcs, Entering, Handling

LEMMA InitControl == Init => ControlInv
BY DEF Init, ControlInv, ForegroundPcs, Entering, Handling

LEMMA ForegroundControl ==
  ASSUME ControlInv, Foreground
  PROVE  ControlInv'
<1>1. CASE unmask_irqs
  BY <1>1 DEF ControlInv, ForegroundPcs, Entering, Handling, unmask_irqs, At
<1>2. CASE uart_init \/ timer_init \/ interrupt_init
  BY <1>2 DEF ControlInv, ForegroundPcs, Entering, Handling, uart_init, timer_init, interrupt_init, At
<1>3. CASE enable_sources \/ uart_putc \/ store
  BY <1>3, ZenonT(60)
     DEF ControlInv, ForegroundPcs, Entering, Handling, enable_sources, uart_putc, store, puts
<1>4. CASE uart_getc
  BY <1>4 DEF ControlInv, ForegroundPcs, Entering, Handling, uart_getc, At
<1>5. CASE Spin
  BY <1>5 DEF ControlInv, Spin, vars, core
<1>6. CASE TakeSync
  BY <1>6 DEF ControlInv, ForegroundPcs, Entering, Handling, TakeSync, At
<1> QED
  BY <1>1, <1>2, <1>3, <1>4, <1>5, <1>6 DEF Foreground

\* What the devices do.
Device == TimerExpires \/ CharArrives \/ CharLost \/ Transmit

LEMMA DeviceKeepsCore ==
  ASSUME Device
  PROVE  UNCHANGED <<board, core, control, pending, fault, line, time, out>>
BY DEF Device, TimerExpires, CharArrives, CharLost, Transmit, core, control, uart, timer, serial

LEMMA AppendToEmpty == ASSUME NEW r PROVE Append(<<>>, r) = <<r>>
OBVIOUS

\* Entry and return: what goes into the frame comes out of it.
LEMMA EntryControl ==
  ASSUME ControlInv, TakeIrq \/ save_registers \/ load_registers \/ eret
  PROVE  ControlInv'
<1>1. CASE TakeIrq
  BY <1>1 DEF ControlInv, ForegroundPcs, Entering, Handling, TakeIrq
<1>2. CASE save_registers
  <2>1. /\ pc \in {"save", "save_sync"} /\ pc' \in {"handle", "decode"}
        /\ stack' = Append(stack, [x0 |-> x0, elr |-> elr, spsr |-> spsr])
        /\ UNCHANGED <<masked, elr, spsr>>
    BY <1>2 DEF save_registers, At
  <2>2. /\ stack = <<>> /\ masked = TRUE /\ elr \in ForegroundPcs \ {"boot"} /\ spsr = FALSE
    BY <2>1 DEF ControlInv, Entering
  <2>3. stack' = << [x0 |-> x0, elr |-> elr, spsr |-> FALSE] >>
    <3>1. stack' = << [x0 |-> x0, elr |-> elr, spsr |-> spsr] >>
      BY <2>1, <2>2, AppendToEmpty
    <3> QED
      BY <2>2, <3>1, Zenon
  <2> QED
    BY <2>1, <2>2, <2>3 DEF ControlInv, ForegroundPcs, Entering, Handling
<1>3. CASE load_registers
  <2>1. /\ pc = "load" /\ pc' = "eret" /\ UNCHANGED masked
        /\ elr' = Last(stack).elr /\ spsr' = Last(stack).spsr /\ stack' = Front(stack)
    BY <1>3 DEF load_registers, At
  <2>2. PICK x, e : /\ masked = TRUE /\ e \in ForegroundPcs \ {"boot"}
                    /\ stack = << [x0 |-> x, elr |-> e, spsr |-> FALSE] >>
    BY <2>1 DEF ControlInv, Handling
  <2>3. Last(stack) = [x0 |-> x, elr |-> e, spsr |-> FALSE] /\ Front(stack) = <<>>
    BY <2>2 DEF Last, Front
  <2>4. Last(stack).elr = e /\ Last(stack).spsr = FALSE
    <3>1. [x0 |-> x, elr |-> e, spsr |-> FALSE].elr = e
      OBVIOUS
    <3>2. [x0 |-> x, elr |-> e, spsr |-> FALSE].spsr = FALSE
      OBVIOUS
    <3> QED
      BY <2>3, <3>1, <3>2, Zenon
  <2>5. masked' = TRUE /\ stack' = <<>> /\ elr' \in ForegroundPcs \ {"boot"} /\ spsr' = FALSE
    BY <2>1, <2>2, <2>3, <2>4
  <2> QED
    BY <2>1, <2>5 DEF ControlInv, ForegroundPcs, Entering, Handling
<1>4. CASE eret
  BY <1>4 DEF ControlInv, ForegroundPcs, Entering, Handling, eret, At
<1> QED
  BY <1>1, <1>2, <1>3, <1>4

\* The steps of the handlers proper.
Serve ==
  \/ handle_synchronous_interrupts \/ read_status \/ uart_handle_irq
  \/ reload_timer \/ increment_time \/ end_interrupt

LEMMA ServeKeepsFrame ==
  ASSUME Serve
  PROVE  /\ pc \in {"decode", "handle", "uart", "timer", "tick", "end"}
         /\ pc' \in {"halt", "load", "uart", "timer", "tick", "end"}
         /\ UNCHANGED <<board, masked, elr, spsr, stack, enabled, ticks, timer_on,
                        fifo, typed, fault, line, out, tx, screen>>
BY DEF Serve, handle_synchronous_interrupts, read_status, uart_handle_irq, reload_timer,
       increment_time, end_interrupt, At, control, uart, timer, serial

LEMMA StepControl == ControlInv /\ [Next]_vars => ControlInv'
<1> SUFFICES ASSUME ControlInv, [Next]_vars PROVE ControlInv'
  OBVIOUS
<1>1. CASE Foreground
  BY <1>1, ForegroundControl
<1>2. CASE TakeIrq \/ save_registers \/ load_registers \/ eret
  BY <1>2, EntryControl
<1>3. CASE Serve
  <2>1. /\ pc \in Handling /\ pc' \in Handling /\ pc' \notin ForegroundPcs \cup Entering
        /\ UNCHANGED <<masked, elr, spsr, stack>>
    BY <1>3, ServeKeepsFrame DEF Handling, Entering, ForegroundPcs
  <2> QED
    BY <2>1 DEF ControlInv
<1>4. CASE Device \/ UNCHANGED vars
  <2>1. UNCHANGED <<pc, masked, elr, spsr, stack>>
    BY <1>4, DeviceKeepsCore DEF vars, core
  <2> QED
    BY <2>1 DEF ControlInv
<1> QED
  BY <1>1, <1>2, <1>3, <1>4 DEF Next, Handler, Serve, Device

-----------------------------------------------------------------------------
(* Ticks.                                                                  *)

\* Where the foreground is, interrupted or not.
Resume ==
  IF pc \in ForegroundPcs THEN pc
  ELSE IF pc \in Entering THEN elr
  ELSE stack[1].elr

\* The handler counts a tick only after it has seen and silenced one, and the
\* timer is silent until timer_init has run.
TickInv ==
  /\ time \in Nat /\ ticks \in 0 .. MaxTicks
  /\ expired \in BOOLEAN /\ pending \in BOOLEAN
  /\ EveryTickCountedOnce
  /\ pc \in {"uart", "timer"} /\ pending => expired
  /\ ~timer_on => ~expired
  /\ Resume \in {"boot", "uart_init", "timer_init"} => ~timer_on

\* An interrupt or exception, and its return, resume where they came.
LEMMA ResumeKept ==
  ASSUME ControlInv,
         TakeIrq \/ TakeSync \/ save_registers \/ Serve \/ load_registers \/ eret
  PROVE  Resume' = Resume
<1>1. CASE TakeIrq \/ TakeSync
  BY <1>1 DEF ControlInv, Resume, ForegroundPcs, Entering, Handling, TakeIrq, TakeSync, At
<1>2. CASE save_registers
  <2>1. /\ pc \in {"save", "save_sync"} /\ pc' \in {"handle", "decode"}
        /\ stack' = Append(stack, [x0 |-> x0, elr |-> elr, spsr |-> spsr])
    BY <1>2 DEF save_registers, At
  <2>2. stack = <<>>
    BY <2>1 DEF ControlInv, Entering
  <2>3. stack'[1].elr = elr
    BY <2>1, <2>2
  <2> QED
    BY <2>1, <2>3 DEF Resume, ForegroundPcs, Entering
<1>3. CASE Serve
  BY <1>3, ServeKeepsFrame DEF Resume, ForegroundPcs, Entering
<1>4. CASE load_registers
  <2>1. pc = "load" /\ pc' = "eret" /\ elr' = Last(stack).elr
    BY <1>4 DEF load_registers, At
  <2>2. PICK x, e : stack = << [x0 |-> x, elr |-> e, spsr |-> FALSE] >>
    BY <2>1 DEF ControlInv, Handling
  <2>3. Last(stack) = stack[1]
    BY <2>2 DEF Last
  <2> QED
    BY <2>1, <2>3 DEF Resume, ForegroundPcs, Entering
<1>5. CASE eret
  BY <1>5 DEF ControlInv, Resume, ForegroundPcs, Entering, Handling, eret, At
<1> QED
  BY <1>1, <1>2, <1>3, <1>4, <1>5

LEMMA InitTick == Init => TickInv
<1> SUFFICES ASSUME Init PROVE TickInv
  OBVIOUS
<1>1. /\ time = 0 /\ ticks = 0 /\ ~expired /\ ~pending /\ ~timer_on /\ pc = "boot"
      /\ expired \in BOOLEAN /\ pending \in BOOLEAN
  BY DEF Init
<1>2. EveryTickCountedOnce
  BY <1>1 DEF EveryTickCountedOnce
<1> QED
  BY <1>1, <1>2, InterruptsAssumption DEF TickInv

LEMMA StepTick == ControlInv /\ TickInv /\ [Next]_vars => TickInv'
<1> SUFFICES ASSUME ControlInv, TickInv, [Next]_vars PROVE TickInv'
  OBVIOUS
<1> USE DEF TickInv, EveryTickCountedOnce
<1>1. CASE timer_init
  <2>1. /\ pc = "timer_init" /\ pc' = "interrupt_init"
        /\ UNCHANGED <<time, ticks, pending>> /\ ~expired /\ ~expired' /\ expired' = FALSE
        /\ timer_on' = TRUE
    BY <1>1 DEF timer_init, At, Resume, ForegroundPcs
  <2>2. Resume' = "interrupt_init"
    BY <2>1 DEF Resume, ForegroundPcs
  <2> QED
    BY <2>1, <2>2
<1>2. CASE Foreground /\ ~timer_init /\ ~TakeSync
  <2>1. /\ UNCHANGED <<time, ticks, expired, pending, timer_on>>
        /\ pc \in ForegroundPcs \cup {"halt"} /\ pc' \in ForegroundPcs \cup {"halt"}
        /\ UNCHANGED vars \/ /\ pc \in ForegroundPcs /\ pc' \in ForegroundPcs
                             /\ pc' # "boot"
                             /\ pc' \in {"uart_init", "timer_init"} => pc \in {"boot", "uart_init"}
    BY <1>2 DEF Foreground, unmask_irqs, uart_init, interrupt_init, enable_sources, uart_getc,
                uart_putc, puts, Spin, store, At, timer, vars, core, ForegroundPcs
  <2>2. CASE UNCHANGED vars
    BY <2>1, <2>2 DEF vars, core, Resume
  <2>3. CASE pc \in ForegroundPcs /\ pc' \in ForegroundPcs
    <3>1. Resume = pc /\ Resume' = pc'
      BY <2>3 DEF Resume
    <3>2. pc' \notin {"uart", "timer", "tick"} /\ pc \notin {"uart", "timer", "tick"}
      BY <2>3 DEF ForegroundPcs
    <3> QED
      BY <2>1, <3>1, <3>2 DEF vars, core
  <2> QED
    BY <2>1, <2>2, <2>3, SMTT(30)
<1>3. CASE TakeIrq \/ TakeSync \/ save_registers \/ load_registers \/ eret
  <2>1. /\ UNCHANGED <<time, ticks, expired, pending, timer_on>>
        /\ pc \notin {"uart", "timer", "tick"} /\ pc' \notin {"uart", "timer", "tick"}
    BY <1>3 DEF ControlInv, ForegroundPcs, Entering, Handling, TakeIrq, TakeSync,
                save_registers, load_registers, eret, At, timer
  <2>2. Resume' = Resume
    BY <1>3, ResumeKept
  <2> QED
    BY <2>1, <2>2, SMTT(30)
<1>4. CASE Serve
  <2>1. Resume' = Resume
    BY <1>4, ResumeKept
  <2>2. CASE handle_synchronous_interrupts \/ uart_handle_irq
    <3>1. /\ UNCHANGED <<time, ticks, expired, pending, timer_on>>
          /\ pc # "tick" /\ pc' # "tick"
          /\ pc' \in {"uart", "timer"} => pc = "uart"
      BY <2>2 DEF handle_synchronous_interrupts, uart_handle_irq, At, timer
    <3> QED
      BY <2>1, <3>1
  <2>3. CASE read_status
    <3>1. /\ pc = "handle" /\ pc' \in {"uart", "timer"}
          /\ UNCHANGED <<time, ticks, expired, timer_on>>
          /\ pending' = TimerPending
      BY <2>3 DEF read_status, At, timer
    <3>2. pending' \in BOOLEAN /\ (pending' => expired')
      BY <3>1 DEF TimerPending
    <3> QED
      BY <2>1, <3>1, <3>2
  <2>4. CASE reload_timer
    <3>1. /\ pc = "timer" /\ pc' = IF pending THEN "tick" ELSE "end"
          /\ UNCHANGED <<time, ticks, pending, timer_on>>
      BY <2>4 DEF reload_timer, At
    <3>2. expired' = (expired /\ ~pending) /\ expired' \in BOOLEAN
      BY <2>4 DEF reload_timer
    <3>3. CASE pending
      <4>1. expired /\ ~expired' /\ pc' = "tick"
        BY <3>1, <3>2, <3>3
      <4> QED
        BY <2>1, <3>1, <3>2, <4>1
    <3>4. CASE ~pending
      <4>1. (expired' <=> expired) /\ pc' = "end"
        BY <3>1, <3>2, <3>4
      <4> QED
        BY <2>1, <3>1, <3>2, <4>1
    <3> QED
      BY <3>3, <3>4
  <2>5. CASE increment_time
    BY <2>1, <2>5 DEF increment_time, At
  <2>6. CASE end_interrupt
    BY <2>1, <2>6 DEF end_interrupt, At, timer
  <2> QED
    BY <1>4, <2>2, <2>3, <2>4, <2>5, <2>6 DEF Serve
<1>5. CASE TimerExpires
  <2>1. Resume' = Resume
    BY <1>5 DEF TimerExpires, core, Resume
  <2> QED
    BY <1>5, <2>1, InterruptsAssumption DEF TimerExpires, core
<1>6. CASE CharArrives \/ CharLost \/ Transmit \/ UNCHANGED vars
  <2>1. UNCHANGED <<core, timer, pending>>
    BY <1>6 DEF CharArrives, CharLost, Transmit, vars
  <2> QED
    BY <2>1 DEF core, timer, Resume
<1> QED
  BY <1>1, <1>2, <1>3, <1>4, <1>5, <1>6 DEF Next, Foreground, Handler, Serve

-----------------------------------------------------------------------------
(* The line, the FIFOs and the register between them.                      *)

Glyphs == Chars \cup {"PROMPT", "CR", "BS", " "}

\* The foreground's x0, wherever it is.
Register == IF pc \in Handling THEN stack[1].x0 ELSE x0

BuffersInv ==
  /\ board \in Boards /\ enabled \subseteq Wired(board)
  /\ fifo \in Seq(Chars) /\ Len(fifo) <= FIFO_SIZE
  /\ line \in Seq(Chars) /\ Len(line) < MAX_LINE - 1
  /\ tx \in Seq(Glyphs) /\ Len(tx) <= TX_SIZE
  /\ out \in Seq(Glyphs)
  /\ Resume = "putc" => Register \in Glyphs
  /\ Resume = "store" => Register \in Chars

\* An interrupt or exception, and its return, keep the foreground's x0,
\* although the stub and the handlers use the register.
LEMMA RegisterKept ==
  ASSUME ControlInv,
         TakeIrq \/ TakeSync \/ save_registers \/ Serve \/ load_registers \/ eret
  PROVE  Register' = Register
<1>1. CASE TakeIrq \/ TakeSync
  BY <1>1 DEF ControlInv, Register, ForegroundPcs, Entering, Handling, TakeIrq, TakeSync, At
<1>2. CASE save_registers
  <2>1. /\ pc \in {"save", "save_sync"} /\ pc' \in {"handle", "decode"}
        /\ stack' = Append(stack, [x0 |-> x0, elr |-> elr, spsr |-> spsr])
    BY <1>2 DEF save_registers, At
  <2>2. stack = <<>>
    BY <2>1 DEF ControlInv, Entering
  <2>3. stack'[1].x0 = x0
    BY <2>1, <2>2
  <2> QED
    BY <2>1, <2>3 DEF Register, Handling
<1>3. CASE Serve
  BY <1>3, ServeKeepsFrame DEF Register, Handling
<1>4. CASE load_registers
  <2>1. pc = "load" /\ pc' = "eret" /\ x0' = Last(stack).x0
    BY <1>4 DEF load_registers, At
  <2>2. PICK x, e : stack = << [x0 |-> x, elr |-> e, spsr |-> FALSE] >>
    BY <2>1 DEF ControlInv, Handling
  <2>3. Last(stack) = stack[1]
    BY <2>2 DEF Last
  <2> QED
    BY <2>1, <2>3 DEF Register, Handling
<1>5. CASE eret
  BY <1>5 DEF ControlInv, Register, ForegroundPcs, Entering, Handling, eret, At
<1> QED
  BY <1>1, <1>2, <1>3, <1>4, <1>5

LEMMA PutsTyped ==
  ASSUME NEW s \in Seq(Glyphs), puts(s)
  PROVE  /\ out' \in Seq(Glyphs) /\ pc' \in {"getc", "putc"}
         /\ pc' = "putc" => x0' \in Glyphs
<1>1. CASE s = <<>>
  BY <1>1 DEF puts
<1>2. CASE s # <<>>
  <2>1. Head(s) \in Glyphs /\ Tail(s) \in Seq(Glyphs)
    BY <1>2
  <2>2. pc' = "putc" /\ x0' = Head(s) /\ out' = Tail(s)
    BY <1>2 DEF puts
  <2> QED
    BY <2>1, <2>2
<1> QED
  BY <1>1, <1>2

\* A line that does not end is at least two characters shorter than its
\* buffer, so the next character and the terminator fit.
LEMMA EditTyped ==
  ASSUME NEW buf \in Seq(Chars), NEW c \in Chars, Len(buf) < MAX_LINE - 1,
         ~LineEnds(buf, c)
  PROVE  Edit(buf, c) \in Seq(Chars) /\ Len(Edit(buf, c)) < MAX_LINE - 1
<1>1. MAX_LINE \in Nat
  BY InterruptsAssumption
<1>2. Len(Edit(buf, c)) # MAX_LINE - 1
  BY DEF LineEnds
<1>3. CASE c \in {"BS", "DEL"} /\ buf # <<>>
  <2>1. Edit(buf, c) = SubSeq(buf, 1, Len(buf) - 1)
    BY <1>3 DEF Edit, Front
  <2> QED
    BY <1>1, <1>3, <2>1
<1>4. CASE ~(c \in {"BS", "DEL"} /\ buf # <<>>) /\ Printable(c)
  <2>1. Edit(buf, c) = Append(buf, c)
    BY <1>4 DEF Edit
  <2> QED
    BY <1>1, <1>2, <2>1
<1>5. CASE ~(c \in {"BS", "DEL"} /\ buf # <<>>) /\ ~Printable(c)
  BY <1>5 DEF Edit
<1> QED
  BY <1>3, <1>4, <1>5

LEMMA OneTyped ==
  ASSUME NEW S, NEW a \in S
  PROVE  <<a>> \in Seq(S)
OBVIOUS

LEMMA ThreeTyped ==
  ASSUME NEW S, NEW a \in S, NEW b \in S, NEW d \in S
  PROVE  <<a, b, d>> \in Seq(S)
<1>1. <<a, b, d>> = Append(Append(<<a>>, b), d)
  OBVIOUS
<1>2. <<a>> \in Seq(S)
  BY OneTyped
<1> QED
  BY <1>1, <1>2

LEMMA EchoTyped ==
  ASSUME NEW buf, NEW c \in Chars
  PROVE  Echo(buf, c) \o Prompt(buf, c) \in Seq(Glyphs)
<1>1. Echo(buf, c) \in Seq(Glyphs)
  <2>1. Echo(buf, c) \in {<<"CR">>, <<"BS", " ", "BS">>, <<c>>, <<>>}
    BY DEF Echo
  <2>2. {"CR", "BS", " ", c} \subseteq Glyphs
    BY DEF Glyphs
  <2>3. <<"CR">> \in Seq(Glyphs)
    BY <2>2, OneTyped
  <2>4. <<c>> \in Seq(Glyphs)
    BY <2>2, OneTyped
  <2>5. <<"BS", " ", "BS">> \in Seq(Glyphs)
    BY <2>2, ThreeTyped
  <2>6. <<>> \in Seq(Glyphs)
    OBVIOUS
  <2> QED
    BY <2>1, <2>3, <2>4, <2>5, <2>6
<1>2. Prompt(buf, c) \in Seq(Glyphs)
  <2>1. Prompt(buf, c) \in {<<"PROMPT">>, <<>>}
    BY DEF Prompt
  <2>2. "PROMPT" \in Glyphs
    BY DEF Glyphs
  <2>3. {<<"PROMPT">>, <<>>} \subseteq Seq(Glyphs)
    BY <2>2
  <2> QED
    BY <2>1, <2>3
<1> QED
  BY <1>1, <1>2

LEMMA InitBuffers == Init => BuffersInv
<1> SUFFICES ASSUME Init PROVE BuffersInv
  OBVIOUS
<1>1. board \in Boards /\ enabled \subseteq Wired(board)
  BY DEF Init
<1>2. fifo = <<>> /\ line = <<>> /\ tx = <<>> /\ out = <<>>
  BY DEF Init
<1>3. Len(fifo) <= FIFO_SIZE /\ Len(tx) <= TX_SIZE /\ Len(line) < MAX_LINE - 1
  BY <1>2, InterruptsAssumption
<1>4. Resume = "boot"
  BY DEF Init, Resume, ForegroundPcs
<1>5. /\ fifo \in Seq(Chars) /\ line \in Seq(Chars)
      /\ tx \in Seq(Glyphs) /\ out \in Seq(Glyphs)
  BY <1>2
<1> QED
  BY <1>1, <1>3, <1>4, <1>5 DEF BuffersInv

LEMMA StepBuffers == ControlInv /\ BuffersInv /\ [Next]_vars => BuffersInv'
<1> SUFFICES ASSUME ControlInv, BuffersInv, [Next]_vars PROVE BuffersInv'
  OBVIOUS
<1>1. ASSUME pc' \in ForegroundPcs
      PROVE  Resume' = pc' /\ Register' = x0'
  BY <1>1 DEF Resume, Register, ForegroundPcs, Handling
<1>2. ASSUME pc \in ForegroundPcs
      PROVE  Resume = pc /\ Register = x0
  BY <1>2 DEF Resume, Register, ForegroundPcs, Handling
<1>3. CASE unmask_irqs \/ uart_init \/ timer_init \/ interrupt_init
  <2>1. /\ UNCHANGED <<board, fifo, line, tx, out>> /\ enabled' \subseteq enabled
        /\ pc' \in ForegroundPcs \ {"putc", "store"}
    BY <1>3 DEF unmask_irqs, uart_init, timer_init, interrupt_init, At, ForegroundPcs,
                control, uart, serial
  <2> QED
    BY <1>1, <2>1 DEF BuffersInv
<1>4. CASE enable_sources
  <2>1. <<"PROMPT">> \in Seq(Glyphs)
    BY DEF Glyphs
  <2>2. /\ UNCHANGED <<board, fifo, line, tx>> /\ enabled' = enabled \cup Wired(board)
        /\ puts(<<"PROMPT">>)
    BY <1>4 DEF enable_sources, uart
  <2> QED
    BY <1>1, <2>1, <2>2, PutsTyped DEF BuffersInv, ForegroundPcs
<1>5. CASE uart_getc
  <2>1. /\ UNCHANGED <<board, enabled, line, tx, out>>
        /\ pc' = "store" /\ fifo # <<>> /\ x0' = Head(fifo) /\ fifo' = Tail(fifo)
    BY <1>5 DEF uart_getc, At, control, serial
  <2>2. x0' \in Chars /\ fifo' \in Seq(Chars) /\ Len(fifo') <= FIFO_SIZE
    BY <2>1, InterruptsAssumption DEF BuffersInv
  <2> QED
    BY <1>1, <2>1, <2>2 DEF BuffersInv, ForegroundPcs
<1>6. CASE uart_putc
  <2>1. /\ UNCHANGED <<board, enabled, line, fifo>>
        /\ pc = "putc" /\ Len(tx) < TX_SIZE /\ tx' = Append(tx, x0) /\ puts(out)
    BY <1>6 DEF uart_putc, control, uart
  <2>2. x0 \in Glyphs /\ tx \in Seq(Glyphs) /\ out \in Seq(Glyphs)
    BY <1>2, <2>1 DEF BuffersInv, ForegroundPcs
  <2>3. tx' \in Seq(Glyphs) /\ Len(tx') <= TX_SIZE
    BY <2>1, <2>2, InterruptsAssumption
  <2> QED
    BY <1>1, <2>1, <2>2, <2>3, PutsTyped DEF BuffersInv, ForegroundPcs
<1>7. CASE store
  <2>1. /\ UNCHANGED <<board, enabled, fifo, tx>> /\ pc = "store"
        /\ line' = IF LineEnds(line, x0) THEN <<>> ELSE Edit(line, x0)
        /\ puts(Echo(line, x0) \o Prompt(line, x0))
    BY <1>7 DEF store, control, uart
  <2>2. x0 \in Chars
    BY <1>2, <2>1 DEF BuffersInv, ForegroundPcs
  <2>3. line' \in Seq(Chars) /\ Len(line') < MAX_LINE - 1
    <3>1. CASE LineEnds(line, x0)
      BY <2>1, <3>1, InterruptsAssumption
    <3>2. CASE ~LineEnds(line, x0)
      BY <2>1, <2>2, <3>2, EditTyped DEF BuffersInv
    <3> QED
      BY <3>1, <3>2
  <2> QED
    BY <1>1, <2>1, <2>2, <2>3, EchoTyped, PutsTyped DEF BuffersInv, ForegroundPcs
<1>8. CASE TakeIrq \/ TakeSync \/ save_registers \/ Serve \/ load_registers \/ eret
  <2>1. UNCHANGED <<board, enabled, fifo, line, tx, out>>
    BY <1>8, ServeKeepsFrame DEF TakeIrq, TakeSync, save_registers, load_registers, eret,
                                 control, uart, serial
  <2>2. Resume' = Resume /\ Register' = Register
    BY <1>8, ResumeKept, RegisterKept
  <2> QED
    BY <2>1, <2>2 DEF BuffersInv
<1>9. CASE Device
  <2>1. /\ UNCHANGED <<board, enabled, line, out>>
        /\ Resume' = Resume /\ Register' = Register
    BY <1>9, DeviceKeepsCore DEF core, control, Resume, Register
  <2>2. fifo' \in Seq(Chars) /\ Len(fifo') <= FIFO_SIZE
    <3>1. CASE CharArrives
      BY <3>1, InterruptsAssumption DEF CharArrives, BuffersInv
    <3>2. CASE ~CharArrives
      BY <1>9, <3>2 DEF Device, TimerExpires, CharLost, Transmit, uart, BuffersInv
    <3> QED
      BY <3>1, <3>2
  <2>3. tx' \in Seq(Glyphs) /\ Len(tx') <= TX_SIZE
    <3>1. CASE Transmit
      BY <3>1, InterruptsAssumption DEF Transmit, BuffersInv
    <3>2. CASE ~Transmit
      BY <1>9, <3>2 DEF Device, TimerExpires, CharLost, CharArrives, serial, BuffersInv
    <3> QED
      BY <3>1, <3>2
  <2> QED
    BY <2>1, <2>2, <2>3 DEF BuffersInv
<1>10. CASE Spin \/ UNCHANGED vars
  BY <1>10 DEF Spin, vars, core, control, uart, serial, BuffersInv, Resume, Register
<1> QED
  BY <1>3, <1>4, <1>5, <1>6, <1>7, <1>8, <1>9, <1>10
     DEF Next, Foreground, Handler, Serve, Device

-----------------------------------------------------------------------------
(* What read_line makes of the characters, and what the terminal shows.    *)

LEMMA EditClosed ==
  ASSUME NEW buf \in Seq(Chars), NEW c \in Chars
  PROVE  Edit(buf, c) \in Seq(Chars)
<1>1. CASE c \in {"BS", "DEL"} /\ buf # <<>>
  <2>1. Edit(buf, c) = SubSeq(buf, 1, Len(buf) - 1)
    BY <1>1 DEF Edit, Front
  <2> QED
    BY <1>1, <2>1
<1>2. CASE ~(c \in {"BS", "DEL"} /\ buf # <<>>) /\ Printable(c)
  <2>1. Edit(buf, c) = Append(buf, c)
    BY <1>2 DEF Edit
  <2> QED
    BY <2>1
<1>3. CASE ~(c \in {"BS", "DEL"} /\ buf # <<>>) /\ ~Printable(c)
  BY <1>3 DEF Edit
<1> QED
  BY <1>1, <1>2, <1>3

\* buf is the buffer after each of the characters.
Buffers(buf, chars) ==
  buf = [n \in 0 .. Len(chars) |-> IF n = 0 THEN <<>> ELSE Edit(buf[n - 1], chars[n])]

LEMMA BuffersExist ==
  ASSUME NEW chars \in Seq(Chars)
  PROVE  \E buf : Buffers(buf, chars) /\ Edited(chars) = buf[Len(chars)]
<1> DEFINE n    == Len(chars)
           T    == Seq(Chars)
           step == [j \in 1 .. n |-> [x \in T |-> Edit(x, chars[j])]]
           some == CHOOSE buf : Buffers(buf, chars)
<1>1. step \in [1 .. n -> [T -> T]]
  <2>1. ASSUME NEW j \in 1 .. n, NEW x \in T
        PROVE  Edit(x, chars[j]) \in T
    BY EditClosed, SMTT(30)
  <2> HIDE DEF T
  <2> QED
    BY <2>1
<1>2. \A j \in 1 .. n, x \in T : step[j][x] = Edit(x, chars[j])
  OBVIOUS
<1>3. <<>> \in T /\ n \in Nat
  OBVIOUS
<1> HIDE DEF step, n, T
<1>4. PICK g \in [0 .. n -> T] : g[0] = <<>> /\ \A j \in 1 .. n : g[j] = step[j][g[j - 1]]
  BY <1>1, <1>3, Iterate, SMTT(60)
<1>5. ASSUME NEW j \in 0 .. n
      PROVE  g[j] = IF j = 0 THEN <<>> ELSE Edit(g[j - 1], chars[j])
  <2>1. CASE j = 0
    BY <1>4, <2>1
  <2>2. CASE j # 0
    <3>1. j \in 1 .. n /\ j - 1 \in 0 .. n
      BY <1>3, <2>2
    <3>2. g[j - 1] \in T /\ g[j] = step[j][g[j - 1]]
      BY <1>4, <3>1
    <3> QED
      BY <1>2, <2>2, <3>1, <3>2
  <2> QED
    BY <2>1, <2>2
<1>6. Buffers(g, chars)
  BY <1>4, <1>5 DEF Buffers, n
<1>7. Buffers(some, chars)
  BY <1>6, Zenon
<1>8. Edited(chars) = some[n]
  BY Zenon DEF Edited, Buffers, n
<1> QED
  BY <1>7, <1>8 DEF n

LEMMA EditedNothing == Edited(<<>>) = <<>>
<1>1. <<>> \in Seq(Chars) /\ Len(<<>>) = 0
  OBVIOUS
<1>2. PICK buf : Buffers(buf, <<>>) /\ Edited(<<>>) = buf[0]
  BY <1>1, BuffersExist
<1> QED
  BY <1>1, <1>2 DEF Buffers

\* One more character edits the line that the others have made.
LEMMA EditedAppend ==
  ASSUME NEW chars \in Seq(Chars), NEW c \in Chars
  PROVE  Edited(Append(chars, c)) = Edit(Edited(chars), c)
<1> DEFINE more == Append(chars, c)
           n    == Len(chars)
<1>1. /\ more \in Seq(Chars) /\ Len(more) = n + 1 /\ more[n + 1] = c /\ n \in Nat
      /\ \A j \in 1 .. n : more[j] = chars[j]
  OBVIOUS
<1> HIDE DEF more
<1>2. PICK a : Buffers(a, chars) /\ Edited(chars) = a[n]
  BY BuffersExist
<1>3. PICK b : Buffers(b, more) /\ Edited(more) = b[n + 1]
  BY <1>1, BuffersExist
<1>4. a[0] = <<>> /\ \A j \in 1 .. n : a[j] = Edit(a[j - 1], chars[j])
  <2>1. a = [j \in 0 .. n |-> IF j = 0 THEN <<>> ELSE Edit(a[j - 1], chars[j])]
    BY <1>2, Zenon DEF Buffers
  <2>2. 0 \in 0 .. n /\ \A j \in 1 .. n : j \in 0 .. n /\ j # 0
    BY <1>1
  <2> HIDE DEF n
  <2>3. \A j \in 0 .. n : a[j] = IF j = 0 THEN <<>> ELSE Edit(a[j - 1], chars[j])
    BY <2>1, Zenon
  <2>4. a[0] = <<>>
    BY <2>2, <2>3, Zenon
  <2>5. ASSUME NEW j \in 1 .. n
        PROVE  a[j] = Edit(a[j - 1], chars[j])
    <3>1. j \in 0 .. n /\ j # 0
      BY <2>2
    <3> QED
      BY <2>3, <3>1, Zenon
  <2> QED
    BY <2>4, <2>5, Zenon
<1>5. b[0] = <<>> /\ \A j \in 1 .. n + 1 : b[j] = Edit(b[j - 1], more[j])
  <2>1. b = [j \in 0 .. n + 1 |-> IF j = 0 THEN <<>> ELSE Edit(b[j - 1], more[j])]
    BY <1>1, <1>3, Zenon DEF Buffers
  <2>2. 0 \in 0 .. n + 1 /\ \A j \in 1 .. n + 1 : j \in 0 .. n + 1 /\ j # 0
    BY <1>1
  <2> HIDE DEF n
  <2>3. \A j \in 0 .. n + 1 : b[j] = IF j = 0 THEN <<>> ELSE Edit(b[j - 1], more[j])
    BY <2>1, Zenon
  <2>4. b[0] = <<>>
    BY <2>2, <2>3, Zenon
  <2>5. ASSUME NEW j \in 1 .. n + 1
        PROVE  b[j] = Edit(b[j - 1], more[j])
    <3>1. j \in 0 .. n + 1 /\ j # 0
      BY <2>2
    <3> QED
      BY <2>3, <3>1, Zenon
  <2> QED
    BY <2>4, <2>5, Zenon
<1> HIDE DEF n
<1> DEFINE S == {j \in Nat : j <= n => a[j] = b[j]}
<1>6. Nat \subseteq S
  <2>1. 0 \in S
    BY <1>4, <1>5
  <2>2. ASSUME NEW j \in Nat, j \in S
        PROVE  j + 1 \in S
    <3> SUFFICES ASSUME j + 1 <= n PROVE a[j + 1] = b[j + 1]
      OBVIOUS
    <3>1. j + 1 \in 1 .. n /\ j + 1 \in 1 .. n + 1 /\ (j + 1) - 1 = j
      BY <1>1
    <3>2. a[j + 1] = Edit(a[j], chars[j + 1]) /\ b[j + 1] = Edit(b[j], more[j + 1])
      BY <1>4, <1>5, <3>1
    <3> QED
      BY <1>1, <2>2, <3>1, <3>2
  <2> HIDE DEF S
  <2> QED
    BY <2>1, <2>2, InductionOnNat
<1>7. a[n] = b[n]
  BY <1>1, <1>6
<1>8. n + 1 \in 1 .. n + 1 /\ (n + 1) - 1 = n
  BY <1>1
<1>9. b[n + 1] = Edit(b[n], c)
  BY <1>1, <1>5, <1>8
<1> QED
  BY <1>2, <1>3, <1>7, <1>9 DEF more

Terminals == [cells : Seq(Glyphs), cursor : Int]

\* Putting the glyphs s on the terminal t makes it u.
Shown(t, s, u) ==
  \E h \in [0 .. Len(s) -> Terminals] :
    h[0] = t /\ h[Len(s)] = u /\ \A j \in 1 .. Len(s) : h[j] = Show(h[j - 1], s[j])

LEMMA ShowTyped ==
  ASSUME NEW t \in Terminals, NEW c \in Glyphs
  PROVE  Show(t, c) \in Terminals
<1>1. t.cells \in Seq(Glyphs) /\ t.cursor \in Int
  BY DEF Terminals
<1>2. CASE c \in {"PROMPT", "CR"}
  BY <1>2 DEF Show, Terminals
<1>3. CASE c \notin {"PROMPT", "CR"} /\ c = "BS"
  <2>1. Show(t, c) = [t EXCEPT !.cursor = @ - 1]
    BY <1>3 DEF Show
  <2>2. t.cursor - 1 \in Int
    BY <1>1
  <2> QED
    BY <2>1, <2>2 DEF Terminals
<1>4. CASE c \notin {"PROMPT", "CR", "BS"} /\ c = "DEL"
  BY <1>4 DEF Show
<1>5. CASE c \notin {"PROMPT", "CR", "BS", "DEL"}
  <2> DEFINE at   == t.cursor + 1
             next == IF at \in DOMAIN t.cells THEN [t.cells EXCEPT ![at] = c]
                     ELSE IF at > 0 THEN Append(t.cells, c) ELSE t.cells
  <2>1. Show(t, c) = [cells |-> next, cursor |-> at]
    BY <1>5 DEF Show
  <2>2. at \in Int /\ next \in Seq(Glyphs)
    BY <1>1
  <2> QED
    BY <2>1, <2>2 DEF Terminals
<1> QED
  BY <1>2, <1>3, <1>4, <1>5

LEMMA ShownNothing == ASSUME NEW t \in Terminals PROVE Shown(t, <<>>, t)
<1> DEFINE h == [j \in 0 .. 0 |-> t]
<1>1. h \in [0 .. 0 -> Terminals] /\ h[0] = t
  OBVIOUS
<1> HIDE DEF h
<1> QED
  BY <1>1 DEF Shown

LEMMA ShownTyped ==
  ASSUME NEW t, NEW s \in Seq(Glyphs), NEW u, Shown(t, s, u)
  PROVE  t \in Terminals /\ u \in Terminals
BY DEF Shown

\* One more glyph is put on what the others have made.
LEMMA ShownAppend ==
  ASSUME NEW t, NEW s \in Seq(Glyphs), NEW u, NEW c \in Glyphs, Shown(t, s, u)
  PROVE  Append(s, c) \in Seq(Glyphs) /\ Shown(t, Append(s, c), Show(u, c))
<1> DEFINE n == Len(s)
<1>1. PICK h \in [0 .. n -> Terminals] :
        h[0] = t /\ h[n] = u /\ \A j \in 1 .. n : h[j] = Show(h[j - 1], s[j])
  BY DEF Shown
<1> DEFINE k    == [j \in 0 .. n + 1 |-> IF j = n + 1 THEN Show(u, c) ELSE h[j]]
           more == Append(s, c)
<1>2. /\ n \in Nat /\ Len(more) = n + 1 /\ more[n + 1] = c
      /\ \A j \in 1 .. n : more[j] = s[j]
  OBVIOUS
<1>3. Show(u, c) \in Terminals
  BY <1>1, <1>2, ShowTyped
<1> HIDE DEF more, n
<1>4. k \in [0 .. n + 1 -> Terminals] /\ k[n + 1] = Show(u, c) /\ \A j \in 0 .. n : k[j] = h[j]
  BY <1>1, <1>2, <1>3
<1> HIDE DEF k
<1>5. ASSUME NEW j \in 1 .. n + 1
      PROVE  k[j] = Show(k[j - 1], more[j])
  <2>1. j - 1 \in 0 .. n
    BY <1>2
  <2>2. CASE j = n + 1
    BY <1>1, <1>2, <1>4, <2>1, <2>2
  <2>3. CASE j # n + 1
    <3>1. j \in 1 .. n /\ j \in 0 .. n
      BY <1>2, <2>3
    <3> QED
      BY <1>1, <1>2, <1>4, <2>1, <3>1
  <2> QED
    BY <2>2, <2>3
<1>6. k[0] = t
  BY <1>1, <1>2, <1>4
<1>7. Shown(t, more, Show(u, c))
  BY <1>2, <1>4, <1>5, <1>6, SMTT(30) DEF Shown
<1>8. Append(s, c) \in Seq(Glyphs)
  OBVIOUS
<1> QED
  BY <1>7, <1>8 DEF more

\* The first glyph may be put before the others.
LEMMA ShownTail ==
  ASSUME NEW t, NEW s \in Seq(Glyphs), NEW u, s # <<>>, Shown(t, s, u)
  PROVE  Shown(Show(t, Head(s)), Tail(s), u)
<1> DEFINE n == Len(s)
<1>1. PICK h \in [0 .. n -> Terminals] :
        h[0] = t /\ h[n] = u /\ \A j \in 1 .. n : h[j] = Show(h[j - 1], s[j])
  BY DEF Shown
<1> DEFINE k    == [j \in 0 .. n - 1 |-> h[j + 1]]
           rest == Tail(s)
<1>2. /\ n \in Nat \ {0} /\ Len(rest) = n - 1 /\ s[1] = Head(s)
      /\ \A j \in 1 .. n - 1 : rest[j] = s[j + 1]
  OBVIOUS
<1> HIDE DEF rest, n
<1>3. k \in [0 .. n - 1 -> Terminals] /\ \A j \in 0 .. n - 1 : k[j] = h[j + 1]
  BY <1>1, <1>2
<1> HIDE DEF k
<1>4. k[0] = Show(t, Head(s))
  <2>1. 0 \in 0 .. n - 1 /\ 1 \in 1 .. n /\ 0 + 1 = 1 /\ 1 - 1 = 0
    BY <1>2
  <2> QED
    BY <1>1, <1>2, <1>3, <2>1
<1>5. k[n - 1] = u
  <2>1. n - 1 \in 0 .. n - 1 /\ (n - 1) + 1 = n
    BY <1>2
  <2> QED
    BY <1>1, <1>3, <2>1
<1>6. ASSUME NEW j \in 1 .. n - 1
      PROVE  k[j] = Show(k[j - 1], rest[j])
  <2>1. j \in 0 .. n - 1 /\ j - 1 \in 0 .. n - 1 /\ j + 1 \in 1 .. n /\ (j - 1) + 1 = j
        /\ (j + 1) - 1 = j
    BY <1>2
  <2> QED
    BY <1>1, <1>2, <1>3, <2>1
<1>7. Shown(Show(t, Head(s)), rest, u)
  BY <1>2, <1>3, <1>4, <1>5, <1>6, ZenonT(60) DEF Shown
<1> QED
  BY <1>7 DEF rest

-----------------------------------------------------------------------------
(* Sequences put together.                                                 *)

LEMMA HeadBefore ==
  ASSUME NEW S, NEW s \in Seq(S), s # <<>>
  PROVE  s = <<Head(s)>> \o Tail(s)
OBVIOUS

LEMMA Middle ==
  ASSUME NEW S, NEW a \in Seq(S), NEW x \in S, NEW b \in Seq(S)
  PROVE  /\ Append(a, x) \in Seq(S) /\ <<x>> \in Seq(S)
         /\ Append(a, x) \o b = (a \o <<x>>) \o b
         /\ (a \o <<x>>) \o b = a \o (<<x>> \o b)
<1>1. <<x>> \in Seq(S)
  OBVIOUS
<1>2. Append(a, x) = a \o <<x>>
  OBVIOUS
<1> QED
  BY <1>1, <1>2, ConcatAssociative, SMTT(30)

\* What is appended to two sequences put together is appended to the second.
Ends(a, b, x) == Append(a \o b, x) = a \o Append(b, x)

LEMMA LastOut ==
  ASSUME NEW S, NEW a \in Seq(S), NEW b \in Seq(S), NEW x \in S
  PROVE  Ends(a, b, x)
BY SMTT(30) DEF Ends

LEMMA MiddleChar ==
  \A a, b \in Seq(Chars), x \in Chars :
    /\ Append(a, x) \in Seq(Chars)
    /\ Append(a, x) \o b = (a \o <<x>>) \o b
    /\ (a \o <<x>>) \o b = a \o (<<x>> \o b)
<1> TAKE a, b \in Seq(Chars), x \in Chars
<1>1. <<x>> \in Seq(Chars) /\ Append(a, x) \in Seq(Chars) /\ Append(a, x) = a \o <<x>>
  BY AppendProperties, AppendIsConcat
<1>2. (a \o <<x>>) \o b = a \o (<<x>> \o b)
  BY <1>1, ConcatAssociative, SMTT(30)
<1> QED
  BY <1>1, <1>2

LEMMA MiddleGlyph ==
  \A a, b \in Seq(Glyphs), x \in Glyphs : (a \o <<x>>) \o b = a \o (<<x>> \o b)
BY Middle, SMTT(30)

LEMMA JoinGlyphs ==
  \A a, b, d \in Seq(Glyphs) : (a \o b) \o d = a \o (b \o d)
BY ConcatAssociative, SMTT(30)

LEMMA NoneBetween ==
  ASSUME NEW S, NEW a \in Seq(S), NEW b \in Seq(S)
  PROVE  (a \o <<>>) \o b = a \o b /\ a \o <<>> = a /\ <<>> \o a = a
OBVIOUS


\* The first of three sequences put together.
LeadsAll(a, b, d) ==
  /\ (a \o b) \o d # <<>>
  /\ Head((a \o b) \o d) = Head(a)
  /\ Tail((a \o b) \o d) = (Tail(a) \o b) \o d

LEMMA FirstOut ==
  ASSUME NEW S, NEW a \in Seq(S), NEW b \in Seq(S), NEW d \in Seq(S), a # <<>>
  PROVE  LeadsAll(a, b, d)
<1>1. \A s, t \in Seq(S) : s # <<>> =>
        /\ s \o t \in Seq(S) /\ s \o t # <<>>
        /\ Head(s \o t) = Head(s) /\ Tail(s \o t) = Tail(s) \o t
  BY SMTT(30)
<1>2. PICK w : w = a \o b
  OBVIOUS
<1>3. w \in Seq(S) /\ w # <<>> /\ Head(w) = Head(a) /\ Tail(w) = Tail(a) \o b
  BY <1>1, <1>2
<1>4. w \o d # <<>> /\ Head(w \o d) = Head(w) /\ Tail(w \o d) = Tail(w) \o d
  BY <1>1, <1>3
<1> QED
  BY <1>2, <1>3, <1>4, Zenon DEF LeadsAll

LEMMA PrefixOfConcat ==
  ASSUME NEW S, NEW a \in Seq(S), NEW b \in Seq(S), NEW d \in Seq(S),
         NEW n \in 0 .. Len(a)
  PROVE  SubSeq((a \o b) \o d, 1, n) = SubSeq(a, 1, n)
<1>1. \A s, t \in Seq(S) : n <= Len(s) => n <= Len(s \o t) /\ s \o t \in Seq(S)
  OBVIOUS
<1>2. ASSUME NEW s \in Seq(S), NEW t \in Seq(S), n <= Len(s)
      PROVE  SubSeq(s \o t, 1, n) = SubSeq(s, 1, n)
  BY <1>2
<1>3. n <= Len(a)
  OBVIOUS
<1>4. n <= Len(a \o b) /\ a \o b \in Seq(S)
  BY <1>1, <1>3
<1>5. SubSeq(a \o b, 1, n) = SubSeq(a, 1, n)
  BY <1>2, <1>3
<1>6. SubSeq((a \o b) \o d, 1, n) = SubSeq(a \o b, 1, n)
  BY <1>2, <1>4
<1> QED
  BY <1>5, <1>6

-----------------------------------------------------------------------------
(* What the terminal shows.                                                *)

\* The terminal shows the line, blanks after it and the cursor behind it.
Shows(t, text) ==
  /\ t.cursor = Len(text)
  /\ \A i \in DOMAIN t.cells : t.cells[i] = IF i <= Len(text) THEN text[i] ELSE " "
  /\ Len(text) <= Len(t.cells)

Blank == [cells |-> <<>>, cursor |-> 0]

LEMMA BlankShows == Shows(Blank, <<>>)
BY DEF Shows, Blank

LEMMA FrontIs ==
  ASSUME NEW S, NEW s \in Seq(S), s # <<>>
  PROVE  /\ Len(Front(s)) = Len(s) - 1
         /\ \A i \in 1 .. Len(s) - 1 : Front(s)[i] = s[i]
<1> DEFINE n == Len(s) - 1
<1>1. n \in Nat /\ \A i \in 1 .. n : s[i] \in S
  OBVIOUS
<1> HIDE DEF n
<1>2. /\ Len(SubSeq(s, 1, n)) = IF 1 <= n THEN n - 1 + 1 ELSE 0
      /\ \A i \in 1 .. n - 1 + 1 : SubSeq(s, 1, n)[i] = s[1 + i - 1]
  BY <1>1, SubSeqProperties
<1>3. Front(s) = SubSeq(s, 1, n)
  BY DEF Front, n
<1>4. Len(SubSeq(s, 1, n)) = n /\ \A i \in 1 .. n : SubSeq(s, 1, n)[i] = s[i]
  <2>1. n - 1 + 1 = n /\ (~(1 <= n) => n = 0) /\ \A i \in 1 .. n : 1 + i - 1 = i
    BY <1>1
  <2> QED
    BY <1>2, <2>1
<1> QED
  BY <1>3, <1>4 DEF n

LEMMA SpaceShows == " " \in Glyphs
BY DEF Glyphs

\* Backspace, space, backspace erases the last character.
LEMMA ErasedShows ==
  ASSUME NEW t \in Terminals, NEW text \in Seq(Chars), text # <<>>, Shows(t, text)
  PROVE  Shows(Show(Show(Show(t, "BS"), " "), "BS"), Front(text))
<1> DEFINE n == Len(text)
           a == Show(t, "BS")
           b == Show(a, " ")
           d == Show(b, "BS")
<1>1. /\ n \in Int /\ n >= 1 /\ t.cells \in Seq(Glyphs) /\ t.cursor = n /\ n <= Len(t.cells)
      /\ DOMAIN t.cells = 1 .. Len(t.cells) /\ Len(t.cells) \in Nat
  <2>1. t.cells \in Seq(Glyphs)
    BY DEF Terminals
  <2>2. DOMAIN t.cells = 1 .. Len(t.cells) /\ Len(t.cells) \in Nat
    BY <2>1
  <2>3. n \in Int /\ n >= 1
    OBVIOUS
  <2> HIDE DEF n
  <2>4. t.cursor = n /\ n <= Len(t.cells)
    BY DEF Shows, n
  <2> QED
    BY <2>1, <2>2, <2>3, <2>4
<1>2. \A i \in DOMAIN t.cells : t.cells[i] = IF i <= n THEN text[i] ELSE " "
  BY DEF Shows
<1>4. Len(Front(text)) = n - 1 /\ \A i \in 1 .. n - 1 : Front(text)[i] = text[i]
  BY FrontIs
<1> HIDE DEF n
<1>5. a.cells = t.cells /\ a.cursor = n - 1
  <2>1. a = [t EXCEPT !.cursor = @ - 1]
    BY DEF Show
  <2> QED
    BY <1>1, <2>1 DEF Terminals
<1> HIDE DEF a
<1>6. b.cells = [t.cells EXCEPT ![n] = " "] /\ b.cursor = n
  <2>1. a.cursor + 1 = n /\ n \in DOMAIN a.cells
    BY <1>1, <1>5
  <2>2. b = [cells |-> [a.cells EXCEPT ![n] = " "], cursor |-> n]
    BY <2>1 DEF Show
  <2> HIDE DEF b
  <2> QED
    BY <1>5, <2>2
<1>7. b \in [cells : Seq(Glyphs), cursor : Int]
  <2>1. b = [cells |-> b.cells, cursor |-> b.cursor]
    <3>1. a.cursor + 1 = n /\ n \in DOMAIN a.cells
      BY <1>1, <1>5
    <3>2. b = [cells |-> [a.cells EXCEPT ![n] = " "], cursor |-> n]
      BY <3>1 DEF Show
    <3> QED
      BY <3>2
  <2> HIDE DEF b
  <2>2. b.cells \in Seq(Glyphs)
    <3>1. n \in 1 .. Len(t.cells)
      BY <1>1
    <3>2. [t.cells EXCEPT ![n] = " "] \in Seq(Glyphs)
      BY <1>1, <3>1, ExceptSeq, SpaceShows
    <3> QED
      BY <1>6, <3>2, Zenon
  <2>3. b.cursor \in Int
    <3>1. n \in Int
      BY <1>1
    <3> QED
      BY <1>6, <3>1, Zenon
  <2> QED
    BY <2>1, <2>2, <2>3, Zenon
<1> HIDE DEF b
<1>8. d.cells = b.cells /\ d.cursor = n - 1
  <2>1. d = [b EXCEPT !.cursor = @ - 1]
    BY DEF Show
  <2> QED
    BY <1>6, <1>7, <2>1
<1> HIDE DEF d
<1>9. DOMAIN d.cells = DOMAIN t.cells /\ Len(d.cells) = Len(t.cells)
  <2>1. n \in 1 .. Len(t.cells)
    BY <1>1
  <2>2. Len([t.cells EXCEPT ![n] = " "]) = Len(t.cells)
    <3>1. \A e \in Glyphs : Len([t.cells EXCEPT ![n] = e]) = Len(t.cells)
      BY <1>1, <2>1, ExceptSeq
    <3> QED
      BY <3>1, SpaceShows, Zenon
  <2>3. d.cells = [t.cells EXCEPT ![n] = " "]
    BY <1>6, <1>8
  <2> QED
    BY <2>2, <2>3
<1>10. ASSUME NEW i \in DOMAIN d.cells
       PROVE  d.cells[i] = IF i <= n - 1 THEN Front(text)[i] ELSE " "
  <2>0. i \in 1 .. Len(t.cells)
    BY <1>1, <1>9
  <2>1. d.cells[i] = IF i = n THEN " " ELSE t.cells[i]
    BY <1>1, <1>6, <1>8, <1>9
  <2>2. CASE i <= n - 1
    <3>1. i \in Int /\ n \in Int /\ i >= 1
      BY <1>1, <2>0
    <3>2. i \in 1 .. n - 1 /\ i <= n /\ i # n
      BY <2>2, <3>1
    <3>3. i \in DOMAIN t.cells
      BY <1>1, <2>0
    <3> QED
      BY <1>2, <1>4, <2>1, <2>2, <3>2, <3>3
  <2>3. CASE ~(i <= n - 1)
    <3>1. i # n => ~(i <= n) /\ i \in DOMAIN t.cells
      BY <1>1, <2>0, <2>3
    <3> QED
      BY <1>2, <2>1, <2>3, <3>1
  <2> QED
    BY <2>2, <2>3
<1>11. n - 1 <= Len(d.cells)
  BY <1>1, <1>9
<1> QED
  BY <1>4, <1>8, <1>10, <1>11 DEF Shows, a, b, d

LEMMA IsShown ==
  ASSUME NEW cells, NEW text,
         \A i \in DOMAIN cells : cells[i] = IF i <= Len(text) THEN text[i] ELSE " ",
         Len(text) <= Len(cells)
  PROVE  Shows([cells |-> cells, cursor |-> Len(text)], text)
BY DEF Shows

Thrice(s, a, b, d) == Append(Append(Append(s, a), b), d) = s \o <<a, b, d>>

LEMMA ThreeAppended ==
  ASSUME NEW S, NEW s \in Seq(S), NEW a \in S, NEW b \in S, NEW d \in S
  PROVE  Thrice(s, a, b, d)
<1>1. <<a>> \in Seq(S) /\ Append(<<a>>, b) \in Seq(S)
  OBVIOUS
<1>2. Append(s, a) = s \o <<a>>
  BY AppendIsConcat
<1>3. Append(s \o <<a>>, b) = s \o Append(<<a>>, b)
  <2>1. Ends(s, <<a>>, b)
    BY <1>1, LastOut
  <2> QED
    BY <2>1, Zenon DEF Ends
<1>4. Append(s \o Append(<<a>>, b), d) = s \o Append(Append(<<a>>, b), d)
  <2>1. Ends(s, Append(<<a>>, b), d)
    BY <1>1, LastOut
  <2> QED
    BY <2>1, Zenon DEF Ends
<1>5. <<a, b, d>> = Append(Append(<<a>>, b), d)
  OBVIOUS
<1> QED
  BY <1>2, <1>3, <1>4, <1>5, Zenon DEF Thrice

\* A printable character goes behind the last one.
LEMMA AppendedShows ==
  ASSUME NEW t \in Terminals, NEW text \in Seq(Chars), NEW c \in Chars, Shows(t, text),
         c \notin {"PROMPT", "CR", "BS", "DEL"}
  PROVE  Shows(Show(t, c), Append(text, c))
<1> DEFINE n    == Len(text)
           more == Append(text, c)
           next == IF n + 1 \in DOMAIN t.cells THEN [t.cells EXCEPT ![n + 1] = c]
                   ELSE Append(t.cells, c)
<1>1. /\ n \in Nat /\ t.cells \in Seq(Glyphs) /\ t.cursor = n /\ n <= Len(t.cells)
      /\ DOMAIN t.cells = 1 .. Len(t.cells) /\ Len(t.cells) \in Nat
  <2>1. t.cells \in Seq(Glyphs)
    BY DEF Terminals
  <2>2. DOMAIN t.cells = 1 .. Len(t.cells) /\ Len(t.cells) \in Nat
    BY <2>1
  <2>3. n \in Nat
    OBVIOUS
  <2> HIDE DEF n
  <2>4. t.cursor = n /\ n <= Len(t.cells)
    BY DEF Shows, n
  <2> QED
    BY <2>1, <2>2, <2>3, <2>4
<1>2. \A i \in DOMAIN t.cells : t.cells[i] = IF i <= n THEN text[i] ELSE " "
  BY DEF Shows
<1>3. Len(more) = n + 1 /\ more[n + 1] = c /\ \A i \in 1 .. n : more[i] = text[i]
  OBVIOUS
<1> HIDE DEF n, more
<1>4. Show(t, c) = [cells |-> next, cursor |-> n + 1]
  <2>1. t.cursor + 1 = n + 1 /\ n + 1 > 0
    BY <1>1
  <2>2. Show(t, c) = [cells  |-> IF n + 1 \in DOMAIN t.cells THEN [t.cells EXCEPT ![n + 1] = c]
                                 ELSE IF n + 1 > 0 THEN Append(t.cells, c) ELSE t.cells,
                      cursor |-> n + 1]
    BY <2>1 DEF Show
  <2> QED
    BY <2>1, <2>2
<1> SUFFICES Shows(Show(t, c), more)
  BY DEF more
<1>5. CASE n + 1 \in DOMAIN t.cells
  <2>1. next = [t.cells EXCEPT ![n + 1] = c]
    BY <1>5
  <2> HIDE DEF next
  <2>2. DOMAIN next = DOMAIN t.cells /\ Len(next) = Len(t.cells) /\ n + 1 <= Len(next)
    BY <1>1, <1>5, <2>1
  <2>3. ASSUME NEW i \in DOMAIN next
        PROVE  next[i] = IF i <= n + 1 THEN more[i] ELSE " "
    <3>1. i \in 1 .. Len(t.cells)
      BY <1>1, <2>2
    <3>2. CASE i = n + 1
      <4>1. next[i] = c /\ i <= n + 1
        BY <1>1, <2>1, <3>1, <3>2
      <4> QED
        BY <1>3, <3>2, <4>1
    <3>3. CASE i # n + 1
      <4>1. next[i] = t.cells[i]
        BY <1>1, <2>1, <3>1, <3>3
      <4>2. i <= n => i \in 1 .. n /\ i <= n + 1
        BY <1>1, <3>1
      <4>3. ~(i <= n) => ~(i <= n + 1)
        BY <1>1, <3>1, <3>3
      <4> QED
        BY <1>2, <1>3, <1>1, <3>1, <4>1, <4>2, <4>3
    <3> QED
      BY <3>2, <3>3
  <2> QED
    BY <1>3, <1>4, <2>2, <2>3, IsShown, ZenonT(60)
<1>6. CASE n + 1 \notin DOMAIN t.cells
  <2>1. next = Append(t.cells, c) /\ Len(t.cells) = n
    BY <1>1, <1>6, SMTT(30)
  <2> HIDE DEF next
  <2>2. DOMAIN next = 1 .. n + 1 /\ Len(next) = n + 1
    BY <1>1, <2>1
  <2>3. ASSUME NEW i \in DOMAIN next
        PROVE  next[i] = IF i <= n + 1 THEN more[i] ELSE " "
    <3>1. i <= n + 1
      BY <2>2
    <3>2. CASE i = n + 1
      BY <1>1, <1>3, <2>1, <3>2
    <3>3. CASE i # n + 1
      <4>1. i \in 1 .. n /\ i <= n /\ i \in DOMAIN t.cells
        BY <1>1, <2>1, <2>2, <3>3
      <4>2. next[i] = t.cells[i]
        BY <1>1, <2>1, <4>1
      <4> QED
        BY <1>2, <1>3, <3>1, <4>1, <4>2
    <3> QED
      BY <3>1, <3>2, <3>3
  <2>4. n + 1 <= Len(next)
    BY <1>1, <2>2
  <2> QED
    BY <1>3, <1>4, <2>3, <2>4, IsShown, ZenonT(60)
<1> QED
  BY <1>5, <1>6 DEF more

LEMMA ShownOne ==
  ASSUME NEW r, NEW s \in Seq(Glyphs), NEW t, NEW c \in Glyphs, Shown(r, s, t)
  PROVE  Shown(r, s \o <<c>>, Show(t, c)) /\ s \o <<c>> \in Seq(Glyphs)
<1>1. Append(s, c) = s \o <<c>> /\ s \o <<c>> \in Seq(Glyphs)
  BY AppendIsConcat, AppendProperties
<1>2. Shown(r, Append(s, c), Show(t, c))
  BY ShownAppend
<1> QED
  BY <1>1, <1>2

\* What read_line prints for a character keeps the terminal in step with the
\* buffer, unless the character is a DEL that it stores.
LEMMA EchoShown ==
  ASSUME NEW r, NEW s \in Seq(Glyphs), NEW t, Shown(r, s, t),
         NEW buf \in Seq(Chars), NEW c \in Chars, c # "PROMPT"
  PROVE  \E u : /\ Shown(r, s \o Echo(buf, c), u)
                /\ Shows(t, buf) /\ c # "CR" /\ "DEL" \notin Range(Edit(buf, c)) =>
                     Shows(u, Edit(buf, c))
<1>1. t \in Terminals /\ {"BS", " ", "CR", c} \subseteq Glyphs
  BY ShownTyped DEF Glyphs
<1>2. CASE c = "CR"
  BY <1>1, <1>2, ShownOne DEF Echo
<1>3. CASE c \in {"BS", "DEL"} /\ buf # <<>>
  <2>1. Echo(buf, c) = <<"BS", " ", "BS">> /\ Edit(buf, c) = Front(buf)
    BY <1>3 DEF Echo, Edit
  <2>2. Shown(r, Append(s, "BS"), Show(t, "BS")) /\ Append(s, "BS") \in Seq(Glyphs)
    BY <1>1, ShownAppend
  <2>3. /\ Shown(r, Append(Append(s, "BS"), " "), Show(Show(t, "BS"), " "))
        /\ Append(Append(s, "BS"), " ") \in Seq(Glyphs)
    BY <1>1, <2>2, ShownAppend
  <2>4. Shown(r, Append(Append(Append(s, "BS"), " "), "BS"), Show(Show(Show(t, "BS"), " "), "BS"))
    BY <1>1, <2>3, ShownAppend
  <2>5. Thrice(s, "BS", " ", "BS")
    BY <1>1, ThreeAppended
  <2>6. Shows(t, buf) => Shows(Show(Show(Show(t, "BS"), " "), "BS"), Front(buf))
    BY <1>1, <1>3, ErasedShows
  <2> QED
    BY <2>1, <2>4, <2>5, <2>6, Zenon DEF Thrice
<1>4. CASE c # "CR" /\ ~(c \in {"BS", "DEL"} /\ buf # <<>>) /\ Printable(c)
  <2>1. Echo(buf, c) = <<c>> /\ Edit(buf, c) = Append(buf, c) /\ c \notin {"CR", "BS"}
    BY <1>4 DEF Echo, Edit, Printable
  <2>2. Shown(r, s \o <<c>>, Show(t, c))
    BY <1>1, ShownOne
  <2>3. "DEL" \notin Range(Append(buf, c)) => c # "DEL"
    <3>1. Len(buf) + 1 \in DOMAIN Append(buf, c) /\ Append(buf, c)[Len(buf) + 1] = c
      OBVIOUS
    <3> QED
      BY <3>1 DEF Range
  <2>4. Shows(t, buf) /\ c # "DEL" => Shows(Show(t, c), Append(buf, c))
    BY <1>1, <2>1, AppendedShows
  <2> QED
    BY <2>1, <2>2, <2>3, <2>4
<1>5. CASE c # "CR" /\ ~(c \in {"BS", "DEL"} /\ buf # <<>>) /\ ~Printable(c)
  <2>1. Echo(buf, c) = <<>> /\ Edit(buf, c) = buf
    BY <1>5 DEF Echo, Edit
  <2>2. s \o <<>> = s
    OBVIOUS
  <2> QED
    BY <2>1, <2>2
<1> QED
  BY <1>2, <1>3, <1>4, <1>5

LEMMA EchoGlyphs ==
  ASSUME NEW buf, NEW c \in Chars
  PROVE  Echo(buf, c) \in Seq(Glyphs)
<1>1. Echo(buf, c) \in {<<"CR">>, <<"BS", " ", "BS">>, <<c>>, <<>>}
  BY DEF Echo
<1>2. "CR" \in Glyphs /\ "BS" \in Glyphs /\ " " \in Glyphs /\ c \in Glyphs
  BY DEF Glyphs
<1>3. <<"CR">> \in Seq(Glyphs) /\ <<c>> \in Seq(Glyphs)
  BY <1>2, OneTyped
<1>4. <<"BS", " ", "BS">> \in Seq(Glyphs)
  BY <1>2, ThreeTyped
<1>5. <<>> \in Seq(Glyphs)
  OBVIOUS
<1> QED
  BY <1>1, <1>3, <1>4, <1>5

-----------------------------------------------------------------------------
(* Where a character is on its way from the keyboard to the screen.        *)

Starting == {"boot", "uart_init", "timer_init", "interrupt_init", "enable"}

\* The character that uart_getc has returned, and that uart_putc is to put,
\* while the foreground is interrupted as well.
InHand == IF Resume = "store" THEN <<Register>> ELSE <<>>
InPut  == IF Resume = "putc" THEN <<Register>> ELSE <<>>

Unsent == (tx \o InPut) \o out

\* No DEL has been stored as one of the characters was.
NoDel(done) == \A n \in 1 .. Len(done) : "DEL" \notin Range(Edited(SubSeq(done, 1, n)))

Entered(done) ==
  /\ done \in Seq(Chars)
  /\ typed = (done \o InHand) \o fifo
  /\ line = Edited(done)

\* Once all is sent, the terminal will show the line.
Follows(done) ==
  \E final : Shown(screen, Unsent, final) /\ (NoDel(done) => Shows(final, line))

ConsoleInv ==
  /\ Resume \in Starting => line = <<>>
  /\ Resume # "putc" => out = <<>>
  /\ \E done : Entered(done) /\ Follows(done)

LEMMA NoDelAppend ==
  ASSUME NEW done \in Seq(Chars), NEW c \in Chars, NoDel(Append(done, c))
  PROVE  NoDel(done) /\ "DEL" \notin Range(Edited(Append(done, c)))
<1> DEFINE more == Append(done, c)
           n    == Len(done)
<1>1. more \in Seq(Chars) /\ Len(more) = n + 1 /\ n \in Nat
  OBVIOUS
<1>2. ASSUME NEW j \in 1 .. n
      PROVE  SubSeq(more, 1, j) = SubSeq(done, 1, j)
  OBVIOUS
<1>3. SubSeq(more, 1, n + 1) = more
  BY <1>1, SubSeqFull
<1> HIDE DEF more, n
<1>4. \A j \in 1 .. n + 1 : "DEL" \notin Range(Edited(SubSeq(more, 1, j)))
  BY <1>1 DEF NoDel, more
<1>5. "DEL" \notin Range(Edited(more))
  <2>1. n + 1 \in 1 .. n + 1
    BY <1>1
  <2> QED
    BY <1>3, <1>4, <2>1
<1>6. ASSUME NEW j \in 1 .. n
      PROVE  "DEL" \notin Range(Edited(SubSeq(done, 1, j)))
  <2>1. j \in 1 .. n + 1
    BY <1>1
  <2> QED
    BY <1>2, <1>4, <2>1
<1> QED
  BY <1>5, <1>6 DEF NoDel, more, n

LEMMA PutsUnsent ==
  ASSUME NEW s \in Seq(Glyphs), NEW a \in Seq(Glyphs), puts(s)
  PROVE  /\ (a \o InPut') \o out' = a \o s
         /\ Resume' # "putc" => out' = <<>>
         /\ Resume' \notin Starting /\ InHand' = <<>>
<1>1. pc' \in {"getc", "putc"} => Resume' = pc' /\ Register' = x0'
  BY DEF Resume, Register, ForegroundPcs, Handling
<1>2. CASE s = <<>>
  <2>1. pc' = "getc" /\ out' = <<>>
    BY <1>2 DEF puts
  <2>2. InPut' = <<>> /\ InHand' = <<>> /\ Resume' = "getc"
    BY <1>1, <2>1 DEF InPut, InHand
  <2>3. (a \o <<>>) \o <<>> = a \o <<>>
    BY NoneBetween
  <2> QED
    BY <1>2, <2>1, <2>2, <2>3 DEF Starting
<1>3. CASE s # <<>>
  <2>1. pc' = "putc" /\ x0' = Head(s) /\ out' = Tail(s)
    BY <1>3 DEF puts
  <2>2. InPut' = <<Head(s)>> /\ InHand' = <<>> /\ Resume' = "putc"
    BY <1>1, <2>1 DEF InPut, InHand
  <2>3. Head(s) \in Glyphs /\ Tail(s) \in Seq(Glyphs) /\ s = <<Head(s)>> \o Tail(s)
    BY <1>3, HeadBefore, HeadTailProperties
  <2>4. (a \o <<Head(s)>>) \o Tail(s) = a \o (<<Head(s)>> \o Tail(s))
    BY <2>3, MiddleGlyph, ZenonT(60)
  <2> QED
    BY <2>1, <2>2, <2>3, <2>4 DEF Starting
<1> QED
  BY <1>2, <1>3

LEMMA InitConsole == Init => ConsoleInv
<1> SUFFICES ASSUME Init PROVE ConsoleInv
  OBVIOUS
<1>1. /\ Resume = "boot" /\ fifo = <<>> /\ line = <<>> /\ tx = <<>> /\ out = <<>>
      /\ typed = <<>> /\ screen = Blank
  BY DEF Init, Resume, ForegroundPcs, Blank
<1>2. InHand = <<>> /\ InPut = <<>>
  BY <1>1 DEF InHand, InPut
<1>3. (<<>> \o <<>>) \o <<>> = <<>> /\ <<>> \in Seq(Chars)
  OBVIOUS
<1>4. Entered(<<>>)
  BY <1>1, <1>2, <1>3, EditedNothing DEF Entered
<1>5. Blank \in Terminals
  BY DEF Blank, Terminals
<1>6. Shown(screen, Unsent, Blank)
  BY <1>1, <1>2, <1>3, <1>5, ShownNothing DEF Unsent
<1>7. Follows(<<>>)
  BY <1>1, <1>6, BlankShows DEF Follows
<1> QED
  BY <1>1, <1>4, <1>7 DEF ConsoleInv

\* Between two steps of read_line nothing else touches the console.
LEMMA ConsoleKept ==
  ASSUME ConsoleInv, UNCHANGED <<typed, fifo, line, screen, tx, out>>,
         InHand' = InHand, InPut' = InPut,
         Resume' \in Starting => Resume \in Starting,
         Resume' # "putc" => Resume # "putc"
  PROVE  ConsoleInv'
<1>1. PICK done : Entered(done) /\ Follows(done)
  BY DEF ConsoleInv
<1>2. Unsent' = Unsent
  BY DEF Unsent
<1>3. Entered(done)' /\ Follows(done)'
  BY <1>1, <1>2 DEF Entered, Follows
<1> QED
  BY <1>3 DEF ConsoleInv

\* read_line takes the next character.
LEMMA GetcConsole ==
  ASSUME ControlInv, BuffersInv, ConsoleInv, uart_getc
  PROVE  ConsoleInv'
<1>1. /\ pc = "getc" /\ pc' = "store" /\ fifo # <<>> /\ x0' = Head(fifo) /\ fifo' = Tail(fifo)
      /\ UNCHANGED <<typed, line, screen, tx, out>>
  BY DEF uart_getc, At, serial
<1>2. Resume = "getc" /\ Resume' = "store" /\ Register' = Head(fifo)
  BY <1>1 DEF Resume, Register, ForegroundPcs, Handling
<1>3. PICK done : Entered(done) /\ Follows(done)
  BY DEF ConsoleInv
<1>4. /\ InHand = <<>> /\ InHand' = <<Head(fifo)>> /\ InPut = <<>> /\ InPut' = <<>>
      /\ out = <<>>
  BY <1>2 DEF InHand, InPut, ConsoleInv
<1>5. /\ fifo \in Seq(Chars) /\ done \in Seq(Chars) /\ Head(fifo) \in Chars
      /\ Tail(fifo) \in Seq(Chars) /\ fifo = <<Head(fifo)>> \o Tail(fifo)
  BY <1>1, <1>3, HeadBefore, HeadTailProperties DEF BuffersInv, Entered
<1>6. (done \o <<>>) \o fifo = done \o fifo
  BY <1>5, NoneBetween
<1>7. (done \o <<Head(fifo)>>) \o Tail(fifo) = done \o (<<Head(fifo)>> \o Tail(fifo))
  BY <1>5, MiddleChar, ZenonT(60)
<1>8. Entered(done)'
  BY <1>1, <1>3, <1>4, <1>5, <1>6, <1>7 DEF Entered
<1>9. Follows(done)'
  BY <1>1, <1>3, <1>4 DEF Follows, Unsent
<1> QED
  BY <1>1, <1>2, <1>4, <1>8, <1>9 DEF ConsoleInv, Starting

\* A character goes into the transmit FIFO.
LEMMA PutcConsole ==
  ASSUME ControlInv, BuffersInv, ConsoleInv, uart_putc
  PROVE  ConsoleInv'
<1>1. /\ pc = "putc" /\ tx' = Append(tx, x0) /\ puts(out)
      /\ UNCHANGED <<typed, fifo, line, screen>>
  BY DEF uart_putc, uart
<1>2. Resume = "putc" /\ Register = x0
  BY <1>1 DEF Resume, Register, ForegroundPcs, Handling
<1>3. PICK done : Entered(done) /\ Follows(done)
  BY DEF ConsoleInv
<1>4. InHand = <<>> /\ InPut = <<x0>> /\ x0 \in Glyphs /\ tx \in Seq(Glyphs) /\ out \in Seq(Glyphs)
  BY <1>2 DEF InHand, InPut, BuffersInv
<1>5. Append(tx, x0) \in Seq(Glyphs) /\ Append(tx, x0) \o out = (tx \o <<x0>>) \o out
  BY <1>4, Middle, SMTT(30)
<1>6. /\ (Append(tx, x0) \o InPut') \o out' = Append(tx, x0) \o out
      /\ Resume' # "putc" => out' = <<>>
      /\ Resume' \notin Starting /\ InHand' = <<>>
  BY <1>1, <1>4, <1>5, PutsUnsent
<1>7. Unsent' = Unsent
  BY <1>1, <1>4, <1>5, <1>6 DEF Unsent
<1>8. Entered(done)' /\ Follows(done)'
  BY <1>1, <1>3, <1>4, <1>6, <1>7 DEF Entered, Follows
<1> QED
  BY <1>6, <1>8 DEF ConsoleInv

\* The shell prints its first prompt.
LEMMA EnableConsole ==
  ASSUME ControlInv, BuffersInv, ConsoleInv, enable_sources
  PROVE  ConsoleInv'
<1>1. /\ pc = "enable" /\ puts(<<"PROMPT">>)
      /\ UNCHANGED <<typed, fifo, line, screen, tx>>
  BY DEF enable_sources, uart
<1>2. Resume = "enable"
  BY <1>1 DEF Resume, ForegroundPcs
<1>3. PICK done : Entered(done) /\ Follows(done)
  BY DEF ConsoleInv
<1>4. /\ InHand = <<>> /\ InPut = <<>> /\ out = <<>> /\ line = <<>> /\ tx \in Seq(Glyphs)
  BY <1>2 DEF InHand, InPut, BuffersInv, ConsoleInv, Starting
<1>5. PICK final : Shown(screen, Unsent, final)
  BY <1>3 DEF Follows
<1>6. Unsent = tx
  BY <1>4, NoneBetween DEF Unsent
<1>7. "PROMPT" \in Glyphs /\ <<"PROMPT">> \in Seq(Glyphs)
  BY OneTyped DEF Glyphs
<1>8. Shown(screen, tx \o <<"PROMPT">>, Show(final, "PROMPT"))
  BY <1>4, <1>5, <1>6, <1>7, ShownOne
<1>9. Show(final, "PROMPT") = Blank
  BY DEF Show, Blank
<1>10. /\ (tx \o InPut') \o out' = tx \o <<"PROMPT">>
       /\ Resume' # "putc" => out' = <<>>
       /\ Resume' \notin Starting /\ InHand' = <<>>
  BY <1>1, <1>4, <1>7, PutsUnsent
<1>11. Unsent' = tx \o <<"PROMPT">>
  BY <1>1, <1>10 DEF Unsent
<1>12. Entered(done)'
  BY <1>1, <1>3, <1>4, <1>10 DEF Entered
<1>13. Follows(done)'
  BY <1>1, <1>4, <1>8, <1>9, <1>11, BlankShows DEF Follows
<1> QED
  BY <1>10, <1>12, <1>13 DEF ConsoleInv

\* The character goes into the buffer, its echo on the way to the terminal.
LEMMA StoreConsole ==
  ASSUME ControlInv, BuffersInv, ConsoleInv, store
  PROVE  ConsoleInv'
<1>1. /\ pc = "store" /\ UNCHANGED <<fifo, tx, screen>>
      /\ line' = IF LineEnds(line, x0) THEN <<>> ELSE Edit(line, x0)
      /\ typed' = IF LineEnds(line, x0) THEN fifo ELSE typed
      /\ puts(Echo(line, x0) \o Prompt(line, x0))
  BY DEF store
<1>2. Resume = "store" /\ Register = x0
  BY <1>1 DEF Resume, Register, ForegroundPcs, Handling
<1>3. PICK done : Entered(done) /\ Follows(done)
  BY DEF ConsoleInv
<1>4. /\ InHand = <<x0>> /\ InPut = <<>> /\ out = <<>> /\ x0 \in Chars
      /\ tx \in Seq(Glyphs) /\ line \in Seq(Chars) /\ fifo \in Seq(Chars)
  BY <1>2 DEF InHand, InPut, BuffersInv, ConsoleInv
<1>5. PICK final : Shown(screen, Unsent, final) /\ (NoDel(done) => Shows(final, line))
  BY <1>3 DEF Follows
<1>6. Unsent = tx
  BY <1>4, NoneBetween DEF Unsent
<1> DEFINE echo   == Echo(line, x0)
           prompt == Prompt(line, x0)
<1>7. PICK u : /\ Shown(screen, tx \o echo, u)
               /\ Shows(final, line) /\ x0 # "CR" /\ "DEL" \notin Range(Edit(line, x0)) =>
                    Shows(u, Edit(line, x0))
  <2>1. x0 # "PROMPT"
    BY <1>4, InterruptsAssumption
  <2> QED
    BY <1>4, <1>5, <1>6, <2>1, EchoShown
<1>8. echo \in Seq(Glyphs) /\ echo \o prompt \in Seq(Glyphs)
  BY <1>4, EchoTyped, EchoGlyphs
<1> HIDE DEF echo, prompt
<1>9. /\ (tx \o InPut') \o out' = tx \o (echo \o prompt)
      /\ Resume' # "putc" => out' = <<>>
      /\ Resume' \notin Starting /\ InHand' = <<>>
  BY <1>1, <1>4, <1>8, PutsUnsent DEF echo, prompt
<1>10. Unsent' = tx \o (echo \o prompt)
  BY <1>1, <1>9 DEF Unsent
<1>11. CASE LineEnds(line, x0)
  <2>1. prompt = <<"PROMPT">> /\ line' = <<>> /\ typed' = fifo
    BY <1>1, <1>11 DEF prompt, Prompt
  <2>2. "PROMPT" \in Glyphs /\ tx \o echo \in Seq(Glyphs)
    BY <1>4, <1>8, ConcatProperties DEF Glyphs
  <2>3. Shown(screen, (tx \o echo) \o <<"PROMPT">>, Show(u, "PROMPT"))
    BY <1>7, <2>2, ShownOne
  <2>4. (tx \o echo) \o <<"PROMPT">> = tx \o (echo \o <<"PROMPT">>)
    <3>1. <<"PROMPT">> \in Seq(Glyphs)
      BY <2>2, OneTyped
    <3> QED
      BY <1>4, <1>8, <3>1, JoinGlyphs, ZenonT(60)
  <2>5. Show(u, "PROMPT") = Blank
    BY DEF Show, Blank
  <2>6. Follows(<<>>)'
    BY <1>1, <1>10, <2>1, <2>3, <2>4, <2>5, BlankShows DEF Follows
  <2>7. Entered(<<>>)'
    <3>1. (<<>> \o <<>>) \o fifo = fifo /\ <<>> \in Seq(Chars)
      BY <1>4
    <3> QED
      BY <1>1, <1>9, <2>1, <3>1, EditedNothing DEF Entered
  <2> QED
    BY <1>9, <2>6, <2>7 DEF ConsoleInv
<1>12. CASE ~LineEnds(line, x0)
  <2>0. PICK more : more = Append(done, x0)
    OBVIOUS
  <2>1. prompt = <<>> /\ line' = Edit(line, x0) /\ typed' = typed /\ x0 # "CR"
    BY <1>1, <1>12 DEF prompt, Prompt, LineEnds
  <2>2. done \in Seq(Chars) /\ typed = (done \o <<x0>>) \o fifo /\ line = Edited(done)
    BY <1>3, <1>4 DEF Entered
  <2>3. more \in Seq(Chars) /\ more \o fifo = (done \o <<x0>>) \o fifo
    BY <1>4, <2>0, <2>2, MiddleChar, ZenonT(60)
  <2>4. Edited(more) = Edit(line, x0)
    BY <1>4, <2>0, <2>2, EditedAppend
  <2>5. NoDel(more) => NoDel(done) /\ "DEL" \notin Range(Edited(more))
    BY <1>4, <2>0, <2>2, NoDelAppend
  <2>6. Entered(more)'
    <3>1. (more \o <<>>) \o fifo = more \o fifo
      BY <1>4, <2>3, NoneBetween
    <3> QED
      BY <1>1, <1>9, <2>1, <2>2, <2>3, <2>4, <3>1 DEF Entered
  <2>7. echo \o <<>> = echo
    BY <1>8, NoneBetween
  <2>8. NoDel(more) => Shows(u, line')
    BY <1>5, <1>7, <2>1, <2>4, <2>5
  <2>9. Follows(more)'
    BY <1>1, <1>7, <1>10, <2>1, <2>7, <2>8 DEF Follows
  <2> QED
    BY <1>9, <2>6, <2>9 DEF ConsoleInv
<1> QED
  BY <1>11, <1>12

\* A character that arrives is the last of those read_line has not seen.
LEMMA ArrivedConsole ==
  ASSUME ControlInv, BuffersInv, ConsoleInv, CharArrives
  PROVE  ConsoleInv'
<1>1. PICK c \in Chars : fifo' = Append(fifo, c) /\ typed' = Append(typed, c)
  BY DEF CharArrives
<1>2. UNCHANGED <<line, screen, tx, out>> /\ UNCHANGED core
  BY DEF CharArrives, serial
<1>3. Resume' = Resume /\ Register' = Register
  BY <1>2 DEF core, Resume, Register
<1>4. InHand' = InHand /\ InPut' = InPut /\ Unsent' = Unsent
  BY <1>2, <1>3 DEF InHand, InPut, Unsent
<1>5. PICK done : Entered(done) /\ Follows(done)
  BY DEF ConsoleInv
<1>6. done \in Seq(Chars) /\ fifo \in Seq(Chars) /\ typed = (done \o InHand) \o fifo
  BY <1>5 DEF Entered, BuffersInv
<1>7. InHand \in Seq(Chars)
  BY OneTyped DEF InHand, BuffersInv
<1>8. done \o InHand \in Seq(Chars)
  BY <1>6, <1>7, ConcatProperties
<1>9. Append((done \o InHand) \o fifo, c) = (done \o InHand) \o Append(fifo, c)
  <2>1. Ends(done \o InHand, fifo, c)
    BY <1>6, <1>8, LastOut
  <2> QED
    BY <2>1, Zenon DEF Ends
<1>10. Entered(done)'
  BY <1>1, <1>2, <1>4, <1>5, <1>6, <1>9 DEF Entered
<1>11. Follows(done)'
  BY <1>2, <1>4, <1>5 DEF Follows
<1> QED
  BY <1>2, <1>3, <1>10, <1>11 DEF ConsoleInv

\* The terminal gets the first of what is under way.
LEMMA TransmitConsole ==
  ASSUME ControlInv, BuffersInv, ConsoleInv, Transmit
  PROVE  ConsoleInv'
<1>1. /\ tx # <<>> /\ tx' = Tail(tx) /\ screen' = Show(screen, Head(tx))
      /\ UNCHANGED <<core, typed, fifo, line, out>>
  BY DEF Transmit, uart
<1>2. Resume' = Resume /\ Register' = Register
  BY <1>1 DEF core, Resume, Register
<1>3. InHand' = InHand /\ InPut' = InPut
  BY <1>2 DEF InHand, InPut
<1>4. PICK done : Entered(done) /\ Follows(done)
  BY DEF ConsoleInv
<1>5. PICK final : Shown(screen, Unsent, final) /\ (NoDel(done) => Shows(final, line))
  BY <1>4 DEF Follows
<1>6. InPut \in Seq(Glyphs) /\ out \in Seq(Glyphs) /\ tx \in Seq(Glyphs)
  BY OneTyped DEF InPut, BuffersInv
<1>7. /\ Unsent \in Seq(Glyphs) /\ Unsent # <<>>
      /\ Head(Unsent) = Head(tx) /\ Tail(Unsent) = Unsent'
  <2>1. LeadsAll(tx, InPut, out)
    BY <1>1, <1>6, FirstOut
  <2>2. Unsent' = (Tail(tx) \o InPut) \o out
    BY <1>1, <1>3 DEF Unsent
  <2>3. Unsent \in Seq(Glyphs)
    BY <1>6 DEF Unsent
  <2> QED
    BY <2>1, <2>2, <2>3, Zenon DEF Unsent, LeadsAll
<1>8. Shown(Show(screen, Head(tx)), Unsent', final)
  BY <1>5, <1>7, ShownTail
<1>9. Follows(done)'
  BY <1>1, <1>5, <1>8 DEF Follows
<1>10. Entered(done)'
  BY <1>1, <1>3, <1>4 DEF Entered
<1> QED
  BY <1>1, <1>2, <1>9, <1>10 DEF ConsoleInv

LEMMA StepConsole == ControlInv /\ BuffersInv /\ ConsoleInv /\ [Next]_vars => ConsoleInv'
<1> SUFFICES ASSUME ControlInv, BuffersInv, ConsoleInv, [Next]_vars PROVE ConsoleInv'
  OBVIOUS
<1>1. CASE unmask_irqs \/ uart_init \/ timer_init \/ interrupt_init
  <2>1. /\ UNCHANGED <<typed, fifo, line, screen, tx, out>>
        /\ pc \in Starting /\ pc' \in Starting
    BY <1>1 DEF unmask_irqs, uart_init, timer_init, interrupt_init, At, Starting, uart, serial
  <2>2. Resume = pc /\ Resume' = pc'
    BY <2>1 DEF Resume, Starting, ForegroundPcs
  <2>3. InHand = <<>> /\ InHand' = <<>> /\ InPut = <<>> /\ InPut' = <<>>
    BY <2>1, <2>2 DEF InHand, InPut, Starting
  <2> QED
    BY <2>1, <2>2, <2>3, ConsoleKept DEF Starting
<1>2. CASE uart_getc
  BY <1>2, GetcConsole
<1>3. CASE uart_putc
  BY <1>3, PutcConsole
<1>4. CASE enable_sources
  BY <1>4, EnableConsole
<1>5. CASE store
  BY <1>5, StoreConsole
<1>6. CASE TakeIrq \/ TakeSync \/ save_registers \/ Serve \/ load_registers \/ eret
  <2>1. UNCHANGED <<typed, fifo, line, screen, tx, out>>
    BY <1>6, ServeKeepsFrame DEF TakeIrq, TakeSync, save_registers, load_registers, eret,
                                 uart, serial
  <2>2. Resume' = Resume /\ Register' = Register
    BY <1>6, ResumeKept, RegisterKept
  <2>3. InHand' = InHand /\ InPut' = InPut
    BY <2>2 DEF InHand, InPut
  <2> QED
    BY <2>1, <2>2, <2>3, ConsoleKept
<1>7. CASE CharArrives
  BY <1>7, ArrivedConsole
<1>8. CASE Transmit
  BY <1>8, TransmitConsole
<1>9. CASE TimerExpires \/ CharLost \/ Spin \/ UNCHANGED vars
  <2>1. UNCHANGED <<typed, fifo, line, screen, tx, out>> /\ UNCHANGED core
    BY <1>9 DEF TimerExpires, CharLost, Spin, vars, uart, serial
  <2>2. Resume' = Resume /\ Register' = Register
    BY <2>1, SMTT(30) DEF core, Resume, Register
  <2>3. InHand' = InHand /\ InPut' = InPut
    BY <2>2 DEF InHand, InPut
  <2> QED
    BY <2>1, <2>2, <2>3, ConsoleKept
<1> QED
  BY <1>1, <1>2, <1>3, <1>4, <1>5, <1>6, <1>7, <1>8, <1>9
     DEF Next, Foreground, Handler, Serve

LEMMA ReadingLine ==
  ASSUME BuffersInv, ConsoleInv, pc \in {"getc", "store"}
  PROVE  \E done \in Seq(Chars) :
           /\ Follows(done) /\ line = Edited(done)
           /\ Consumed = Len(done) /\ SubSeq(typed, 1, Consumed) = done
           /\ typed = done \o (IF pc = "store" THEN <<x0>> ELSE <<>>) \o fifo
           /\ \A n \in 1 .. Len(done) : SubSeq(typed, 1, n) = SubSeq(done, 1, n)
<1>1. PICK done : Entered(done) /\ Follows(done)
  BY DEF ConsoleInv
<1>2. Resume = pc /\ Register = x0
  BY DEF Resume, Register, ForegroundPcs, Handling
<1>3. InHand = IF pc = "store" THEN <<x0>> ELSE <<>>
  BY <1>2 DEF InHand
<1>4. /\ done \in Seq(Chars) /\ fifo \in Seq(Chars) /\ InHand \in Seq(Chars)
      /\ typed = (done \o InHand) \o fifo
  BY <1>1, <1>2, <1>3, OneTyped DEF Entered, BuffersInv
<1>5. Len(typed) = Len(done) + Len(InHand) + Len(fifo)
  BY <1>4
<1>6. Len(InHand) = IF pc = "store" THEN 1 ELSE 0
  BY <1>3
<1>7. Consumed = Len(done)
  <2>1. Len(done) \in Nat /\ Len(fifo) \in Nat
    BY <1>4
  <2> QED
    BY <1>5, <1>6, <2>1 DEF Consumed
<1>8. \A n \in 0 .. Len(done) : SubSeq(typed, 1, n) = SubSeq(done, 1, n)
  BY <1>4, PrefixOfConcat
<1>9. SubSeq(typed, 1, Len(done)) = done
  <2>1. Len(done) \in 0 .. Len(done) /\ SubSeq(done, 1, Len(done)) = done
    BY <1>4, SubSeqFull
  <2> QED
    BY <1>8, <2>1
<1>10. \A n \in 1 .. Len(done) : SubSeq(typed, 1, n) = SubSeq(done, 1, n)
  BY <1>4, <1>8
<1> QED
  BY <1>1, <1>3, <1>4, <1>7, <1>9, <1>10 DEF Entered

-----------------------------------------------------------------------------
(* The theorems.                                                           *)

IInv == ControlInv /\ TickInv /\ BuffersInv /\ ConsoleInv

\* For every size of the FIFOs and of the line, whatever is typed, whenever
\* the timer expires and whichever exceptions the foreground raises: where
\* the interrupted program's registers are, which ticks are counted, what the
\* buffers hold, and where each character is between keyboard and screen.
THEOREM InterruptsInvariant == Spec => []IInv
<1>1. Init => IInv
  BY InitControl, InitTick, InitBuffers, InitConsole DEF IInv
<1>2. IInv /\ [Next]_vars => IInv'
  BY StepControl, StepTick, StepBuffers, StepConsole DEF IInv
<1> QED
  BY <1>1, <1>2, PTL DEF Spec

\* read_line's buffer has room for the terminator, the handlers never nest,
\* and no FIFO holds more than its size.
THEOREM InterruptsTypeCorrect == Spec => []TypeOK
<1>1. IInv => TypeOK
  <2> SUFFICES ASSUME IInv PROVE TypeOK
    OBVIOUS
  <2>1. /\ pc \in ForegroundPcs \cup HandlerPcs /\ elr \in ForegroundPcs
        /\ spsr \in BOOLEAN /\ masked \in BOOLEAN
    BY Pcs DEF IInv, ControlInv
  <2>2. Len(stack) <= 1
    <3>1. CASE stack = <<>>
      BY <3>1
    <3>2. CASE \E r : stack = <<r>>
      BY <3>2
    <3> QED
      BY <3>1, <3>2 DEF IInv, ControlInv
  <2>3. time \in 0 .. MaxTicks /\ ticks \in 0 .. MaxTicks
    BY InterruptsAssumption DEF IInv, TickInv, EveryTickCountedOnce
  <2> QED
    BY <2>1, <2>2, <2>3, InterruptsAssumption DEF IInv, BuffersInv, TypeOK
<1> QED
  BY <1>1, InterruptsInvariant, PTL

\* An interrupt or a survived exception leaves nothing on the stack and IRQs
\* unmasked, at whatever instruction it came.
THEOREM HandlersLeaveNoTrace == Spec => []InterruptsLeaveNoTrace
<1>1. IInv => InterruptsLeaveNoTrace
  BY DEF IInv, ControlInv, InterruptsLeaveNoTrace
<1> QED
  BY <1>1, InterruptsInvariant, PTL

\* No tick is counted twice and none is forgotten, wherever it falls.
THEOREM TicksCountedOnce == Spec => []EveryTickCountedOnce
<1>1. IInv => EveryTickCountedOnce
  BY DEF IInv, TickInv
<1> QED
  BY <1>1, InterruptsInvariant, PTL

\* Every character that the receive FIFO took is edited into the line once and
\* in order, whatever interrupts come between uart_getc and the store.
THEOREM TypingReachesLine == Spec => []CharactersReachLine
<1>1. IInv => CharactersReachLine
  BY ReadingLine DEF IInv, CharactersReachLine
<1> QED
  BY <1>1, InterruptsInvariant, PTL

\* When read_line waits and all is sent, the terminal shows the line, however
\* long characters and their echoes were under way.
THEOREM TerminalShowsLine == Spec => []ScreenShowsLine
<1>1. IInv => ScreenShowsLine
  <2> SUFFICES ASSUME BuffersInv, ConsoleInv, pc = "getc", tx = <<>>, ~DelStored
               PROVE  Shows(screen, line)
    BY DEF ScreenShowsLine, Shows, IInv
  <2>1. PICK done \in Seq(Chars) :
          /\ Follows(done) /\ line = Edited(done)
          /\ Consumed = Len(done)
          /\ \A n \in 1 .. Len(done) : SubSeq(typed, 1, n) = SubSeq(done, 1, n)
    BY ReadingLine
  <2>2. NoDel(done)
    BY <2>1 DEF NoDel, DelStored
  <2>3. Unsent = <<>>
    <3>1. Resume = "getc"
      BY DEF Resume, ForegroundPcs
    <3>2. InPut = <<>> /\ out = <<>>
      BY <3>1 DEF InPut, ConsoleInv
    <3>3. (<<>> \o <<>>) \o <<>> = <<>>
      OBVIOUS
    <3> QED
      BY <3>2, <3>3 DEF Unsent
  <2>4. PICK final : Shown(screen, <<>>, final) /\ Shows(final, line)
    BY <2>1, <2>2, <2>3 DEF Follows
  <2>5. final = screen
    BY <2>4 DEF Shown
  <2> QED
    BY <2>4, <2>5
<1> QED
  BY <1>1, InterruptsInvariant, PTL
=============================================================================
