------------------------------ MODULE Console ------------------------------
(***************************************************************************)
(* Debug output and its screen: src/kernel/src/misc/debug.c, gfx/screen.c, *)
(* the number conversions of misc/string.c, and the interrupt and          *)
(* exception handlers that print (misc/exception.c, lapic_spurious,        *)
(* pic0_spurious and pic1_spurious).                                       *)
(*                                                                         *)
(* debug_vprintf prints a message piece by piece under the spin lock       *)
(* e9_mutex, with interrupts as the caller had them. The contexts that     *)
(* print are kmain (Boot), afterwards the threads, which the timer         *)
(* switches on CPU 0, and on every CPU the handlers. A handler runs on top *)
(* of what it interrupts, with interrupts disabled: the CPU does nothing   *)
(* else until it returns, and handle_exception never returns.              *)
(*                                                                         *)
(* A character is its ASCII code; Esc(n) stands for the escape sequence    *)
(* ESC [ n m, which putc collects and evaluates at the `m`. The brackets   *)
(* and separators around the time stamp are left out.                      *)
(***************************************************************************)
EXTENDS Integers, Sequences, SequencesExt

CONSTANTS
    Threads,        \* threads of CPU 0
    Cpus,           \* the numbers of the CPUs; 0 is the boot processor
    Messages,       \* what may be printed: level, module and body
    Reports,        \* the messages of handle_exception, as sequences
    Rows, Columns,  \* y_max + 1, x_max + 1
    IntBits, LongBits,      \* width of int and long
    StampDigits,    \* 3: TIMER_FREQUENCY is 10 to the power of StampDigits
    SecondsWidth,   \* 6: width of the seconds of a time stamp
    StartTicks, MaxTicks,   \* bound: the span of timer_ticks
    MaxMessages     \* bound: the messages printed

ASSUME ConsoleAssumption ==
    /\ 0 \in Cpus
    /\ Rows \in Nat \ {0} /\ Columns \in Nat \ {0}
    /\ IntBits \in Nat \ {0} /\ LongBits \in Nat /\ IntBits <= LongBits
    /\ StampDigits \in Nat \ {0} /\ SecondsWidth \in Nat
    /\ StartTicks \in Nat /\ MaxTicks \in Nat /\ StartTicks <= MaxTicks
    /\ MaxMessages \in Nat

Boot == <<"boot", 0>>
Thread(t) == <<"thread", t>>
Irq(c) == <<"irq", c>>
Exc(c) == <<"exception", c>>

Tasks == {Boot} \cup {Thread(t) : t \in Threads}
Handlers == {Irq(c) : c \in Cpus} \cup {Exc(c) : c \in Cpus}
Contexts == Tasks \cup Handlers
CpuOf(x) == IF x \in Tasks THEN 0 ELSE x[2]

VARIABLES
    e9_mutex,
    timer_ticks,
    screen,         \* screens[0], with what its two buffers hold
    phase,          \* how far kmain has come
    task,           \* the task CPU 0 runs, under its handlers
    pc, job,        \* of every context: where it is, and what it has to print
    said,           \* said[x]: the pieces x has printed of its message
    started,        \* the number of messages begun
    log,            \* history: the messages printed, in order
    cleared         \* history: those that clear_screen has wiped

vars == <<e9_mutex, timer_ticks, screen, phase, task, pc, job, said, started, log, cleared>>

-----------------------------------------------------------------------------
(* misc/string.c: numbers. `pad` is of debug.c.                            *)

NL == 10
CR == 13
Space == 32
Minus == 45
Zero == 48
UpperA == 65
Esc(n) == 1000 + n

\* The prover knows the steps of this recursion, but nothing of ^.
Power(b, n) == LET f[k \in 0..n] == IF k = 0 THEN 1 ELSE b * f[k - 1] IN f[n]

Code(d) == IF d <= 9 THEN Zero + d ELSE UpperA + d - 10

\* The digits of a natural number, at least one.
Digits(n, radix) ==
    LET f[k \in 0..n] == IF k < radix THEN <<Code(k)>>
                         ELSE Append(f[k \div radix], Code(k % radix))
    IN  f[n]

\* Only a decimal number has a sign.
ltoa(num, radix) ==
    IF num < 0 /\ radix = 10 THEN <<Minus>> \o Digits(-num, radix)
    ELSE Digits(num % Power(2, LongBits), radix)

itoa(num, radix) == ltoa(num % Power(2, IntBits), radix)

lowercase(s) == [i \in DOMAIN s |-> IF s[i] \in UpperA..(UpperA + 25) THEN s[i] + 32 ELSE s[i]]

\* Mutant: source is put at the wrong end.
padLeft(source, new_size, val) ==
    IF Len(source) >= new_size THEN source
    ELSE source \o [i \in 1..(new_size - Len(source)) |-> val]

\* A sign goes in front of the padding, and the result is one longer then.
pad(source, new_size, val) ==
    IF Len(source) >= new_size THEN source
    ELSE IF source[1] # Minus THEN [i \in 1..(new_size - Len(source)) |-> val] \o source
    ELSE <<Minus>> \o [i \in 1..(new_size - Len(source) + 1) |-> val] \o Tail(source)

\* What debug_printf is called with: every conversion with an argument of its
\* type, padded with blanks or zeros.
IsPiece(p) ==
    \/ p.conv = "text" /\ p.text \in Seq(Nat)
    \/ /\ p.conv \in {"d", "x", "X", "lx", "lX"} /\ p.val \in Int
       /\ p.width \in Nat /\ p.fill \in {Space, Zero}
    \/ /\ p.conv = "ld" /\ p.val \in Int
       /\ 2 * p.val < Power(2, LongBits) /\ -Power(2, LongBits) <= 2 * p.val
       /\ p.width \in Nat /\ p.fill \in {Space, Zero}

\* The messages there are.
Printed == Messages \cup UNION {{r[k] : k \in 1..Len(r)} : r \in Reports}

\* timer_ticks is an unsigned long.
ASSUME MessageAssumption ==
    /\ \A m \in Printed : /\ Len(m.body) \in Nat /\ DOMAIN m.body = 1..Len(m.body)
                          /\ \A k \in 1..Len(m.body) : IsPiece(m.body[k])
    /\ \A r \in Reports : r \in Seq(Printed) /\ r # <<>>
    /\ MaxTicks < Power(2, LongBits)

\* What a piece of a format string prints: characters, or a number through
\* one of the conversions d, x and X, with or without the prefix l.
Expand(piece) ==
    IF piece.conv = "text" THEN piece.text
    ELSE LET radix == IF piece.conv \in {"d", "ld"} THEN 10 ELSE 16
             digits == IF piece.conv \in {"d", "x", "X"} THEN itoa(piece.val, radix)
                       ELSE ltoa(piece.val, radix)
             padded == pad(digits, piece.width, piece.fill)
         IN  IF piece.conv \in {"x", "lx"} THEN lowercase(padded) ELSE padded

-----------------------------------------------------------------------------
(* gfx/screen.c. `front` is the framebuffer.                               *)

background == 8
ansi_colors == 0..7

Cell(c, fg, bg) == [char |-> c, fg |-> fg, bg |-> bg]

\* A cell without a character shows its background only.
Blank(bg) == Cell(Space, 0, bg)
Position == (0..(Rows - 1)) \X (0..(Columns - 1))

\* The buffer that is drawn on.
Canvas(s) == IF s.using_back_buffer THEN s.back ELSE s.front
Draw(s, cells) ==
    IF s.using_back_buffer THEN [s EXCEPT !.back = cells] ELSE [s EXCEPT !.front = cells]

redraw(s) == IF s.using_back_buffer THEN [s EXCEPT !.front = s.back] ELSE s

clear_screen(s, color) == redraw(Draw(s, [p \in Position |-> Blank(color)]))

scroll(s) ==
    LET cells == [p \in Position |-> IF p[1] = Rows - 1 THEN Blank(s.bg)
                                     ELSE Canvas(s)[<<p[1] + 1, p[2]>>]]
    IN  redraw([Draw(s, cells) EXCEPT !.x = 0, !.y = Rows - 1])

parse_escape_sequence(s, n) ==
    IF n = 0 THEN [s EXCEPT !.bg = background, !.fg = 7]
    ELSE IF n \in 30..37 THEN [s EXCEPT !.fg = n - 30]
    ELSE IF n \in 40..47 THEN [s EXCEPT !.bg = n - 40]
    ELSE s

\* Mutant: a line feed shows the line only when the screen scrolls.
NewlineHidden(s) ==
    LET t == [s EXCEPT !.x = 0, !.y = @ + 1]
    IN  IF t.y > Rows - 1 THEN scroll(t) ELSE t

Newline(s) ==
    LET t == [s EXCEPT !.x = 0, !.y = @ + 1]
    IN  IF t.y > Rows - 1 THEN scroll(t) ELSE redraw(t)

\* A character, and the wrap at the end of the line, which shows nothing yet.
DrawChar(s, c) ==
    LET cell == IF c = Space THEN Blank(s.bg) ELSE Cell(c, s.fg, s.bg)
        t == [Draw(s, [Canvas(s) EXCEPT ![<<s.y, s.x>>] = cell]) EXCEPT !.x = @ + 1]
        u == [t EXCEPT !.x = 0, !.y = @ + 1]
    IN  IF t.x <= Columns - 1 THEN t
        ELSE IF u.y > Rows - 1 THEN scroll(u) ELSE u

putc(s, c) ==
    IF c = CR THEN [s EXCEPT !.x = 0]
    ELSE IF c = NL THEN Newline(s)
    ELSE IF c >= Esc(0) THEN parse_escape_sequence(s, c - Esc(0))
    ELSE DrawChar(s, c)

\* debug_puts, with display_debug set.
debug_puts(s, text) ==
    LET f[i \in 0..Len(text)] == IF i = 0 THEN s ELSE putc(f[i - 1], text[i])
    IN  f[Len(text)]

-----------------------------------------------------------------------------

\* screen_init has set up screens[0] and begins to print.
Init ==
    /\ e9_mutex = 0
    /\ timer_ticks = StartTicks
    /\ screen = [x |-> 0, y |-> 0, fg |-> 7, bg |-> 0, using_back_buffer |-> FALSE,
                 front |-> [p \in Position |-> Blank(0)],
                 back |-> [p \in Position |-> Blank(0)]]
    /\ phase = "screen_init"
    /\ task = Boot
    /\ pc = [x \in Contexts |-> "none"]
    /\ job = [x \in Contexts |-> <<>>]
    /\ said = [x \in Contexts |-> <<>>]
    /\ started = 0
    /\ log = <<>>
    /\ cleared = 0

\* The context a CPU executes; other CPUs than 0 have their handlers only.
Active(x) ==
    LET c == CpuOf(x) IN
    \/ x = Exc(c) /\ pc[Exc(c)] # "none"
    \/ x = Irq(c) /\ pc[Irq(c)] # "none" /\ pc[Exc(c)] = "none"
    \/ x = task /\ pc[Irq(0)] = "none" /\ pc[Exc(0)] = "none"

At(x, here, there) ==
    /\ Active(x)
    /\ pc[x] = here
    /\ pc' = [pc EXCEPT ![x] = there]

-----------------------------------------------------------------------------
(* debug_vprintf.                                                          *)

Level(m) == CASE m.level = "error" -> 31 [] m.level = "warn" -> 33 [] m.level = "debug" -> 34

\* What is printed after the time stamp.
Rest(m) ==
    LET tag == IF m.module = 0 THEN <<>> ELSE <<<<Esc(35), m.module, Esc(0)>>>>
    IN  tag \o [i \in DOMAIN m.body |-> Expand(m.body[i])]

Message(x) == Head(job[x])

\* x prints a piece of its message; Display says what that does.
Say(x, text) ==
    /\ said' = [said EXCEPT ![x] = Append(@, text)]
    /\ UNCHANGED <<e9_mutex, timer_ticks, phase, task, job, started, log, cleared>>

Acquire(x) ==
    /\ At(x, "acquire", "level")
    /\ e9_mutex = 0
    /\ e9_mutex' = 1
    /\ UNCHANGED <<timer_ticks, phase, task, job, said, started, log, cleared>>

SayLevel(x) ==
    /\ At(x, "level", "seconds")
    /\ Say(x, <<Esc(0), Esc(1), Esc(Level(Message(x)))>>)

TIMER_FREQUENCY == Power(10, StampDigits)

\* Mutant: the seconds are rounded.
SecondsRounded ==
    pad(ltoa((timer_ticks + TIMER_FREQUENCY \div 2) \div TIMER_FREQUENCY, 10), SecondsWidth, Space)

Seconds == pad(ltoa(timer_ticks \div TIMER_FREQUENCY, 10), SecondsWidth, Space)

Millis == pad(ltoa(timer_ticks % TIMER_FREQUENCY, 10), StampDigits, Zero)

SaySeconds(x) == At(x, "seconds", "millis") /\ Say(x, Seconds)

SayMillis(x) == At(x, "millis", "rest") /\ Say(x, Millis \o <<Esc(0)>>)

\* The pieces of the format string, one after the other.
SayRest(x) ==
    /\ At(x, "rest", "rest")
    /\ Len(said[x]) - 3 < Len(Rest(Message(x)))
    /\ Say(x, Rest(Message(x))[Len(said[x]) - 2])

\* Where the caller goes on: handle_exception has more to print and stops in
\* the end, the others return.
Back(x) ==
    IF Len(job[x]) > 1 THEN "acquire"
    ELSE IF x = Exc(CpuOf(x)) THEN "halted" ELSE "none"

\* Mutant: debug_vprintf returns without release.
ReleaseMissing(x) ==
    /\ At(x, "rest", Back(x))
    /\ Len(said[x]) - 3 = Len(Rest(Message(x)))
    /\ log' = Append(log, [by |-> x, message |-> Message(x), pieces |-> said[x]])
    /\ job' = [job EXCEPT ![x] = Tail(@)]
    /\ said' = [said EXCEPT ![x] = <<>>]
    /\ UNCHANGED <<e9_mutex, timer_ticks, phase, task, started, cleared>>

Release(x) ==
    /\ At(x, "rest", Back(x))
    /\ Len(said[x]) - 3 = Len(Rest(Message(x)))
    /\ e9_mutex' = 0
    /\ log' = Append(log, [by |-> x, message |-> Message(x), pieces |-> said[x]])
    /\ job' = [job EXCEPT ![x] = Tail(@)]
    /\ said' = [said EXCEPT ![x] = <<>>]
    /\ UNCHANGED <<timer_ticks, phase, task, started, cleared>>

\* A step of debug_vprintf, but for the screen.
Vprintf(x) ==
    \/ Acquire(x) \/ SayLevel(x) \/ SaySeconds(x) \/ SayMillis(x) \/ SayRest(x)
    \/ Release(x)

\* debug_putc for what the step has printed, with display_debug set.
Display(x) ==
    screen' = IF Len(said'[x]) > Len(said[x]) THEN debug_puts(screen, Last(said'[x]))
              ELSE screen

-----------------------------------------------------------------------------
(* Who prints.                                                             *)

Begin(x, messages) ==
    /\ started + Len(messages) <= MaxMessages
    /\ started' = started + Len(messages)
    /\ pc' = [pc EXCEPT ![x] = "acquire"]
    /\ job' = [job EXCEPT ![x] = messages]

\* debug_printf in kmain or in a thread.
debug_printf(x) ==
    /\ x \in Tasks /\ Active(x) /\ pc[x] = "none"
    /\ x = Boot => phase \notin {"run", "hung"}
    /\ \E m \in Messages : Begin(x, <<m>>)
    /\ UNCHANGED <<e9_mutex, timer_ticks, screen, phase, task, said, log, cleared>>

\* A spurious interrupt: lapic_spurious, pic0_spurious, pic1_spurious (their
\* counters are only printed). apic_init has installed the handlers.
Spurious(c) ==
    /\ phase \in {"irqs", "run"}
    /\ pc[Irq(c)] = "none" /\ pc[Exc(c)] = "none"
    /\ \E m \in Messages : m.level = "warn" /\ Begin(Irq(c), <<m>>)
    /\ UNCHANGED <<e9_mutex, timer_ticks, screen, phase, task, said, log, cleared>>

\* An exception in whatever the CPU executes, once idt_init is done.
Exception(c) ==
    /\ phase \in {"idt", "irqs", "run"}
    /\ c # 0 => phase # "idt"
    /\ pc[Exc(c)] = "none"
    /\ \E report \in Reports : Begin(Exc(c), report)
    /\ UNCHANGED <<e9_mutex, timer_ticks, screen, phase, task, said, log, cleared>>

\* The timer interrupt: time passes and, once sys_ready is set, resched may
\* run another thread.
Timer ==
    /\ phase \in {"irqs", "run"}
    /\ pc[Irq(0)] = "none" /\ pc[Exc(0)] = "none"
    /\ timer_ticks' = IF timer_ticks < MaxTicks THEN timer_ticks + 1 ELSE timer_ticks
    /\ IF phase = "run" THEN task' \in {Thread(t) : t \in Threads} ELSE UNCHANGED task
    /\ UNCHANGED <<e9_mutex, screen, phase, pc, job, said, started, log, cleared>>

-----------------------------------------------------------------------------
(* kmain, between messages.                                                *)

Kmain(here, there) ==
    /\ phase = here
    /\ phase' = there
    /\ Active(Boot) /\ pc[Boot] = "none"
    /\ UNCHANGED <<e9_mutex, timer_ticks, task, said, log>>

\* The end of screen_init, after its messages. The cursor stays.
ClearScreen ==
    /\ Kmain("screen_init", "mm_init")
    /\ log # <<>>
    /\ screen' = clear_screen(screen, background)
    /\ cleared' = Len(log)
    /\ UNCHANGED <<pc, job, started>>

\* mm_init and idt_init.
InstallIdt ==
    /\ Kmain("mm_init", "idt")
    /\ UNCHANGED <<screen, pc, job, started, cleared>>

\* screen_setup_buffer. The framebuffer then moves to another mapping of the
\* same memory, and kmain goes on to start the timer and the processors.
SetupBuffer ==
    /\ Kmain("idt", "irqs")
    /\ screen' = [screen EXCEPT !.back = screen.front, !.using_back_buffer = TRUE]
    /\ UNCHANGED <<pc, job, started, cleared>>

\* ... unless there is no memory for a back buffer: a message, and while(1).
SetupBufferFails ==
    /\ Kmain("idt", "hung")
    /\ \E m \in Printed : m.level = "error" /\ Begin(Boot, <<m>>)
    /\ UNCHANGED <<screen, cleared>>

\* sched_init sets sys_ready, and kmain spins and prints no more.
SchedInit ==
    /\ Kmain("irqs", "run")
    /\ UNCHANGED <<screen, pc, job, started, cleared>>

-----------------------------------------------------------------------------

BootStep == ClearScreen \/ InstallIdt \/ SetupBuffer \/ SetupBufferFails \/ SchedInit

Next ==
    \/ \E x \in Contexts : (Vprintf(x) /\ Display(x)) \/ debug_printf(x)
    \/ \E c \in Cpus : Spurious(c) \/ Exception(c)
    \/ Timer
    \/ BootStep

Spec == Init /\ [][Next]_vars

(***************************************************************************)
(* The CPUs execute and the timer of CPU 0 ticks; resched gives every      *)
(* thread the CPU again and again (Sched). Interrupts and exceptions need  *)
(* not come, and nobody has to print.                                      *)
(***************************************************************************)
FairSpec ==
    /\ Spec
    /\ WF_vars(Timer)
    /\ \A x \in Contexts : SF_<<pc, said>>(Vprintf(x))

-----------------------------------------------------------------------------
(* Properties.                                                             *)

\* TypeOK: the types. The cursor stays on the screen, whatever is printed and
\* wherever it wraps: putc draws where it is without a look at its limits.
TypeOK ==
    /\ e9_mutex \in {0, 1}
    /\ timer_ticks \in StartTicks..MaxTicks
    /\ task \in Tasks
    /\ screen.x \in 0..(Columns - 1) /\ screen.y \in 0..(Rows - 1)
    /\ screen.fg \in ansi_colors /\ screen.bg \in ansi_colors \cup {background}
    /\ \A x \in Contexts : pc[x] \in {"none", "halted"} <=> job[x] = <<>>

\* The text of the log laid out on a page of any length, as a sequence of
\* rows: a row ends at a line feed or when it is full. clear_screen wipes what
\* is on the page and leaves the rows.
Lines ==
    LET add(p, c) ==
            IF c = NL THEN [p EXCEPT !.rows = Append(@, <<>>)]
            ELSE IF c = Esc(0) THEN [p EXCEPT !.fg = 7]
            ELSE IF c > Esc(0) THEN IF c - Esc(30) \in 0..7 THEN [p EXCEPT !.fg = c - Esc(30)] ELSE p
            ELSE LET n == Len(p.rows)
                     cell == IF c = Space THEN Blank(background) ELSE Cell(c, p.fg, background)
                     row == Append(p.rows[n], cell)
                     rows == [p.rows EXCEPT ![n] = row]
                 IN  [p EXCEPT !.rows = IF Len(row) = Columns THEN Append(rows, <<>>) ELSE rows]
        wipe(p) == [p EXCEPT !.rows = [i \in DOMAIN p.rows |->
                                         [j \in DOMAIN p.rows[i] |-> Blank(background)]]]
        text(k) == FlattenSeq(log[k].pieces)
        page[k \in 0..Len(log)] ==
            LET f[i \in 0..Len(text(k))] == IF i = 0 THEN page[k - 1] ELSE add(f[i - 1], text(k)[i])
                p == IF k = 0 THEN [rows |-> <<<<>>>>, fg |-> 7] ELSE f[Len(text(k))]
            IN  IF k = cleared THEN wipe(p) ELSE p
    IN  page[Len(log)].rows

\* The last rows of the page.
Rendered ==
    LET top == IF Len(Lines) > Rows THEN Len(Lines) - Rows ELSE 0
        lines == Lines
    IN  [p \in Position |->
            LET r == top + p[1] + 1 IN
            IF r <= Len(lines) /\ p[2] < Len(lines[r]) THEN lines[r][p[2] + 1]
            ELSE Blank(background)]

\* ScreenShows: whenever nobody is printing, the monitor shows the last lines
\* of all messages printed so far, each in one piece and in its colours,
\* however their printers were preempted or interrupted and whenever the back
\* buffer came into use.
ScreenShows ==
    e9_mutex = 0 /\ phase # "screen_init" => screen.front = Rendered

\* The value of a digit; other characters are 0.
DigitOf(c) == IF c \in Zero..(Zero + 9) THEN c - Zero
              ELSE IF c \in UpperA..(UpperA + 5) THEN c - UpperA + 10
              ELSE IF c \in (UpperA + 32)..(UpperA + 37) THEN c - UpperA - 22 ELSE 0

\* The number that digits show.
ValueOf(s, radix) ==
    LET f[i \in 0..Len(s)] == IF i = 0 THEN 0 ELSE f[i - 1] * radix + DigitOf(s[i])
    IN  f[Len(s)]

\* The time stamp of a message, read as a decimal fraction. Behind its last
\* digit is an escape sequence.
StampOf(e) ==
    LET fraction == Front(e.pieces[3])
    IN  [seconds |-> ValueOf(e.pieces[2], 10),
         ticks |-> ValueOf(e.pieces[2], 10) * TIMER_FREQUENCY
                       + (ValueOf(fraction, 10) * TIMER_FREQUENCY) \div Power(10, Len(fraction))]

\* StampSound: a time stamp is never ahead of the clock, although seconds and
\* milliseconds are read one after the other and the clock goes on between,
\* and the seconds never go back from one message to the next.
StampSound ==
    \A i \in 1..Len(log) :
        /\ StampOf(log[i]).ticks <= timer_ticks
        /\ i > 1 => StampOf(log[i - 1]).seconds <= StampOf(log[i]).seconds

\* NumbersReadBack: a number in a message, read back in its radix, is the
\* argument, modulo the width of its type unless it is a signed long, and
\* fills the width that the format asks for.
NumbersReadBack ==
    \A e \in {log[i] : i \in 1..Len(log)} :
        \A k \in 1..Len(e.message.body) :
            LET piece == e.message.body[k]
                shown == e.pieces[3 + k + (IF e.message.module = 0 THEN 0 ELSE 1)]
                negative == Len(shown) > 0 /\ shown[1] = Minus
            IN  piece.conv = "text"
                \/ /\ Len(shown) >= piece.width
                   /\ CASE piece.conv = "d" -> ValueOf(shown, 10) = piece.val % Power(2, IntBits)
                        [] piece.conv \in {"x", "X"} -> ValueOf(shown, 16) = piece.val % Power(2, IntBits)
                        [] piece.conv \in {"lx", "lX"} -> ValueOf(shown, 16) = piece.val % Power(2, LongBits)
                        [] piece.conv = "ld" ->
                             piece.val = IF negative THEN -ValueOf(shown, 10) ELSE ValueOf(shown, 10)

\* The contexts that have begun to print and have not released the lock.
Owners == {x \in Contexts : pc[x] \in {"level", "seconds", "millis", "rest"}}

\* A handler of the CPU of the lock's owner waits for the lock, or has stopped
\* there: it runs on top of the owner, and the lock never comes free.
Wedged ==
    \E x \in Owners : \E h \in {Irq(CpuOf(x)), Exc(CpuOf(x))} :
        h # x /\ pc[h] \in {"acquire", "halted"}

\* PrintReturns: whoever prints gets the lock and returns, on whatever CPU and
\* however many others print, unless its CPU has stopped in handle_exception
\* or a handler waits for the lock on top of its owner.
PrintReturns ==
    \A x \in Contexts :
        (pc[x] = "acquire") ~>
            (pc[x] \in {"none", "halted"} \/ pc[Exc(CpuOf(x))] = "halted" \/ Wedged)

=============================================================================
