------------------------------ MODULE Console -------------------------------
(***************************************************************************)
(* The host side of the UART, uart_poll_input and its neighbours in        *)
(* src/src/device/uart.c: bytes the user types reach the guest through     *)
(* uart_receive, except that in console (raw) mode Ctrl-] followed by x    *)
(* or X quits.  A read returns any non-empty prefix of what the host has,  *)
(* so a pair may be split between two reads and a Ctrl-] that ends a batch *)
(* is held back.                                                           *)
(*                                                                         *)
(* The state is the poll's static variables, the host's file description   *)
(* (what was typed, how much of it was read) and the sequence of bytes     *)
(* passed to uart_receive.  Uart says what becomes of those.               *)
(***************************************************************************)
EXTENDS Integers, Sequences, SequencesExt, FiniteSetsExt

CONSTANTS
    Esc, Quit,      \* Ctrl-], and x or X
    Plain,          \* the other bytes
    BatchSize,      \* sizeof(buf), the most one read returns
    MaxTyped        \* how many bytes the user types

ASSUME ConsoleAssumption ==
    /\ BatchSize \in Nat \ {0} /\ MaxTyped \in Nat
    /\ Esc # Quit /\ {Esc, Quit} \intersect Plain = {}

Byte == {Esc, Quit} \union Plain

VARIABLES
    typed,                  \* everything the host has put on stdin
    closed,                 \* the host closed stdin
    signalled,              \* a terminating signal has arrived
    consumed,               \* how many of the typed bytes read() has returned
    received,               \* the bytes handed to uart_receive
    epfd,                   \* the poll's epoll instance: -1, then 0
    uart_input_active, uart_esc_held, uart_quit_requested,
    uart_terminal_raw,
    uart_saved_termios,     \* 1 when set-up saved and left the host's mode
    stopped                 \* the run loop has left

hostVars == <<typed, closed>>
escVars == <<consumed, received, uart_esc_held>>
ttyVars == <<uart_terminal_raw, uart_saved_termios>>
consoleVars == <<hostVars, escVars, ttyVars, signalled, epfd, uart_input_active,
          uart_quit_requested, stopped>>

\* After uart_input_setup: raw mode on an interactive console, else not.
ConsoleInit ==
    /\ typed = <<>> /\ closed = 0 /\ signalled = 0
    /\ consumed = 0 /\ received = <<>>
    /\ epfd = -1
    /\ uart_input_active = 1 /\ uart_esc_held = 0 /\ uart_quit_requested = 0
    /\ uart_terminal_raw \in {0, 1} /\ uart_saved_termios = uart_terminal_raw
    /\ stopped = 0

-----------------------------------------------------------------------------
\* The host.

Type ==
    /\ closed = 0 /\ Len(typed) < MaxTyped
    /\ \E c \in Byte : typed' = Append(typed, c)
    /\ UNCHANGED <<closed, escVars, ttyVars, signalled, epfd, uart_input_active,
                   uart_quit_requested, stopped>>

Close ==
    /\ closed = 0 /\ closed' = 1
    /\ UNCHANGED <<typed, escVars, ttyVars, signalled, epfd, uart_input_active,
                   uart_quit_requested, stopped>>

\* uart_input_signal: SIGINT, SIGTERM, SIGQUIT or SIGHUP between two reads; the
\* handlers are installed in raw mode only.
uart_input_signal ==
    /\ uart_terminal_raw = 1 /\ signalled = 0
    /\ signalled' = 1 /\ uart_quit_requested' = 1
    /\ UNCHANGED <<hostVars, escVars, ttyVars, epfd, uart_input_active, stopped>>

-----------------------------------------------------------------------------
\* The for loop over one batch, as a recursive function of the position: what
\* it passes on, whether it ends holding a Ctrl-], whether it asks to quit.  A
\* signal that arrives before byte `cut` is processed ends the loop there;
\* cut = Len(buf) + 1 when none does.
Outcome(out, held, quit) == [out |-> out, held |-> held, quit |-> quit]

Scan(buf, raw, cut) ==
    LET from[i \in 1 .. Len(buf) + 1] ==
            IF i > Len(buf) THEN Outcome(<<>>, 0, 0)
            ELSE IF i >= cut THEN Outcome(<<>>, 0, 1)
            ELSE IF raw = 1 /\ buf[i] = Esc
                 THEN IF i = Len(buf) THEN Outcome(<<>>, 1, 0)
                      ELSE IF buf[i + 1] = Quit THEN Outcome(<<>>, 0, 1)
                      ELSE [from[i + 1] EXCEPT !.out = <<Esc>> \o @]
                 ELSE [from[i + 1] EXCEPT !.out = <<buf[i]>> \o @]
    IN  from[1]

\* The held Ctrl-] forgotten when the next batch does not start with x.
MutBatchDropsHeld(buf, held, raw, cut) ==
    IF held = 1 /\ buf[1] = Quit THEN Outcome(<<>>, 0, 1) ELSE Scan(buf, raw, cut)

\* One batch, the held Ctrl-] first.
Batch(buf, held, raw, cut) ==
    IF held = 1
    THEN IF buf[1] = Quit THEN Outcome(<<>>, 0, 1)
         ELSE [Scan(buf, raw, cut) EXCEPT !.out = <<Esc>> \o @]
    ELSE Scan(buf, raw, cut)

Available == Len(typed) - consumed
Polling == stopped = 0 /\ uart_input_active = 1 /\ uart_quit_requested = 0

\* The first poll sets epoll up.  A failure, of epoll_create1 or (an stdin that
\* is a plain file) of epoll_ctl, silences the console for good.
OpenEpoll ==
    /\ Polling /\ epfd = -1
    /\ \/ epfd' = 0 /\ UNCHANGED uart_input_active
       \/ epfd' \in {-1, 0} /\ uart_input_active' = 0
    /\ UNCHANGED <<hostVars, escVars, ttyVars, signalled, uart_quit_requested, stopped>>

\* One read of the drain loop that returns n bytes.
ReadBatch ==
    /\ Polling /\ epfd = 0
    /\ \E n \in 1 .. BatchSize : \E cut \in 1 .. n + 1 :
          LET r == Batch(SubSeq(typed, consumed + 1, consumed + n),
                         uart_esc_held, uart_terminal_raw, cut)
          IN  /\ n <= Available
              /\ cut <= n => uart_terminal_raw = 1 /\ signalled = 0
              /\ signalled' = IF cut <= n THEN 1 ELSE signalled
              /\ received' = received \o r.out
              /\ uart_esc_held' = r.held
              /\ uart_quit_requested' = IF cut <= n THEN 1 ELSE r.quit
              /\ consumed' = consumed + n
    /\ UNCHANGED <<hostVars, ttyVars, epfd, uart_input_active, stopped>>

\* A read that returns 0: end of file.
ReadEof ==
    /\ Polling /\ epfd = 0
    /\ Available = 0 /\ closed = 1
    /\ uart_input_active' = 0
    /\ UNCHANGED <<hostVars, escVars, ttyVars, signalled, epfd, uart_quit_requested,
                   stopped>>

\* The loop left without restoring the terminal.
MutQuitKeepsRaw ==
    /\ uart_quit_requested = 1 /\ stopped = 0
    /\ stopped' = 1 /\ uart_input_active' = 0
    /\ UNCHANGED <<hostVars, escVars, ttyVars, signalled, epfd, uart_quit_requested>>

\* The poll returns nonzero; the run loop calls uart_input_cleanup and leaves.
ReturnQuit ==
    /\ uart_quit_requested = 1 /\ stopped = 0
    /\ stopped' = 1 /\ uart_input_active' = 0
    /\ uart_terminal_raw' = 0
    /\ UNCHANGED <<hostVars, escVars, signalled, epfd, uart_saved_termios,
                   uart_quit_requested>>

uart_poll_input == OpenEpoll \/ ReadBatch \/ ReadEof \/ ReturnQuit

ConsoleNext == Type \/ Close \/ uart_input_signal \/ uart_poll_input

\* The run loop polls in every iteration.
ConsoleSpec == ConsoleInit /\ [][ConsoleNext]_consoleVars /\ WF_consoleVars(uart_poll_input)

-----------------------------------------------------------------------------
\* What the guest should get of a stream in raw mode, whatever the batches: all
\* of it up to the first Ctrl-] x.
QuitAt(s) == {i \in 1 .. Len(s) - 1 : s[i] = Esc /\ s[i + 1] = Quit}
Passed(s) == IF QuitAt(s) = {} THEN s ELSE SubSeq(s, 1, Min(QuitAt(s)) - 1)

(***************************************************************************)
(* Batching is invisible: however read() splits the input, the guest has   *)
(* received exactly the bytes before the first Ctrl-] x of what was read,  *)
(* in order, short of a Ctrl-] that is still held back; a terminating      *)
(* signal can only cut the tail off.  Without a terminal nothing is        *)
(* intercepted: piped input reaches the guest byte for byte, Ctrl-] x      *)
(* included, and never quits.                                              *)
(***************************************************************************)
BatchingInvisible ==
    LET read == SubSeq(typed, 1, consumed)
        held == IF uart_esc_held = 1 THEN <<Esc>> ELSE <<>>
    IN  IF uart_saved_termios = 0
        THEN received = read /\ uart_quit_requested = 0
        ELSE IF signalled = 1 THEN IsPrefix(received, Passed(read))
        ELSE IF QuitAt(read) # {}
        THEN received = Passed(read) /\ uart_quit_requested = 1
        ELSE received \o held = read /\ uart_quit_requested = 0

(***************************************************************************)
(* The quit escape works: once Ctrl-] x has been typed at a terminal the   *)
(* emulator leaves, with the terminal restored, however the pair is split  *)
(* and whatever else is typed, closed or signalled meanwhile.  Only a poll *)
(* that could not set epoll up reads nothing, and then a signal has to do. *)
(***************************************************************************)
SetUpFailed == uart_input_active = 0 /\ consumed = 0 /\ uart_quit_requested = 0

QuitLeaves ==
    (uart_saved_termios = 1 /\ QuitAt(typed) # {})
        ~> \/ stopped = 1 /\ uart_terminal_raw = 0
           \/ SetUpFailed

=============================================================================
