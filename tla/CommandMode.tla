---------------------------- MODULE CommandMode -----------------------------
(***************************************************************************)
(* Command mode: <gen>_board_run_cmd reads the serial port byte by byte    *)
(* while the operator goes on typing into the receive buffer of the port,  *)
(* which the receive interrupt fills and which drops what it cannot hold.  *)
(*                                                                         *)
(* The rest of loop() is the step "loop".  What commands print is left     *)
(* out; of what they do, the record executed is kept.                      *)
(***************************************************************************)
EXTENDS Integers, SequencesExt

CONSTANTS
    RxCap,      \* bytes the receive buffer holds, 63 on the board
    MaxTyped,   \* bytes the operator types altogether
    MenuBytes,  \* what the operator of a board with a menu types: NL, letters, digits
    PlainBytes  \* and the operator of a board without

NL == "nl"      \* the byte '\n'

ASSUME LineAssumption ==
    /\ RxCap \in Nat \ {0} /\ MaxTyped \in Nat
    /\ NL \in MenuBytes \intersect PlainBytes

VARIABLES
    hasMenu,    \* has the board the sensor sampling menu (cranberry alone)?
    pc,         \* where run_cmd is
    rx,         \* the receive buffer
    input,      \* the local that keeps the first byte of a command
    typed,      \* bytes typed so far
    dropped,    \* has the buffer dropped a byte?
    consumed,   \* the bytes the program has read
    executed    \* the commands it has carried out

vars == <<hasMenu, pc, rx, input, typed, dropped, consumed, executed>>

NoByte == "none"

Bytes == IF hasMenu THEN MenuBytes ELSE PlainBytes

Places == {"loop", "entry", "poll", "flush", "post", "menu_poll", "menu_flush"}

TypeOK ==
    /\ hasMenu \in BOOLEAN
    /\ pc \in Places
    /\ rx \in Seq(Bytes) /\ Len(rx) <= RxCap
    /\ input \in Bytes \union {NoByte}
    /\ typed \in 0 .. MaxTyped
    /\ dropped \in BOOLEAN
    /\ consumed \in Seq(Bytes)
    /\ executed \in Seq(Bytes)

Init ==
    /\ hasMenu \in BOOLEAN
    /\ pc = "loop"
    /\ rx = <<>>
    /\ input = NoByte
    /\ typed = 0
    /\ dropped = FALSE
    /\ consumed = <<>>
    /\ executed = <<>>

-----------------------------------------------------------------------------
(* The operator and the receive interrupt.                                 *)

\* A slip in the interrupt: the buffer never full.
TypeUnbounded ==
    /\ typed < MaxTyped
    /\ typed' = typed + 1
    /\ \E b \in Bytes: rx' = Append(rx, b)
    /\ UNCHANGED <<hasMenu, pc, input, dropped, consumed, executed>>

Type ==
    /\ typed < MaxTyped
    /\ typed' = typed + 1
    /\ \/ Len(rx) < RxCap /\ (\E b \in Bytes: rx' = Append(rx, b))
                          /\ UNCHANGED dropped
       \/ Len(rx) = RxCap /\ dropped' = TRUE /\ UNCHANGED rx
    /\ UNCHANGED <<hasMenu, pc, input, consumed, executed>>

-----------------------------------------------------------------------------
(* The program.  Serial.read() of an empty buffer returns -1, and each of  *)
(* the loops around it then goes round once more: no step is taken.        *)

Read == rx # <<>> /\ rx' = Tail(rx) /\ consumed' = Append(consumed, Head(rx))

\* Slips in loop(): the rest of the first line taken for commands, and a single
\* byte not worth a look.
EnterUnflushed ==
    /\ pc = "loop"
    /\ rx # <<>>
    /\ pc' = "poll"
    /\ UNCHANGED <<hasMenu, rx, input, typed, dropped, consumed, executed>>
EnterTwoBytes ==
    /\ pc = "loop"
    /\ Len(rx) > 1
    /\ pc' = "entry"
    /\ UNCHANGED <<hasMenu, rx, input, typed, dropped, consumed, executed>>

\* loop() finds bytes in the buffer and calls run_cmd.
Enter ==
    /\ pc = "loop"
    /\ rx # <<>>
    /\ pc' = "entry"
    /\ UNCHANGED <<hasMenu, rx, input, typed, dropped, consumed, executed>>

\* The line that got the operator in is thrown away.
SkipEntryLine ==
    /\ pc = "entry"
    /\ Read
    /\ pc' = IF Head(rx) = NL THEN "poll" ELSE "entry"
    /\ UNCHANGED <<hasMenu, input, typed, dropped, executed>>

\* A slip in run_cmd: the command E obeyed before the rest of its line is read.
PollHasty ==
    /\ pc = "poll"
    /\ Read
    /\ input' = Head(rx)
    /\ pc' = IF Head(rx) = "E" THEN "loop" ELSE "flush"
    /\ UNCHANGED <<hasMenu, typed, dropped, executed>>

\* The first byte of a line is the command.
Poll ==
    /\ pc = "poll"
    /\ Read
    /\ input' = Head(rx)
    /\ pc' = "flush"
    /\ UNCHANGED <<hasMenu, typed, dropped, executed>>

\* Where the command c takes run_cmd.
Target(c) ==
    CASE c = "E"            -> "loop"
      [] c = "P"            -> "post"
      [] c = "S" /\ hasMenu -> "menu_poll"
      [] OTHER              -> "poll"

\* The rest of the line is thrown away and the command carried out.
Flush ==
    /\ pc = "flush"
    /\ Read
    /\ IF Head(rx) = NL
       THEN pc' = Target(input) /\ input' = NoByte
       ELSE UNCHANGED <<pc, input>>
    /\ UNCHANGED <<hasMenu, typed, dropped, executed>>

\* The self-test runs to its end; it does not look at the serial port.
Post ==
    /\ pc = "post"
    /\ executed' = Append(executed, "P")
    /\ pc' = "poll"
    /\ UNCHANGED <<hasMenu, rx, input, typed, dropped, consumed>>

\* The sensor sampling menu of cranberry reads its lines the same way.
MenuPoll ==
    /\ pc = "menu_poll"
    /\ Read
    /\ input' = Head(rx)
    /\ pc' = "menu_flush"
    /\ UNCHANGED <<hasMenu, typed, dropped, executed>>

Tests == {"1", "2", "3", "4", "5", "6", "7"}

\* A slip in the menu: E leaves command mode altogether.
MenuFlushExits ==
    /\ pc = "menu_flush"
    /\ Read
    /\ IF Head(rx) = NL
       THEN /\ pc' = IF input = "E" THEN "loop" ELSE "menu_poll"
            /\ input' = NoByte
            /\ executed' = IF input \in Tests THEN Append(executed, input)
                           ELSE executed
       ELSE UNCHANGED <<pc, input, executed>>
    /\ UNCHANGED <<hasMenu, typed, dropped>>

MenuFlush ==
    /\ pc = "menu_flush"
    /\ Read
    /\ IF Head(rx) = NL
       THEN /\ pc' = IF input = "E" THEN "poll" ELSE "menu_poll"
            /\ input' = NoByte
            /\ executed' = IF input \in Tests THEN Append(executed, input)
                           ELSE executed
       ELSE UNCHANGED <<pc, input, executed>>
    /\ UNCHANGED <<hasMenu, typed, dropped>>

Program ==
    \/ Enter \/ SkipEntryLine \/ Poll \/ Flush \/ Post \/ MenuPoll \/ MenuFlush

Next == Type \/ Program

Spec == Init /\ [][Next]_vars

\* The processor runs; the operator need not type.
FairSpec == Spec /\ WF_vars(Program)

-----------------------------------------------------------------------------
(* What an operator may expect, line by line.                              *)

\* Bytes cut into lines: the whole ones, each without its NL, and the part left
\* over, after each of the bytes.
NoLines == [whole |-> <<>>, part |-> <<>>]

CutByte(cut, b) ==
    IF b = NL
    THEN [whole |-> Append(cut.whole, cut.part), part |-> <<>>]
    ELSE [whole |-> cut.whole, part |-> Append(cut.part, b)]

Cut(bytes) ==
    LET cut[n \in 0 .. Len(bytes)] ==
            IF n = 0 THEN NoLines ELSE CutByte(cut[n - 1], bytes[n])
    IN  cut

Lines(bytes) == Cut(bytes)[Len(bytes)].whole
Unfinished(bytes) == Cut(bytes)[Len(bytes)].part

\* The mode a line that starts with c leads to from another, with the menu of
\* the board or without.
LeadsTo(menu, mode, c) ==
    CASE mode = "loop"                      -> "poll"
      [] mode = "poll" /\ c = "E"           -> "loop"
      [] mode = "poll" /\ c = "S" /\ menu   -> "menu_poll"
      [] mode = "menu_poll" /\ c = "E"      -> "poll"
      [] OTHER                              -> mode

\* What a line does in a session: the first one opens it, then the first byte of
\* each is a command to the mode it is in.  An empty line is none.
Obey(menu, session, line) ==
    LET c == IF line = <<>> THEN NoByte ELSE Head(line)
        asks == \/ session.mode = "poll" /\ c = "P"
                \/ session.mode = "menu_poll" /\ c \in Tests
    IN  [mode  |-> LeadsTo(menu, session.mode, c),
         done  |-> IF asks THEN Append(session.done, c) ELSE session.done,
         empty |-> session.empty \/ (session.mode # "loop" /\ line = <<>>)]

\* The session after each of a sequence of lines.
NoSession == [mode |-> "loop", done |-> <<>>, empty |-> FALSE]

Session(menu, lines) ==
    LET after[n \in 0 .. Len(lines)] ==
            IF n = 0 THEN NoSession ELSE Obey(menu, after[n - 1], lines[n])
    IN  after

SessionOf(menu, bytes) ==
    LET lines == Lines(bytes) IN Session(menu, lines)[Len(lines)]

AtRest == pc \in {"loop", "poll", "menu_poll"}

\* Whenever run_cmd looks for a new command, it has carried out exactly what
\* the lines it has read ask for, and is in the mode they lead to, however the
\* typing and the reading were interleaved and whatever the buffer dropped,
\* unless an empty line was typed where a command is expected.
LinesObeyed ==
    LET session == SessionOf(hasMenu, consumed)
    IN  AtRest /\ ~session.empty => session.mode = pc /\ session.done = executed

\* run_cmd never stops in the middle of a line.
LineAligned ==
    AtRest \/ pc = "post" => consumed = <<>> \/ Last(consumed) = NL

\* A complete line in the buffer is read in the end: run_cmd does not wait for
\* more than the end of a line, and loop() calls it again for what is left over.
NoLineLeft == Contains(rx, NL) ~> ~Contains(rx, NL)
=============================================================================
