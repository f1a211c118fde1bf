----------------------------- MODULE UartProofs ------------------------------
(***************************************************************************)
(* Theorems about the emulated serial port, for FIFOs of every size and    *)
(* for any number of bytes typed: no byte is lost, doubled or overtaken,   *)
(* and none is left in the UART with nothing to announce it.               *)
(*                                                                         *)
(* Two facts carry the rest.  While uart_pty may send (xon), the UART has  *)
(* room and the next XOFF gets through the filter of its irq: FlowInv.     *)
(* And whatever makes the program read UDR, the timer, the flag or the     *)
(* interrupt, is on its way only while there is a byte, one of them at a   *)
(* time: ReceiverInv.                                                      *)
(***************************************************************************)
EXTENDS UartPty, SequenceTheorems, TLAPS

-----------------------------------------------------------------------------
(* Bytes that are handed on from one sequence to the next.                 *)

Numbers == 0 .. MaxTyped

\* The head of t moves to the end of s.
LEMMA HandOn ==
    ASSUME NEW S, NEW s \in Seq(S), NEW t \in Seq(S), t # <<>>
    PROVE  /\ Head(t) \in S
           /\ Append(s, Head(t)) \in Seq(S) /\ Len(Append(s, Head(t))) = Len(s) + 1
           /\ Tail(t) \in Seq(S) /\ Len(Tail(t)) = Len(t) - 1
           /\ Append(s, Head(t)) \o Tail(t) = s \o t
<1>1. /\ Head(t) \in S
      /\ Append(s, Head(t)) \in Seq(S) /\ Len(Append(s, Head(t))) = Len(s) + 1
      /\ Tail(t) \in Seq(S) /\ Len(Tail(t)) = Len(t) - 1
  OBVIOUS
<1>2. Append(s, Head(t)) = s \o <<Head(t)>>
  BY <1>1, AppendIsConcat
<1>3. <<Head(t)>> \o Tail(t) = t
  BY <1>1
<1>4. <<Head(t)>> \in Seq(S)
  BY <1>1
<1>5. (s \o <<Head(t)>>) \o Tail(t) = s \o (<<Head(t)>> \o Tail(t))
  BY <1>1, <1>4, ConcatAssociative
<1> QED
  BY <1>1, <1>2, <1>3, <1>5

\* The bytes of all five places.
LEMMA Places ==
    ASSUME TypeOK
    PROVE  /\ MaxTyped \in Nat
           /\ received \in Seq(Numbers) /\ input \in Seq(Numbers)
           /\ out \in Seq(Numbers) /\ buf \in Seq(Numbers)
           /\ terminal \in Seq(Numbers)
           /\ received \o input \in Seq(Numbers)
           /\ received \o input \o out \in Seq(Numbers)
           /\ received \o input \o out \o buf \in Seq(Numbers)
<1>1. MaxTyped \in Nat /\ 1 .. MaxTyped \subseteq Numbers
  BY UartAssumption DEF Numbers
<1>2. received \in Seq(Numbers)
  BY DEF TypeOK, Numbers
<1>3. input \in Seq(Numbers) /\ out \in Seq(Numbers) /\ buf \in Seq(Numbers)
      /\ terminal \in Seq(Numbers)
  BY <1>1, SeqMonotonic DEF TypeOK
<1>4. received \o input \in Seq(Numbers)
  BY <1>2, <1>3, ConcatProperties
<1>5. received \o input \o out \in Seq(Numbers)
  BY <1>3, <1>4, ConcatProperties
<1>6. received \o input \o out \o buf \in Seq(Numbers)
  BY <1>3, <1>5, ConcatProperties
<1> QED
  BY <1>1, <1>2, <1>3, <1>4, <1>5, <1>6

\* The same of the next state.
LEMMA PlacesNext ==
    ASSUME TypeOK'
    PROVE  /\ received' \in Seq(Numbers) /\ input' \in Seq(Numbers)
           /\ out' \in Seq(Numbers) /\ buf' \in Seq(Numbers)
           /\ terminal' \in Seq(Numbers)
<1>1. 1 .. MaxTyped \subseteq Numbers
  BY UartAssumption DEF Numbers
<1>2. received' \in Seq(Numbers)
  BY DEF TypeOK, Numbers
<1>3. input' \in Seq(Numbers) /\ out' \in Seq(Numbers) /\ buf' \in Seq(Numbers)
      /\ terminal' \in Seq(Numbers)
  BY <1>1, SeqMonotonic DEF TypeOK
<1> QED
  BY <1>2, <1>3

-----------------------------------------------------------------------------
(* The invariant.                                                          *)

FlowInv == xon => ~xoff /\ Len(input) < InputCap

ReceiverInv ==
    /\ rxTimer => input # <<>> /\ ~rxc /\ ~pending /\ program \in {"boot", "app"}
    /\ rxc => input # <<>>
    /\ pending => rxc /\ program = "app"
    /\ program = "getch" => rxc
    /\ program = "isr" => input # <<>> /\ ~rxc
    /\ rxcie <=> program \in {"app", "isr"}
    /\ stranded => rxcie

UartInv == TypeOK /\ FlowInv /\ ReceiverInv /\ NothingLost /\ ByteAnnounced

LEMMA InitUart == Init => UartInv
<1> SUFFICES ASSUME Init PROVE UartInv
  OBVIOUS
<1>1. TypeOK
  <2>1. /\ terminal = <<>> /\ buf = <<>> /\ out = <<>> /\ input = <<>>
        /\ received = <<>> /\ typed = 0 /\ printed = 0
        /\ thread = "select" /\ flushing = "none" /\ program = "boot"
    BY DEF Init
  <2>2. /\ drains \in BOOLEAN /\ xon \in BOOLEAN /\ xoff \in BOOLEAN
        /\ flushTimer \in BOOLEAN /\ rxTimer \in BOOLEAN /\ rxc \in BOOLEAN
        /\ rxcie \in BOOLEAN /\ pending \in BOOLEAN /\ stranded \in BOOLEAN
    BY DEF Init
  <2>3. /\ MaxTyped \in Nat /\ TapCap \in Nat /\ OutCap \in Nat
        /\ InputCap \in Nat /\ PrintCap \in Nat
    BY UartAssumption
  <2> QED
    BY <2>1, <2>2, <2>3 DEF TypeOK
<1>2. FlowInv /\ ReceiverInv /\ ByteAnnounced
  BY DEF Init, FlowInv, ReceiverInv, ByteAnnounced
<1>3. NothingLost
  <2>1. received \o input \o out \o buf \o terminal = <<>>
    BY DEF Init
  <2>2. [k \in 1 .. typed |-> k] = <<>>
    BY DEF Init
  <2> QED
    BY <2>1, <2>2 DEF NothingLost
<1> QED
  BY <1>1, <1>2, <1>3 DEF UartInv

-----------------------------------------------------------------------------
(* The terminal and its thread: the firmware's side is left alone.         *)

LEMMA TypeUart ==
    ASSUME UartInv, Type
    PROVE  UartInv'
<1> DEFINE ahead == received \o input \o out \o buf
<1>1. /\ typed < MaxTyped /\ typed' = typed + 1
      /\ terminal' = Append(terminal, typed + 1)
      /\ UNCHANGED <<pty, out, printed, flow, flushing, uart, flags, firmware>>
  BY DEF Type
<1>2. MaxTyped \in Nat /\ typed \in 0 .. MaxTyped /\ Len(terminal) <= typed
      /\ terminal \in Seq(1 .. MaxTyped)
  <2>1. ahead \in Seq(Numbers) /\ terminal \in Seq(Numbers)
    BY Places DEF UartInv
  <2>2. typed \in 0 .. MaxTyped /\ MaxTyped \in Nat
    BY Places DEF UartInv, TypeOK
  <2>3. Len(ahead \o terminal) = Len(ahead) + Len(terminal)
    BY <2>1, ConcatProperties
  <2>4. Len([k \in 1 .. typed |-> k]) = typed
    BY <2>2
  <2>5. Len(ahead) \in Nat /\ Len(terminal) \in Nat
    BY <2>1
  <2>6. ahead \o terminal = [k \in 1 .. typed |-> k]
    BY DEF UartInv, NothingLost
  <2>7. terminal \in Seq(1 .. MaxTyped)
    BY DEF UartInv, TypeOK
  <2> HIDE DEF ahead
  <2> QED
    BY <2>2, <2>3, <2>4, <2>5, <2>6, <2>7
<1>3. terminal' \in Seq(1 .. MaxTyped) /\ Len(terminal') <= MaxTyped
      /\ typed' \in 0 .. MaxTyped
  BY <1>1, <1>2
<1>4. TypeOK'
  BY <1>1, <1>3
  DEF UartInv, TypeOK, pty, flow, uart, flags, firmware
<1>5. FlowInv' /\ ReceiverInv' /\ ByteAnnounced'
  BY <1>1
  DEF UartInv, FlowInv, ReceiverInv, ByteAnnounced, pty, flow, uart, flags, firmware
<1>6. NothingLost'
  <2>1. ahead' = ahead
    BY <1>1 DEF pty, uart, firmware
  <2>2. ahead \in Seq(Numbers) /\ terminal \in Seq(Numbers) /\ typed + 1 \in Numbers
    BY <1>1, <1>2, Places DEF UartInv, Numbers
  <2>3. ahead \o terminal = [k \in 1 .. typed |-> k]
    BY DEF UartInv, NothingLost
  <2> HIDE DEF ahead
  <2>4. ahead \o Append(terminal, typed + 1) = Append(ahead \o terminal, typed + 1)
    <3>1. <<typed + 1>> \in Seq(Numbers) /\ ahead \o terminal \in Seq(Numbers)
      BY <2>2, ConcatProperties
    <3>2. Append(terminal, typed + 1) = terminal \o <<typed + 1>>
      BY <2>2, AppendIsConcat
    <3>3. Append(ahead \o terminal, typed + 1) = (ahead \o terminal) \o <<typed + 1>>
      BY <2>2, <3>1, AppendIsConcat
    <3> QED
      BY <2>2, <3>1, <3>2, <3>3, ConcatAssociative
  <2>5. Append([k \in 1 .. typed |-> k], typed + 1) = [k \in 1 .. typed + 1 |-> k]
    BY <1>2
  <2>6. ahead' \o terminal' = [k \in 1 .. typed' |-> k]
    BY <1>1, <2>1, <2>3, <2>4, <2>5
  <2> QED
    BY <2>6 DEF NothingLost, ahead
<1> QED
  BY <1>4, <1>5, <1>6 DEF UartInv

LEMMA SelectUart ==
    ASSUME UartInv, Select
    PROVE  UartInv'
<1>1. /\ drains' \in BOOLEAN /\ thread' = "fill"
      /\ UNCHANGED <<typed, out, printed, flow, flushing, uart, flags, firmware>>
  <2>1. drains' \in {FALSE, printed > 0}
    BY DEF Select
  <2>4. thread' = "fill"
        /\ UNCHANGED <<typed, out, printed, flow, flushing, uart, flags, firmware>>
    BY DEF Select
  <2>5. drains' \in BOOLEAN
    <3>1. CASE drains' = FALSE
      BY <3>1
    <3>2. CASE drains' = (printed > 0)
      BY <3>2
    <3> QED
      BY <2>1, <3>1, <3>2
  <2> QED
    BY <2>4, <2>5
<1>2. /\ buf' \in Seq(1 .. MaxTyped) /\ Len(buf') <= TapCap
      /\ terminal' \in Seq(1 .. MaxTyped) /\ Len(terminal') <= MaxTyped
      /\ buf' \o terminal' = buf \o terminal
  <2>1. CASE buf = <<>> /\ terminal # <<>>
    <3>1. PICK n \in 1 .. TapCap:
              /\ n <= Len(terminal)
              /\ buf' = SubSeq(terminal, 1, n)
              /\ terminal' = SubSeq(terminal, n + 1, Len(terminal))
      BY <2>1 DEF Select
    <3>2. /\ terminal \in Seq(1 .. MaxTyped) /\ Len(terminal) <= MaxTyped
          /\ MaxTyped \in Nat /\ TapCap \in Nat /\ Len(terminal) \in Nat
      BY UartAssumption DEF UartInv, TypeOK
    <3>3. /\ buf' \in Seq(1 .. MaxTyped) /\ Len(buf') = n
          /\ terminal' \in Seq(1 .. MaxTyped) /\ Len(terminal') = Len(terminal) - n
      BY <3>1, <3>2
    <3>4. buf' \o terminal' = SubSeq(terminal, 1, Len(terminal))
      BY <3>1, <3>2, ConcatAdjacentSubSeq
    <3>5. SubSeq(terminal, 1, Len(terminal)) = terminal /\ <<>> \o terminal = terminal
      BY <3>2, SubSeqFull, ConcatEmptySeq
    <3>6. buf' \o terminal' = buf \o terminal
      BY <2>1, <3>4, <3>5
    <3>7. n <= TapCap /\ Len(terminal) - n <= MaxTyped
      BY <3>1, <3>2
    <3> QED
      BY <3>3, <3>6, <3>7
  <2>2. CASE ~(buf = <<>> /\ terminal # <<>>)
    <3>1. buf' = buf /\ terminal' = terminal
      BY <2>2 DEF Select
    <3> QED
      BY <3>1 DEF UartInv, TypeOK
  <2> QED
    BY <2>1, <2>2
<1>3. TypeOK'
  BY <1>1, <1>2 DEF UartInv, TypeOK, flow, uart, flags, firmware
<1>4. FlowInv' /\ ReceiverInv' /\ ByteAnnounced'
  BY <1>1
  DEF UartInv, FlowInv, ReceiverInv, ByteAnnounced, flow, uart, flags, firmware
<1>5. NothingLost'
  <2> DEFINE ahead == received \o input \o out
  <2>1. ahead' = ahead
    BY <1>1 DEF uart, firmware
  <2>2. /\ ahead \in Seq(Numbers) /\ buf \in Seq(Numbers) /\ terminal \in Seq(Numbers)
        /\ buf' \in Seq(Numbers) /\ terminal' \in Seq(Numbers)
    BY <1>3, Places, PlacesNext DEF UartInv
  <2>3. (ahead \o buf) \o terminal = [k \in 1 .. typed |-> k]
    BY DEF UartInv, NothingLost
  <2> HIDE DEF ahead
  <2>4. (ahead \o buf') \o terminal' = (ahead \o buf) \o terminal
    <3>1. (ahead \o buf') \o terminal' = ahead \o (buf' \o terminal')
      BY <2>2, ConcatAssociative
    <3>2. (ahead \o buf) \o terminal = ahead \o (buf \o terminal)
      BY <2>2, ConcatAssociative
    <3> QED
      BY <1>2, <3>1, <3>2
  <2>5. (ahead' \o buf') \o terminal' = [k \in 1 .. typed' |-> k]
    BY <1>1, <2>1, <2>3, <2>4
  <2> QED
    BY <2>5 DEF NothingLost, ahead
<1> QED
  BY <1>3, <1>4, <1>5 DEF UartInv

LEMMA FillUart ==
    ASSUME UartInv, Fill
    PROVE  UartInv'
<1>1. UNCHANGED <<host, drains, printed, flow, flushing, uart, flags, firmware>>
  BY DEF Fill
<1>2. /\ thread' \in {"fill", "drain"}
      /\ buf' \in Seq(1 .. MaxTyped) /\ Len(buf') <= TapCap
      /\ out' \in Seq(1 .. MaxTyped) /\ Len(out') <= OutCap
      /\ out' \o buf' = out \o buf
  <2>1. /\ buf \in Seq(1 .. MaxTyped) /\ Len(buf) <= TapCap
        /\ out \in Seq(1 .. MaxTyped) /\ Len(out) <= OutCap
        /\ OutCap \in Nat /\ TapCap \in Nat
    BY UartAssumption DEF UartInv, TypeOK
  <2>2. CASE buf # <<>> /\ Len(out) < OutCap
    <3>1. out' = Append(out, Head(buf)) /\ buf' = Tail(buf) /\ thread' = thread
          /\ thread = "fill"
      BY <2>2 DEF Fill
    <3>2. out' \o buf' = out \o buf
      BY <2>1, <2>2, <3>1, HandOn
    <3>3. /\ buf' \in Seq(1 .. MaxTyped) /\ Len(buf') = Len(buf) - 1
          /\ out' \in Seq(1 .. MaxTyped) /\ Len(out') = Len(out) + 1
      BY <2>1, <2>2, <3>1, HandOn
    <3>5. Len(buf) \in Nat /\ Len(out) \in Nat /\ Len(out) < OutCap
      BY <2>1, <2>2
    <3>4. Len(buf') <= TapCap /\ Len(out') <= OutCap
      BY <2>1, <3>3, <3>5
    <3> QED
      BY <3>1, <3>2, <3>3, <3>4
  <2>3. CASE ~(buf # <<>> /\ Len(out) < OutCap)
    <3>1. thread' = "drain" /\ out' = out /\ buf' = buf
      BY <2>3 DEF Fill
    <3> QED
      BY <2>1, <3>1
  <2> QED
    BY <2>2, <2>3
<1>3. TypeOK'
  BY <1>1, <1>2 DEF UartInv, TypeOK, host, flow, uart, flags, firmware
<1>4. FlowInv' /\ ReceiverInv' /\ ByteAnnounced'
  BY <1>1
  DEF UartInv, FlowInv, ReceiverInv, ByteAnnounced, flow, uart, flags, firmware
<1>5. NothingLost'
  <2> DEFINE ahead == received \o input
  <2>1. ahead' = ahead /\ terminal' = terminal /\ typed' = typed
    BY <1>1 DEF host, uart, firmware
  <2>2. /\ ahead \in Seq(Numbers) /\ out \in Seq(Numbers) /\ buf \in Seq(Numbers)
        /\ out' \in Seq(Numbers) /\ buf' \in Seq(Numbers)
    BY <1>3, Places, PlacesNext DEF UartInv
  <2>3. ((ahead \o out) \o buf) \o terminal = [k \in 1 .. typed |-> k]
    BY DEF UartInv, NothingLost
  <2> HIDE DEF ahead
  <2>4. (ahead \o out') \o buf' = (ahead \o out) \o buf
    <3>1. (ahead \o out') \o buf' = ahead \o (out' \o buf')
      BY <2>2, ConcatAssociative
    <3>2. (ahead \o out) \o buf = ahead \o (out \o buf)
      BY <2>2, ConcatAssociative
    <3> QED
      BY <1>2, <3>1, <3>2
  <2>5. ((ahead' \o out') \o buf') \o terminal' = [k \in 1 .. typed' |-> k]
    BY <2>1, <2>3, <2>4
  <2> QED
    BY <2>5 DEF NothingLost, ahead
<1> QED
  BY <1>3, <1>4, <1>5 DEF UartInv

LEMMA DrainUart ==
    ASSUME UartInv, Drain
    PROVE  UartInv'
<1>1. /\ printed' \in 0 .. PrintCap /\ drains' = FALSE /\ thread' = "select"
      /\ UNCHANGED <<host, buf, out, flow, flushing, uart, flags, firmware>>
  BY UartAssumption DEF Drain, UartInv, TypeOK
<1>2. TypeOK'
  BY <1>1 DEF UartInv, TypeOK, host, flow, uart, flags, firmware
<1>3. FlowInv' /\ ReceiverInv' /\ ByteAnnounced' /\ NothingLost'
  BY <1>1
  DEF UartInv, FlowInv, ReceiverInv, ByteAnnounced, NothingLost, host, flow, uart,
      flags, firmware
<1> QED
  BY <1>2, <1>3 DEF UartInv

-----------------------------------------------------------------------------
(* Flow control.                                                           *)

\* A byte goes into the UART: there is room for it, as xon says.
LEMMA FlushByteUart ==
    ASSUME UartInv, FlushByte
    PROVE  UartInv'
<1>1. /\ xon /\ out # <<>> /\ out' = Tail(out)
      /\ UNCHANGED <<host, pty, printed, flushing, flags, firmware>>
  BY DEF FlushByte
<1>2. /\ input \in Seq(1 .. MaxTyped) /\ out \in Seq(1 .. MaxTyped)
      /\ Len(input) \in Nat /\ Len(out) \in Nat /\ Len(out) <= OutCap
      /\ InputCap \in Nat /\ OutCap \in Nat
  BY UartAssumption DEF UartInv, TypeOK
<1>3. ~xoff /\ Len(input) < InputCap
  BY <1>1 DEF UartInv, FlowInv
<1>4. input' = Append(input, Head(out))
  BY <1>3 DEF FlushByte, InputByte
<1>5. rxTimer' = (rxTimer \/ input = <<>>)
  BY DEF FlushByte, InputByte
<1>6. /\ input' \in Seq(1 .. MaxTyped) /\ Len(input') = Len(input) + 1
      /\ out' \in Seq(1 .. MaxTyped) /\ Len(out') = Len(out) - 1
      /\ input' # <<>> /\ input' \o out' = input \o out
  <2>2. input' \in Seq(1 .. MaxTyped) /\ Len(input') = Len(input) + 1
    BY <1>1, <1>2, <1>4, HandOn
  <2>3. out' \in Seq(1 .. MaxTyped) /\ Len(out') = Len(out) - 1
    BY <1>1, <1>2, HandOn
  <2>4. input' \o out' = input \o out
    BY <1>1, <1>2, <1>4, HandOn
  <2>5. Len(input') > 0
    BY <1>2, <2>2
  <2> QED
    BY <2>2, <2>3, <2>4, <2>5
<1>7. /\ xon' \in BOOLEAN /\ xoff' \in BOOLEAN /\ flushTimer' \in BOOLEAN
      /\ FlowInv'
  <2>1. CASE Len(input') = InputCap
    <3>1. xoff' = TRUE /\ xon' = FALSE /\ flushTimer' = FALSE
      BY <1>3, <2>1 DEF FlushByte, InputByte, RaiseXoff
    <3> QED
      BY <3>1 DEF FlowInv
  <2>2. CASE Len(input') # InputCap
    <3>1. xoff' = xoff /\ xon' = xon /\ flushTimer' = flushTimer
      BY <2>2 DEF FlushByte, InputByte, flow
    <3>2. Len(input') < InputCap
      BY <1>2, <1>3, <1>6, <2>2
    <3>3. xon \in BOOLEAN /\ xoff \in BOOLEAN /\ flushTimer \in BOOLEAN
      BY DEF UartInv, TypeOK
    <3> QED
      BY <1>3, <3>1, <3>2, <3>3 DEF FlowInv
  <2> QED
    BY <2>1, <2>2
<1>8. TypeOK'
  <2>1. rxTimer' \in BOOLEAN
    BY <1>5
  <2>2. Len(input') <= InputCap /\ Len(out') <= OutCap
    BY <1>2, <1>3, <1>6
  <2> QED
    BY <1>1, <1>6, <1>7, <2>1, <2>2
    DEF UartInv, TypeOK, host, pty, flags, firmware
<1>9. ReceiverInv'
  <2>1. ReceiverInv
    BY DEF UartInv
  <2>2. /\ rxc' = rxc /\ pending' = pending /\ program' = program
        /\ rxcie' = rxcie /\ stranded' = stranded
    BY <1>1 DEF flags, firmware
  <2>3. rxTimer' => ~rxc /\ ~pending /\ program \in {"boot", "app"}
    <3>1. program \in {"boot", "getch", "app", "isr"}
      BY DEF UartInv, TypeOK
    <3>2. input = <<>> => ~rxc /\ ~pending /\ program # "getch" /\ program # "isr"
      BY <2>1 DEF ReceiverInv
    <3>3. rxTimer => ~rxc /\ ~pending /\ program \in {"boot", "app"}
      BY <2>1 DEF ReceiverInv
    <3> QED
      BY <1>5, <3>1, <3>2, <3>3
  <2> QED
    BY <1>6, <2>1, <2>2, <2>3 DEF ReceiverInv
<1>10. ByteAnnounced'
  BY <1>1, <1>5 DEF UartInv, ByteAnnounced, flags, firmware
<1>11. NothingLost'
  <2>1. /\ received' = received /\ buf' = buf /\ terminal' = terminal
        /\ typed' = typed
    BY <1>1 DEF host, pty, firmware
  <2>2. /\ received \in Seq(Numbers) /\ input \in Seq(Numbers)
        /\ out \in Seq(Numbers) /\ input' \in Seq(Numbers) /\ out' \in Seq(Numbers)
    BY <1>8, Places, PlacesNext DEF UartInv
  <2>3. (received \o input') \o out' = (received \o input) \o out
    <3>1. (received \o input') \o out' = received \o (input' \o out')
      BY <2>2, ConcatAssociative
    <3>2. (received \o input) \o out = received \o (input \o out)
      BY <2>2, ConcatAssociative
    <3> QED
      BY <1>6, <3>1, <3>2
  <2>4. ((((received \o input) \o out) \o buf) \o terminal) = [k \in 1 .. typed |-> k]
    BY DEF UartInv, NothingLost
  <2>5. ((((received' \o input') \o out') \o buf') \o terminal')
          = [k \in 1 .. typed' |-> k]
    BY <2>1, <2>3, <2>4
  <2> QED
    BY <2>5 DEF NothingLost
<1> QED
  BY <1>7, <1>8, <1>9, <1>10, <1>11 DEF UartInv

LEMMA FlushEndsUart ==
    ASSUME UartInv, FlushEnds \/ FlushTimer
    PROVE  UartInv'
<1>1. /\ flushTimer' \in BOOLEAN /\ flushing' \in {"none", "xon", "timer"}
      /\ UNCHANGED <<host, pty, out, printed, xon, xoff, uart, flags, firmware>>
  BY DEF FlushEnds, FlushTimer, UartInv, TypeOK
<1>2. TypeOK'
  BY <1>1 DEF UartInv, TypeOK, host, pty, uart, flags, firmware
<1>3. FlowInv' /\ ReceiverInv' /\ ByteAnnounced' /\ NothingLost'
  BY <1>1
  DEF UartInv, FlowInv, ReceiverInv, ByteAnnounced, NothingLost, host, pty, uart,
      flags, firmware
<1> QED
  BY <1>2, <1>3 DEF UartInv

\* Reading the status lets the terminal send, if there is room.
LEMMA TellXonFlow ==
    ASSUME UartInv, TellXon, input' = input
    PROVE  /\ xon' \in BOOLEAN /\ xoff' \in BOOLEAN /\ flushTimer' \in BOOLEAN
           /\ flushing' \in {"none", "xon", "timer"}
           /\ FlowInv'
<1>1. /\ xon \in BOOLEAN /\ xoff \in BOOLEAN /\ flushTimer \in BOOLEAN
      /\ flushing \in {"none", "xon", "timer"}
  BY DEF UartInv, TypeOK
<1>2. CASE input = <<>>
  <2>1. xon' = TRUE /\ xoff' = FALSE /\ flushing' = "xon"
    BY <1>2 DEF TellXon
  <2>2. flushTimer' \in BOOLEAN
    BY <1>1, <1>2 DEF TellXon
  <2>3. Len(input') < InputCap
    BY <1>2, UartAssumption
  <2> QED
    BY <2>1, <2>2, <2>3 DEF FlowInv
<1>3. CASE input # <<>>
  <2>1. xon' = xon /\ xoff' = xoff /\ flushTimer' = flushTimer /\ flushing' = flushing
    BY <1>3 DEF TellXon, flow
  <2> QED
    BY <1>1, <2>1 DEF UartInv, FlowInv
<1> QED
  BY <1>2, <1>3

-----------------------------------------------------------------------------
(* The receiver and the program.                                           *)

\* Reading UDR with a byte in the FIFO takes that byte.
LEMMA ReadUdrTakes ==
    ASSUME UartInv, ReadUdr, input # <<>>,
           UNCHANGED <<host, pty, out, printed, flow, flushing, rxcie, pending, stranded>>,
           program' \in {"boot", "app"}
    PROVE  TypeOK' /\ FlowInv' /\ NothingLost'
<1>1. /\ input \in Seq(1 .. MaxTyped) /\ received \in Seq(Numbers)
      /\ Len(input) \in Nat /\ Len(input) <= InputCap /\ InputCap \in Nat
      /\ input \in Seq(Numbers) /\ MaxTyped \in Nat
  BY UartAssumption, Places DEF UartInv, TypeOK
<1>2. received' = Append(received, Head(input)) /\ input' = Tail(input)
  BY DEF ReadUdr
<1>3. /\ received' \in Seq(Numbers) /\ received' \o input' = received \o input
  BY <1>1, <1>2, HandOn
<1>4. input' \in Seq(1 .. MaxTyped) /\ Len(input') = Len(input) - 1
  BY <1>1, <1>2
<1>5. Len(input') <= InputCap /\ (Len(input) < InputCap => Len(input') < InputCap)
  BY <1>1, <1>4
<1>6. rxc' = FALSE /\ rxTimer' \in BOOLEAN
  BY DEF ReadUdr
<1>7. TypeOK'
  BY <1>3, <1>4, <1>5, <1>6
  DEF UartInv, TypeOK, host, pty, flow, Numbers
<1>8. FlowInv'
  BY <1>5 DEF UartInv, FlowInv, flow
<1>9. NothingLost'
  <2>1. ((((received \o input) \o out) \o buf) \o terminal) = [k \in 1 .. typed |-> k]
    BY DEF UartInv, NothingLost
  <2>2. out' = out /\ buf' = buf /\ terminal' = terminal /\ typed' = typed
    BY DEF host, pty
  <2>3. ((((received' \o input') \o out') \o buf') \o terminal')
          = [k \in 1 .. typed' |-> k]
    BY <1>3, <2>1, <2>2
  <2> QED
    BY <2>3 DEF NothingLost
<1> QED
  BY <1>7, <1>8, <1>9

\* The timer sets the flag, and asks for the interrupt if that is enabled.
LEMMA RxTimerUart ==
    ASSUME UartInv, RxTimer
    PROVE  UartInv'
<1>1. rxTimer /\ ~pending
  BY DEF RxTimer, UartInv, ReceiverInv
<1>2. /\ rxTimer' = FALSE /\ rxc' = TRUE /\ pending' = rxcie
      /\ UNCHANGED <<host, pty, out, printed, flow, flushing, input, rxcie, firmware>>
  BY <1>1 DEF RxTimer
<1>3. TypeOK'
  BY <1>2 DEF UartInv, TypeOK, host, pty, flow, firmware
<1>4. FlowInv' /\ NothingLost'
  BY <1>2 DEF UartInv, FlowInv, NothingLost, host, pty, flow, firmware
<1>5. ReceiverInv' /\ ByteAnnounced'
  BY <1>1, <1>2 DEF UartInv, ReceiverInv, ByteAnnounced, firmware
<1> QED
  BY <1>3, <1>4, <1>5 DEF UartInv

LEMMA PollUart ==
    ASSUME UartInv, Poll
    PROVE  UartInv'
<1>1. /\ program = "boot" /\ TellXon /\ program' = (IF rxc THEN "getch" ELSE "boot")
      /\ UNCHANGED <<host, pty, out, printed, uart, flags, received, stranded>>
  BY DEF Poll
<1>2. input' = input
  BY <1>1 DEF uart
<1>3. /\ xon' \in BOOLEAN /\ xoff' \in BOOLEAN /\ flushTimer' \in BOOLEAN
      /\ flushing' \in {"none", "xon", "timer"}
      /\ FlowInv'
  BY <1>1, <1>2, TellXonFlow
<1>4. TypeOK'
  BY <1>1, <1>3 DEF UartInv, TypeOK, host, pty, uart, flags
<1>5. NothingLost'
  BY <1>1 DEF UartInv, NothingLost, host, pty, uart
<1>6. ReceiverInv' /\ ByteAnnounced'
  BY <1>1 DEF UartInv, ReceiverInv, ByteAnnounced, uart, flags
<1> QED
  BY <1>3, <1>4, <1>5, <1>6 DEF UartInv

LEMMA GetchUart ==
    ASSUME UartInv, Getch
    PROVE  UartInv'
<1>1. /\ program = "getch" /\ ReadUdr /\ program' = "boot"
      /\ UNCHANGED <<host, pty, out, printed, flow, flushing, rxcie, pending, stranded>>
  BY DEF Getch
<1>2. input # <<>> /\ rxc /\ ~rxTimer /\ ~pending /\ ~rxcie
  BY <1>1 DEF UartInv, ReceiverInv
<1>3. TypeOK' /\ FlowInv' /\ NothingLost'
  BY <1>1, <1>2, ReadUdrTakes
<1>4. rxc' = FALSE /\ rxTimer' = (input' # <<>>)
  BY <1>1, <1>2 DEF ReadUdr
<1>5. ReceiverInv' /\ ByteAnnounced'
  BY <1>1, <1>2, <1>4 DEF UartInv, ReceiverInv, ByteAnnounced
<1> QED
  BY <1>3, <1>5 DEF UartInv

LEMMA BeginAppUart ==
    ASSUME UartInv, BeginApp
    PROVE  UartInv'
<1>1. /\ program = "boot" /\ program' = "app" /\ rxcie' = TRUE /\ stranded' = rxc
      /\ UNCHANGED <<host, pty, out, printed, flow, flushing, uart, rxc, pending,
                     received>>
  BY DEF BeginApp
<1>2. TypeOK'
  BY <1>1 DEF UartInv, TypeOK, host, pty, flow, uart
<1>3. FlowInv' /\ NothingLost'
  BY <1>1 DEF UartInv, FlowInv, NothingLost, host, pty, flow, uart
<1>4. ReceiverInv' /\ ByteAnnounced'
  BY <1>1 DEF UartInv, ReceiverInv, ByteAnnounced, uart
<1> QED
  BY <1>2, <1>3, <1>4 DEF UartInv

LEMMA ServiceUart ==
    ASSUME UartInv, Service
    PROVE  UartInv'
<1>1. /\ program = "app" /\ pending /\ pending' = FALSE /\ rxc' = FALSE
      /\ program' = "isr"
      /\ UNCHANGED <<host, pty, out, printed, flow, flushing, uart, rxcie, received,
                     stranded>>
  BY DEF Service
<1>2. TypeOK'
  BY <1>1 DEF UartInv, TypeOK, host, pty, flow, uart
<1>3. FlowInv' /\ NothingLost'
  BY <1>1 DEF UartInv, FlowInv, NothingLost, host, pty, flow, uart
<1>4. ReceiverInv' /\ ByteAnnounced'
  BY <1>1 DEF UartInv, ReceiverInv, ByteAnnounced, uart
<1> QED
  BY <1>2, <1>3, <1>4 DEF UartInv

LEMMA IsrUart ==
    ASSUME UartInv, Isr
    PROVE  UartInv'
<1>1. /\ program = "isr" /\ ReadUdr /\ program' = "app"
      /\ UNCHANGED <<host, pty, out, printed, flow, flushing, rxcie, pending, stranded>>
  BY DEF Isr
<1>2. input # <<>> /\ ~rxc /\ ~rxTimer /\ ~pending /\ rxcie
  BY <1>1 DEF UartInv, ReceiverInv
<1>3. TypeOK' /\ FlowInv' /\ NothingLost'
  BY <1>1, <1>2, ReadUdrTakes
<1>4. rxc' = FALSE /\ rxTimer' = (input' # <<>>)
  BY <1>1, <1>2 DEF ReadUdr
<1>5. ReceiverInv' /\ ByteAnnounced'
  BY <1>1, <1>2, <1>4 DEF UartInv, ReceiverInv, ByteAnnounced
<1> QED
  BY <1>3, <1>5 DEF UartInv

LEMMA EmitUart ==
    ASSUME UartInv, Emit
    PROVE  UartInv'
<1>1. /\ TellXon
      /\ UNCHANGED <<host, pty, out, uart, flags, firmware>>
  BY DEF Emit
<1>2. printed' \in 0 .. PrintCap
  BY UartAssumption DEF Emit, UartInv, TypeOK
<1>3. input' = input
  BY <1>1 DEF uart
<1>4. /\ xon' \in BOOLEAN /\ xoff' \in BOOLEAN /\ flushTimer' \in BOOLEAN
      /\ flushing' \in {"none", "xon", "timer"}
      /\ FlowInv'
  BY <1>1, <1>3, TellXonFlow
<1>5. TypeOK'
  BY <1>1, <1>2, <1>4 DEF UartInv, TypeOK, host, pty, uart, flags, firmware
<1>6. NothingLost' /\ ReceiverInv' /\ ByteAnnounced'
  BY <1>1
  DEF UartInv, NothingLost, ReceiverInv, ByteAnnounced, host, pty, uart, flags,
      firmware
<1> QED
  BY <1>4, <1>5, <1>6 DEF UartInv

-----------------------------------------------------------------------------
(* The theorems.                                                           *)

LEMMA NextUart == UartInv /\ [Next]_vars => UartInv'
<1> SUFFICES ASSUME UartInv, [Next]_vars PROVE UartInv'
  OBVIOUS
<1>1. CASE Type
  BY <1>1, TypeUart
<1>2. CASE Thread
  BY <1>2, SelectUart, FillUart, DrainUart DEF Thread
<1>3. CASE Flush
  BY <1>3, FlushByteUart, FlushEndsUart DEF Flush
<1>4. CASE FlushTimer
  BY <1>4, FlushEndsUart
<1>5. CASE RxTimer
  BY <1>5, RxTimerUart
<1>6. CASE Program
  BY <1>6, PollUart, GetchUart, BeginAppUart, ServiceUart, IsrUart, EmitUart
  DEF Program
<1>7. CASE UNCHANGED vars
  BY <1>7
  DEF UartInv, TypeOK, FlowInv, ReceiverInv, ByteAnnounced, NothingLost, vars,
      host, pty, uart, flags, flow, firmware
<1> QED
  BY <1>1, <1>2, <1>3, <1>4, <1>5, <1>6, <1>7 DEF Next

LEMMA UartInvariant == Spec => []UartInv
  BY InitUart, NextUart, PTL DEF Spec

\* Every FIFO stays within its room, and the bytes in it are bytes that were typed.
THEOREM UartTypes == Spec => []TypeOK
<1>1. UartInv => TypeOK
  BY DEF UartInv
<1> QED
  BY <1>1, UartInvariant, PTL

\* The program reads what is typed, each byte once and in order, whatever the sizes
\* of the FIFOs: XOFF comes in time for the last byte that has room.
THEOREM BytesKept == Spec => []NothingLost
<1>1. UartInv => NothingLost
  BY DEF UartInv
<1> QED
  BY <1>1, UartInvariant, PTL

\* A byte in the UART is announced, by the timer, the flag or the interrupt, unless
\* the application began with its flag set.
THEOREM BytesAnnounced == Spec => []ByteAnnounced
<1>1. UartInv => ByteAnnounced
  BY DEF UartInv
<1> QED
  BY <1>1, UartInvariant, PTL
=============================================================================
