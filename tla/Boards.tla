------------------------------- MODULE Boards -------------------------------
(***************************************************************************)
(* What the four board generations do differently in the main loop.        *)
(* firmware.cpp reaches a board through the function pointers of its board *)
(* struct, which <gen>_board_init fills in; Gen chooses the struct that    *)
(* the build (-DGA, -DGC, -DGD, -DGG) links.                               *)
(*                                                                         *)
(* A packet keeps the fields that the loop's properties are about: which   *)
(* schema it is, which node sent it and when.  The sensor readings are     *)
(* left out here.                                                          *)
(***************************************************************************)
EXTENDS AvrArith

CONSTANTS
    Gen,        \* the board generation of the build
    HbForever,  \* is the build compiled with -DHB_FOREVER?
    HbWindow    \* max_heartbeat_ms, 1000*69*5 on the board

Generations == {"apple", "cranberry", "dragonfruit", "guava"}

ASSUME GenAssumption    == Gen \in Generations
ASSUME HbAssumption     == HbForever \in BOOLEAN /\ HbWindow \in Nat

Packet(schema, addr, uptime) ==
    [schema |-> schema, node_address |-> addr, uptime_milliseconds |-> uptime]

-----------------------------------------------------------------------------
(* <gen>_board_init: the data packet before the first sample, given what   *)
(* the EEPROM holds.                                                       *)

\* A slip in board_init: the address left for sample to fill in.
gd_board_init_zero(eeprom) == Packet(3, 0, 0)

ga_board_init(eeprom) == Packet(1, 0, 0)
gc_board_init(eeprom) == Packet(2, eeprom, 0)
gd_board_init(eeprom) == Packet(3, eeprom, 0)
gg_board_init(eeprom) == Packet(4, 0, 0)

board_init(eeprom) ==
    CASE Gen = "apple"       -> ga_board_init(eeprom)
      [] Gen = "cranberry"   -> gc_board_init(eeprom)
      [] Gen = "dragonfruit" -> gd_board_init(eeprom)
      [] Gen = "guava"       -> gg_board_init(eeprom)

-----------------------------------------------------------------------------
(* <gen>_board_sample: what sampling at the time now makes of the packet,  *)
(* given the node address the board keeps in RAM.  Cranberry and           *)
(* dragonfruit rely on the address board_init left in the packet.          *)

\* A slip in sample: the uptime of the packet not refreshed.
gc_board_sample_untimed(packet, addr, now) == packet

ga_board_sample(packet, addr, now) ==
    [packet EXCEPT !.uptime_milliseconds = now, !.node_address = addr]
gc_board_sample(packet, addr, now) ==
    [packet EXCEPT !.uptime_milliseconds = now]
gd_board_sample(packet, addr, now) ==
    [packet EXCEPT !.uptime_milliseconds = now]
gg_board_sample(packet, addr, now) ==
    [packet EXCEPT !.uptime_milliseconds = now, !.node_address = addr]

board_sample(packet, addr, now) ==
    CASE Gen = "apple"       -> ga_board_sample(packet, addr, now)
      [] Gen = "cranberry"   -> gc_board_sample(packet, addr, now)
      [] Gen = "dragonfruit" -> gd_board_sample(packet, addr, now)
      [] Gen = "guava"       -> gg_board_sample(packet, addr, now)

-----------------------------------------------------------------------------
(* The condition under which <gen>_board_ready_heartbeat_tx considers a    *)
(* heartbeat at all.  Cranberry has no #ifndef HB_FOREVER.                 *)

\* Slips in the condition: the window closed when it is to be open, and no
\* #ifndef HB_FOREVER.
gc_heartbeat_enable_after(now) == now >= HbWindow
gd_heartbeat_enable_bare(now) == now < HbWindow

ga_heartbeat_enable(now) == HbForever \/ now < HbWindow
gc_heartbeat_enable(now) == now < HbWindow
gd_heartbeat_enable(now) == HbForever \/ now < HbWindow
gg_heartbeat_enable(now) == HbForever \/ now < HbWindow

heartbeat_enable(now) ==
    CASE Gen = "apple"       -> ga_heartbeat_enable(now)
      [] Gen = "cranberry"   -> gc_heartbeat_enable(now)
      [] Gen = "dragonfruit" -> gd_heartbeat_enable(now)
      [] Gen = "guava"       -> gg_heartbeat_enable(now)

-----------------------------------------------------------------------------
(* <gen>_board_heartbeat_tx builds the same packet in every generation:    *)
(* the node address comes straight from the EEPROM.                        *)

heartbeat_packet(eeprom, now) == Packet(0, eeprom, now)
=============================================================================
