----------------------------- MODULE MCXBeeLink ------------------------------
(***************************************************************************)
(* A heartbeat whose address, uptime and battery voltage are control bytes,*)
(* and a packet whose length is one.                                       *)
(***************************************************************************)
EXTENDS XBeeLink

\* Schema, node address, uptime and battery voltage, low bytes first.
Heartbeat(address, uptime, battery) ==
    <<0, 0>> \o address \o uptime \o <<0, 0>> \o battery

MCPayloads == {
    Heartbeat(<<126, 125>>, <<17, 19>>, <<125, 126>>),
    <<17, 125, 126>>}
=============================================================================
