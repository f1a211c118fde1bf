----------------------------- MODULE MCMainLoop -----------------------------
(***************************************************************************)
(* Small clocks for MainLoop, and what comments and build files say of the *)
(* loop that the code does not do.                                         *)
(***************************************************************************)
EXTENDS MainLoop

\* "Waits 3 seconds [...] and returns a 1 after three seconds": a check made
\* with heartbeats enabled does not turn down a heartbeat that is due.
HeartbeatAlwaysDue ==
    [][HbEnable /\ heartbeat_enable(millis) /\ pc' = "ready_sample" =>
          heartbeatAge < HbWait + MaxPass]_vars

\* "This is the same as the stub build, but with heartbeat packets permantently
\* turned on": with HB_FOREVER no check turns down a heartbeat for the uptime.
HbForeverHonoured ==
    [][HbForever /\ HbEnable /\ pc' = "ready_sample" => sample_delta < HbWait]_vars
=============================================================================
