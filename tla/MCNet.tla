------------------------------- MODULE MCNet -------------------------------
(***************************************************************************)
(* Small instances of Net for TLC.                                         *)
(***************************************************************************)
EXTENDS Net

MCPings == {[ip |-> "a", size |-> 1], [ip |-> "far", size |-> 1], [ip |-> "me", size |-> 1]}

\* One frame that is answered to where it came from, one that needs ARP.
MCUnasked == {<<"no_port", "a">>, <<"echo_req", "far">>}

\* Net_again: one ping, and one frame nobody asked for.  Net_latch: two pings.
MCOneFrame == {[pings |-> 1, unasked |-> 1, faults |-> 0]}
MCTwoPings == {[pings |-> 2, unasked |-> 0, faults |-> 0]}
=============================================================================
