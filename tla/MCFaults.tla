------------------------------ MODULE MCFaults ------------------------------
(***************************************************************************)
(* One run for what goes on over devices that fail: the record log over a  *)
(* flash that fails or loses power, and pings over a network that loses    *)
(* frames.  A behaviour picks one of them and is a behaviour of that       *)
(* module; the variables of the other keep an initial value.               *)
(***************************************************************************)
EXTENDS Sysenv, Net

VARIABLE unit    \* "sysenv" or "net"

MCAllFaults == {"erase", "program", "power"}

\* Two near hosts, one of them the gateway, a host behind it and a cache of two
\* entries.
MCPings == {[ip |-> "a", size |-> 1], [ip |-> "far", size |-> 1], [ip |-> "me", size |-> 1]}

\* One frame that is answered to where it came from, one that needs ARP.
MCUnasked == {<<"no_port", "a">>, <<"echo_req", "far">>}

\* Of pings, frames nobody asked for and faults (sends that are refused, a clock
\* that falls back) each two are met together; of two pings, a frame that needs
\* ARP comes with the first.
MCBudgets ==
    {[pings |-> 2, unasked |-> 1, faults |-> 0], [pings |-> 2, unasked |-> 0, faults |-> 1],
     [pings |-> 1, unasked |-> 1, faults |-> 1]}

-----------------------------------------------------------------------------
MCInit ==
    /\ Init /\ NetInit /\ unit \in {"sysenv", "net"}
    /\ unit = "sysenv" => driver = "SAA9730" /\ setup = "ok"

FirstPingOnly ==
    spent.pings = 2 /\ spent.faults = 0 => \A f \in lan : f.kind # "no_port"

MCNext ==
    /\ UNCHANGED unit
    /\ \/ unit = "sysenv" /\ Next /\ UNCHANGED netvars
       \/ unit = "net" /\ NetNext /\ FirstPingOnly' /\ UNCHANGED vars
       \/ unit = "net" /\ UNCHANGED <<vars, netvars>>   \* no more pings

MCSpec == MCInit /\ [][MCNext]_<<unit, vars, netvars>>
=============================================================================
