-------------------------------- MODULE Net --------------------------------
(***************************************************************************)
(* The network below the applications (net/net_arp.c, net/net_ip.c,        *)
(* net/net_icmp.c, net/net_mac.c, net/net.c) and ping (net/net_appl.c).    *)
(* With the SAA9730 frames are received only inside NET_poll, with the     *)
(* AM79C973 in its interrupt.  NET_ARP_open calls NET_poll while it waits  *)
(* for an answer, from inside a receive handler too.  `stack' holds the    *)
(* callers whose NET_poll is running, the innermost last.                  *)
(***************************************************************************)
EXTENDS Integers, Sequences, FiniteSets, SequencesExt

CONSTANTS
    Near,         \* hosts on the board's own subnet
    Far,          \* hosts behind the gateway
    Gateway,      \* the gateway, one of Near
    Me,           \* the board
    NoAddr,       \* IP_ADDR_UNDEFINED, mac_undefined_adr
    Drivers,      \* LAN drivers: subset of {"SAA9730", "AM79C973"}
    Setups,       \* how env has set up the network: subset of SetupKinds
    SapCount,     \* ARP_SAP_COUNT
    SapTimeout,   \* ARP_SAP_TIMEOUT
    PollTimeout,  \* ARP_POLL_TIMEOUT
    OpenLoop,     \* tries of NET_ARP_open
    PingRetry,    \* retries of NET_ping
    Pings,        \* the pings a user may ask for: records of ip, size
    Never,        \* a timer the clock fell back behind: longer than any other
    Unasked,      \* frames a host may send of its own accord: <<kind, host>>
    Budgets,      \* bound: how many pings, frames sent unasked, and faults (sends
                  \* the LAN driver refuses, falls of the clock) go together
    MaxNesting    \* bound: receive handlers inside each other

SetupKinds == {"ok", "no_board_ip", "no_mask", "no_gateway", "gateway_off_subnet"}
Hosts == Near \cup Far
Addr == Hosts \cup {Me}

NetAssumption ==
    /\ Gateway \in Near /\ Near \cap Far = {} /\ Me \notin Hosts
    /\ NoAddr \notin Addr
    /\ Setups \subseteq SetupKinds /\ Drivers \subseteq {"SAA9730", "AM79C973"}
    /\ SapCount \in Nat \ {0} /\ SapTimeout \in Nat \ {0} /\ PollTimeout \in Nat
    /\ OpenLoop \in Nat \ {0} /\ PingRetry \in Nat
    /\ Never \in Nat /\ Never > SapTimeout /\ Never > PollTimeout
    /\ Pings \subseteq [ip : Addr, size : Nat]
    /\ Unasked \subseteq {"arp_req", "echo_req", "no_sap", "no_port"} \X Hosts
    /\ Budgets \subseteq [pings : Nat, unasked : Nat, faults : Nat] /\ MaxNesting \in Nat

VARIABLES
    driver,          \* one of Drivers
    setup,           \* one of Setups
    sap_context,     \* ARP cache
    next_poll_time,  \* ARP's next scan
    stack,           \* callers of NET_poll
    ping,            \* the ping in progress
    appl_reply,      \* latched echo reply, or none
    heard,           \* history: replies that reached the application
    wire,            \* frames the board has sent and nobody answered yet
    lan,             \* frames for the board, in the driver's ring
    spent            \* history: pings, frames sent unasked and faults so far

config == <<driver, setup>>
netvars == <<config, sap_context, next_poll_time, stack, ping, appl_reply,
          heard, wire, lan, spent>>

Saps == 1 .. SapCount
ClosedSap == [state |-> "closed", ip |-> NoAddr, mac |-> NoAddr, timeout |-> -PollTimeout]
NoReply == [ip |-> NoAddr, size |-> 0]
Idle == [ip |-> NoAddr, size |-> 0, over |-> FALSE, retry |-> 0, compl |-> "OK", rc |-> "OK"]
Pinging == ping.ip # NoAddr

\* A host's MAC address is named like the host; frames of far hosts carry the
\* gateway's.
Hop(ip) == IF ip \in Far THEN Gateway ELSE ip
Frame(kind, ip, mac, size) == [kind |-> kind, ip |-> ip, mac |-> mac, size |-> size]

NetInit ==
    /\ driver \in Drivers /\ setup \in Setups
    /\ sap_context = [i \in Saps |-> ClosedSap]
    /\ next_poll_time = 0
    /\ stack = <<>> /\ ping = Idle /\ appl_reply = NoReply /\ heard = {}
    /\ wire = {} /\ lan = {}
    /\ spent = [pings |-> 0, unasked |-> 0, faults |-> 0]

\* One more ping, unasked frame or fault, if some budget has it.
Spend(what) == [spent EXCEPT ![what] = @ + 1]
May(what) == \E b \in Budgets : \A k \in {"pings", "unasked", "faults"} :
                Spend(what)[k] <= b[k]

-----------------------------------------------------------------------------
(* ARP cache *)

\* Mutant: only a resolved entry counts as held.
Held_ResolvedOnly(c, ip) == {i \in Saps : c[i].ip = ip /\ c[i].state = "resoluted"}

Held(c, ip) == {i \in Saps : c[i].ip = ip /\ c[i].state # "closed"}
First(S) == CHOOSE i \in S : \A j \in S : i <= j

\* The entry NET_ARP_alloc_sap takes: the first closed one, else the first of
\* those with the earliest timeout.
Victim(c) ==
    LET closed == {i \in Saps : c[i].state = "closed"}
    IN IF closed # {} THEN First(closed)
       ELSE First({i \in Saps : \A j \in Saps : c[i].timeout <= c[j].timeout})

\* Mutant: an answer is taken for every entry that waits.
Answered_AnyIp(c, ip, mac) ==
    [i \in Saps |-> IF c[i].state = "allocated"
                    THEN [c[i] EXCEPT !.state = "resoluted", !.mac = mac] ELSE c[i]]

\* An answer for ip: every entry waiting for it is resolved.
Answered(c, ip, mac) ==
    [i \in Saps |-> IF c[i].state = "allocated" /\ c[i].ip = ip
                    THEN [c[i] EXCEPT !.state = "resoluted", !.mac = mac] ELSE c[i]]

\* NET_ARP_request is looped back to the board, which answers itself if it is
\* asked for its own address.
Requested(c, ip) == IF ip = Me THEN Answered(c, Me, Me) ELSE c

\* NET_ARP_alloc_sap: `ok' is what the driver says to the request.
AllocSap(c, ip, ok) ==
    LET held == Held(c, ip)
        i == IF held # {} THEN First(held) ELSE Victim(c)
        asked == IF held # {} THEN c
                 ELSE [c EXCEPT ![i] = [@ EXCEPT !.ip = ip, !.mac = NoAddr,
                                                 !.state = "allocated"]]
        timed(d) == [d EXCEPT ![i].timeout = SapTimeout]
    IN CASE held # {} /\ c[i].state = "resoluted" ->
              [cache |-> timed(c), rc |-> "OK", mac |-> c[i].mac]
         [] ~(held # {} /\ c[i].state = "resoluted") /\ ok ->
              [cache |-> timed(Requested(asked, ip)), rc |-> "NOT_RESOLUTED", mac |-> NoAddr]
         [] OTHER ->
              [cache |-> Requested(asked, ip), rc |-> "SEND_FAILED", mac |-> NoAddr]

\* NET_ARP_poll: expired entries are closed, every PollTimeout seconds.
ScanDue == next_poll_time = 0
Swept(c) ==
    IF ~ScanDue THEN c
    ELSE [i \in Saps |-> IF c[i].state # "closed" /\ c[i].timeout <= 0
                         THEN ClosedSap ELSE c[i]]

\* Mutant: the time of the next scan is added to the last one's, both absolute.
NextPollTime_Added == IF ScanDue THEN Never ELSE next_poll_time

NextPollTime == IF ScanDue THEN PollTimeout ELSE next_poll_time

-----------------------------------------------------------------------------
(* Sending *)

\* The checks of NET_IP_send that need no ARP.
SendCheck(ip) ==
    CASE setup = "no_board_ip" -> "INVALID_BOARD_IP"
      [] setup = "no_mask" -> "INVALID_SUBNET_MASK"
      [] setup = "no_gateway" /\ ip \in Far -> "INVALID_GATEWAY_IP"
      [] setup = "gateway_off_subnet" /\ ip \in Far -> "NOT_ON_SAME_SUBNET_IP"
      [] OTHER -> "OK"

\* The first reply is kept, the others are dropped (NET_APPL_echo_reply).
Latched(r) == IF appl_reply = NoReply THEN r ELSE appl_reply

\* NET_ping after NET_ICMP_ECHO_send returned rc: the first send may end it.
Sent(p, rc) ==
    IF rc \in {"OK", "NOT_RESOLUTED"} \/ p.retry < PingRetry
    THEN [p EXCEPT !.compl = rc, !.over = IF p.retry = PingRetry THEN FALSE ELSE @]
    ELSE [Idle EXCEPT !.rc = rc]

\* Mutant: the loop may be entered once more.
LoopLeft_OneMore(loop) == loop > 0

\* NET_ARP_open's loop after this turn.
LoopLeft(loop) == loop > 1

\* The caller below the one that sent goes on: ping's own loop, or the
\* NET_poll in which the frame was received.
Below(below, p) ==
    IF below # <<>> THEN below
    ELSE IF p.ip = NoAddr THEN <<>> ELSE <<[fn |-> "ping"]>>

\* A frame leaves for `mac'; one to the board itself is looped back, and then
\* an echo request is answered at once.
Transmit(msg, mac, ok) ==
    /\ IF mac = Me
       THEN /\ wire' = wire
            /\ IF msg.kind = "echo_req"
               THEN /\ appl_reply' = Latched([ip |-> Me, size |-> msg.size])
                    /\ heard' = heard \cup {[ip |-> Me, size |-> msg.size]}
               ELSE UNCHANGED <<appl_reply, heard>>
       ELSE /\ wire' = IF ok THEN wire \cup {[msg EXCEPT !.mac = mac]} ELSE wire
            /\ UNCHANGED <<appl_reply, heard>>

\* One turn of the loop in NET_ARP_open, on cache c, for a message of `below'.
OpenTurn(c, below, loop, msg, p) ==
    \E ok \in {TRUE} \cup {b \in {FALSE} : May("faults")} :
        LET r == AllocSap(c, Hop(msg.ip), ok)
            done(rc) == IF msg.kind = "echo_req" THEN Sent(p, rc) ELSE p
        IN /\ sap_context' = r.cache
           /\ spent' = IF ok THEN spent ELSE Spend("faults")
           /\ CASE r.rc = "OK" ->
                    /\ Transmit(msg, r.mac, ok)
                    /\ ping' = done(IF ok \/ r.mac = Me THEN "OK" ELSE "SEND_FAILED")
                    /\ stack' = Below(below, ping')
                [] r.rc = "NOT_RESOLUTED" /\ LoopLeft(loop) ->
                    /\ wire' = wire \cup {Frame("arp_req", Hop(msg.ip), NoAddr, 0)}
                    /\ stack' = Append(below, [fn |-> "open", loop |-> loop - 1, msg |-> msg])
                    /\ ping' = p /\ UNCHANGED <<appl_reply, heard>>
                [] OTHER ->
                    /\ wire' = IF ok THEN wire \cup {Frame("arp_req", Hop(msg.ip), NoAddr, 0)}
                               ELSE wire
                    /\ ping' = done(r.rc)
                    /\ stack' = Below(below, ping') /\ UNCHANGED <<appl_reply, heard>>

\* NET_IP_send without a MAC address; p is the ping that may be its caller.
Send(c, below, msg, p) ==
    IF SendCheck(msg.ip) = "OK" THEN OpenTurn(c, below, OpenLoop, msg, p)
    ELSE /\ ping' = IF msg.kind = "echo_req" THEN Sent(p, SendCheck(msg.ip)) ELSE p
         /\ stack' = Below(below, ping')
         /\ sap_context' = c
         /\ UNCHANGED <<wire, appl_reply, heard, spent>>

-----------------------------------------------------------------------------
(* NET_ping *)

EchoRequest(p) == Frame("echo_req", p.ip, NoAddr, p.size)

\* NET_ping is called: what was latched and heard before is forgotten.
PingStart ==
    /\ ~Pinging /\ stack = <<>> /\ May("pings")
    /\ \E x \in Pings :
         ping' = [Idle EXCEPT !.ip = x.ip, !.size = x.size, !.retry = PingRetry]
    /\ appl_reply' = NoReply /\ heard' = {}
    /\ stack' = <<[fn |-> "send"]>>
    /\ spent' = Spend("pings")
    /\ UNCHANGED <<config, sap_context, next_poll_time, wire, lan>>

\* NET_ICMP_ECHO_send, the first time or again.
PingSend ==
    /\ stack = <<[fn |-> "send"]>>
    /\ Send(sap_context, <<>>, EchoRequest(ping), ping)
    /\ UNCHANGED <<config, next_poll_time, lan>>

\* Mutant: a reply of the right size from any host will do.
Matches_AnyHost == appl_reply # NoReply /\ appl_reply.size = ping.size

\* The reply NET_ping waits for is the one that was latched.
Matches == appl_reply = [ip |-> ping.ip, size |-> ping.size]

\* What NET_ping returns when no retry is left.
GivenUp(compl) ==
    CASE compl = "NOT_RESOLUTED" -> "ARP_TIME_OUT"
      [] compl = "OK" -> "PING_TIME_OUT"
      [] OTHER -> compl

\* NET_poll returns to NET_ping.
PingPolled ==
    /\ stack = <<[fn |-> "ping"]>>
    /\ sap_context' = Swept(sap_context) /\ next_poll_time' = NextPollTime
    /\ \/ /\ Matches
          /\ ping' = [Idle EXCEPT !.rc = "OK"] /\ stack' = <<>>
       \/ /\ ~Matches /\ ~ping.over
          /\ UNCHANGED <<ping, stack>>
       \/ /\ ~Matches /\ ping.over   \* ctrl/c is looked for with each dot
          /\ ping' = [Idle EXCEPT !.rc = "CONTROL_C"] /\ stack' = <<>>
       \/ /\ ~Matches /\ ping.over /\ ping.retry = 0
          /\ ping' = [Idle EXCEPT !.rc = GivenUp(ping.compl)] /\ stack' = <<>>
       \/ /\ ~Matches /\ ping.over /\ ping.retry > 0
          /\ ping' = [ping EXCEPT !.retry = @ - 1, !.over = FALSE]
          /\ stack' = <<[fn |-> "send"]>>
    /\ UNCHANGED <<config, appl_reply, heard, wire, lan, spent>>

\* The receive handlers that wait in NET_ARP_open for an address to answer to.
Handlers == {i \in 1 .. Len(stack) : stack[i].fn = "open" /\ stack[i].msg.kind = "unreach"}

\* NET_poll returns to NET_ARP_open, which takes another turn.  When that ends a
\* handler, LAN_SAA9730_read goes on to the next frame.
Top == stack[Len(stack)]
OpenPolled ==
    /\ stack # <<>> /\ Top.fn = "open"
    /\ next_poll_time' = NextPollTime
    /\ OpenTurn(Swept(sap_context), Front(stack), Top.loop, Top.msg, ping)
    /\ lan' = IF driver = "SAA9730" /\ Len(stack) \in Handlers /\ Len(stack') < Len(stack)
              THEN {f \in lan : f.kind # "no_port" \/ f.ip # Top.msg.ip} ELSE lan
    /\ UNCHANGED config

-----------------------------------------------------------------------------
(* Receiving: inside a running NET_poll, or whenever interrupts are enabled *)

Polling ==
    \/ driver = "SAA9730" /\ stack # <<>> /\ Top.fn # "send"
    \/ driver = "AM79C973" /\ Handlers = {}

\* LAN_SAA9730_read leaves a frame in its place until its handler has returned: a
\* poll from the handler meets the same frame again.
Met ==
    LET in_hand == {f \in lan : f.kind = "no_port" /\ \E i \in Handlers : stack[i].msg.ip = f.ip}
    IN IF driver = "SAA9730" /\ in_hand # {} THEN in_hand ELSE lan

\* A frame that is answered to the MAC address it came from, or not at all.
Reply(f) ==
    LET set == setup \notin {"no_board_ip", "no_mask"}
        answer ==
          CASE f.kind = "arp_req" -> {Frame("arp_rep", f.ip, f.mac, 0)}
            [] f.kind = "echo_req" /\ set -> {Frame("echo_rep", f.ip, f.mac, f.size)}
            [] f.kind = "no_sap" /\ set -> {Frame("unreach", f.ip, f.mac, 0)}
            [] OTHER -> {}
    IN \E lost \in {FALSE} \cup {b \in {TRUE} : answer # {} /\ May("faults")} :
         /\ wire' = IF lost THEN wire ELSE wire \cup answer
         /\ spent' = IF lost THEN Spend("faults") ELSE spent

ReceiveAnswered ==
    /\ Polling
    /\ \E f \in Met :
         /\ f.kind \in {"arp_req", "echo_req", "no_sap"}
         /\ lan' = lan \ {f}
         /\ Reply(f)
    /\ UNCHANGED <<config, sap_context, next_poll_time, stack, ping, appl_reply, heard>>

ReceiveArpReply ==
    /\ Polling
    /\ \E f \in Met :
         /\ f.kind = "arp_rep"
         /\ lan' = lan \ {f}
         /\ sap_context' = Answered(sap_context, f.ip, f.mac)
    /\ UNCHANGED <<config, next_poll_time, stack, ping, appl_reply, heard, wire, spent>>

ReceiveEchoReply ==
    /\ Polling
    /\ \E f \in Met :
         /\ f.kind = "echo_rep"
         /\ lan' = lan \ {f}
         /\ appl_reply' = Latched([ip |-> f.ip, size |-> f.size])
         /\ heard' = heard \cup {[ip |-> f.ip, size |-> f.size]}
    /\ UNCHANGED <<config, sap_context, next_poll_time, stack, ping, wire, spent>>

\* A datagram for a port nobody has opened: the refusal is sent without a MAC
\* address, so NET_ARP_open may run inside the receive handler.
ReceiveNoPort ==
    /\ Polling /\ Cardinality(Handlers) < MaxNesting
    /\ \E f \in Met :
         /\ f.kind = "no_port"
         /\ Send(sap_context, stack, Frame("unreach", f.ip, NoAddr, 0), ping)
         /\ lan' = IF driver = "SAA9730" /\ Len(stack') > Len(stack) THEN lan ELSE lan \ {f}
    /\ UNCHANGED <<config, next_poll_time>>

-----------------------------------------------------------------------------
(* The network and its hosts (external).  A frame that is lost is one that *)
(* stays on the wire. *)

\* A host answers an ARP request for it, or an echo request.
HostAnswers ==
    /\ \E f \in wire :
         /\ f.ip \in Hosts /\ f.kind \in {"arp_req", "echo_req"}
         /\ wire' = wire \ {f}
         /\ lan' = lan \cup {Frame(IF f.kind = "arp_req" THEN "arp_rep" ELSE "echo_rep",
                                   f.ip, Hop(f.ip), f.size)}
    /\ UNCHANGED <<config, sap_context, next_poll_time, stack, ping, appl_reply, heard, spent>>

\* A host sends a frame of its own accord.
HostSends ==
    /\ May("unasked")
    /\ \E x \in Unasked : lan' = lan \cup {Frame(x[1], x[2], Hop(x[2]), 0)}
    /\ spent' = Spend("unasked")
    /\ UNCHANGED <<config, sap_context, next_poll_time, stack, ping, appl_reply, heard, wire>>

Less(n, least) == IF n \in {least, Never} THEN n ELSE n - 1

\* A second goes by.  Times are kept as what is left of them.
Tick ==
    /\ sap_context' = [i \in Saps |-> [sap_context[i] EXCEPT !.timeout = Less(@, -PollTimeout)]]
    /\ next_poll_time' = Less(next_poll_time, 0)
    /\ ping' = IF Pinging THEN [ping EXCEPT !.over = TRUE] ELSE ping
    /\ UNCHANGED <<config, stack, appl_reply, heard, wire, lan, spent>>

\* The clock of NET_gettime falls back by a day: it makes every month 30 days
\* long.  What was timed by it is then a day away, except for NET_ping's
\* second, an unsigned difference that becomes huge.
ClockFalls ==
    /\ May("faults")
    /\ spent' = Spend("faults")
    /\ sap_context' = [i \in Saps |-> IF sap_context[i].state = "closed" THEN sap_context[i]
                                      ELSE [sap_context[i] EXCEPT !.timeout = Never]]
    /\ next_poll_time' = Never
    /\ ping' = IF Pinging THEN [ping EXCEPT !.over = TRUE] ELSE ping
    /\ UNCHANGED <<config, stack, appl_reply, heard, wire, lan>>

Board == PingSend \/ PingPolled \/ OpenPolled \/ ReceiveAnswered
         \/ ReceiveArpReply \/ ReceiveEchoReply \/ ReceiveNoPort
Environment == PingStart \/ HostAnswers \/ HostSends \/ Tick \/ ClockFalls
NetNext == Board \/ Environment
NetSpec == NetInit /\ [][NetNext]_netvars

-----------------------------------------------------------------------------
(* Properties *)

Entry == [state : {"closed", "allocated", "resoluted"}, ip : Addr \cup {NoAddr},
          mac : Addr \cup {NoAddr}, timeout : -PollTimeout .. Never]
FrameSet == [kind : {"arp_req", "arp_rep", "echo_req", "echo_rep", "no_sap", "no_port", "unreach"},
             ip : Addr, mac : Addr \cup {NoAddr}, size : Nat]

\* The cache, the frames under way and the calls in progress; only the
\* outermost call is a send or a ping, what is above it are opens in progress.
NetTypeOK ==
    /\ driver \in Drivers /\ setup \in Setups /\ next_poll_time \in 0 .. Never
    /\ sap_context \in [Saps -> Entry]
    /\ wire \subseteq FrameSet /\ lan \subseteq FrameSet
    /\ appl_reply \in [ip : Addr \cup {NoAddr}, size : Nat]
    /\ \A i \in 1 .. Len(stack) :
         \/ stack[i].fn \in {"send", "ping"} /\ i = 1
         \/ stack[i].fn = "open" /\ stack[i].loop \in 1 .. OpenLoop

\* No frame the board addresses goes to another station than the next hop of
\* its destination: the cache never hands out an address of another host,
\* whatever was evicted or aged while NET_ARP_open was waiting.
SentToNextHop ==
    \A f \in wire : f.kind # "arp_req" => f.mac = Hop(f.ip)

\* An IP address has at most one entry in the cache, however NET_ARP_open is
\* nested in itself.
OneEntryPerAddress ==
    \A i, j \in Saps : /\ sap_context[i].state # "closed" /\ sap_context[j].state # "closed"
                       /\ sap_context[i].ip = sap_context[j].ip
                       => i = j

\* The cache is what its users take it for, however often NET_ARP_open calls itself.
CacheIsSound == NetTypeOK /\ OneEntryPerAddress

\* "This function is called ... whenever it receives an Ethernet frame"
\* (NET_MAC_receive): no more handlers are at work than frames have been received.
HandledOnce == Cardinality(Handlers) <= spent.unasked

\* "No response from ping server" is said only when no answer of the server
\* was received.
TimeOutMeansSilence ==
    [][Pinging /\ ~Pinging' /\ ping'.rc = "PING_TIME_OUT"
       => [ip |-> ping.ip, size |-> ping.size] \notin heard]_netvars

\* NET_ping reports success only when the host was heard during this ping,
\* not for what an earlier one latched.
HeardIfOk ==
    Pinging /\ ~Pinging' /\ ping'.rc = "OK" => [ip |-> ping.ip, size |-> ping.size] \in heard
SuccessIsHeard == [][HeardIfOk]_netvars

\* NET_poll leaves no cache entry that has expired for PollTimeout seconds, as
\* long as the clock does not fall back.  (An entry whose request the driver
\* refused has no time of its own.)
AgedOut ==
    (PingPolled \/ OpenPolled) /\ spent'.faults = 0
    => \A i \in Saps : sap_context'[i].state # "closed"
                       => sap_context'[i].timeout > -PollTimeout
EntriesAgeOut == [][AgedOut]_netvars
=============================================================================
