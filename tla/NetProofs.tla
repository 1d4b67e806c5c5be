----------------------------- MODULE NetProofs -----------------------------
(***************************************************************************)
(* Proofs about Net, for every set of hosts, every size of the ARP cache   *)
(* and every timeout, any number of pings, of frames nobody asked for, of  *)
(* handlers inside each other, and of faults.                              *)
(***************************************************************************)
EXTENDS Net, TLAPS, NaturalsInduction, WellFoundedInduction, SequenceTheorems

Codes   == {"OK", "NOT_RESOLUTED", "SEND_FAILED", "INVALID_BOARD_IP", "INVALID_SUBNET_MASK",
            "INVALID_GATEWAY_IP", "NOT_ON_SAME_SUBNET_IP", "ARP_TIME_OUT", "PING_TIME_OUT",
            "CONTROL_C"}
PingSet == [ip : Addr \cup {NoAddr}, size : Nat, over : BOOLEAN, retry : Nat,
            compl : Codes, rc : Codes]
Open == [fn : {"open"}, loop : 1 .. OpenLoop, msg : FrameSet]
Call == [fn : {"send", "ping"}] \cup Open

\* The cache holds addresses on the board's subnet, each once, and with the
\* address of the station it stands for.
GoodCache(c) ==
    /\ c \in [Saps -> Entry]
    /\ \A i \in Saps :
          /\ c[i].state # "closed" => c[i].ip \in Addr \ Far
          /\ c[i].state = "resoluted" => c[i].mac = c[i].ip
    /\ \A i, j \in Saps : /\ c[i].state # "closed" /\ c[j].state # "closed"
                          /\ c[i].ip = c[j].ip
                          => i = j

\* The calls of NET_poll under way: NET_ping's is the outermost.
GoodStack(s) ==
    /\ s \in Seq(Call)
    /\ \A i \in 1 .. Len(s) :
          \/ s[i].fn \in {"send", "ping"} /\ i = 1
          \/ s[i].fn = "open" /\ s[i].msg.kind = "echo_req" /\ i = 1
          \/ s[i].fn = "open" /\ s[i].msg.kind = "unreach"

\* Every frame says where it comes from, and goes where it is meant to.
GoodLan(S) ==
    /\ S \subseteq FrameSet
    /\ \A f \in S : f.mac = Hop(f.ip) /\ (f.kind = "arp_rep" => f.ip \notin Far)

GoodWire(S) ==
    /\ S \subseteq FrameSet
    /\ \A f \in S : IF f.kind = "arp_req" THEN f.ip \notin Far ELSE f.mac = Hop(f.ip)

GoodReply == appl_reply \in [ip : Addr \cup {NoAddr}, size : Nat]

IInv ==
    /\ driver \in Drivers /\ setup \in Setups /\ next_poll_time \in 0 .. Never
    /\ GoodCache(sap_context) /\ GoodStack(stack) /\ GoodLan(lan) /\ GoodWire(wire)
    /\ GoodReply /\ ping \in PingSet
    /\ stack # <<>> /\ stack[1].fn \in {"send", "ping"} => Pinging

LEMMA InvImplies ==
  ASSUME NetAssumption, IInv
  PROVE  CacheIsSound /\ SentToNextHop
<1>1. NetTypeOK
  <2>1. ASSUME NEW i \in 1 .. Len(stack)
        PROVE  \/ stack[i].fn \in {"send", "ping"} /\ i = 1
               \/ stack[i].fn = "open" /\ stack[i].loop \in 1 .. OpenLoop
    <3>1. stack[i] \in Call
      BY DEF IInv, GoodStack
    <3> QED BY <3>1 DEF IInv, GoodStack, Call, Open
  <2> QED BY <2>1 DEF IInv, NetTypeOK, GoodCache, GoodLan, GoodWire, GoodReply
<1>2. OneEntryPerAddress
  BY DEF IInv, GoodCache, OneEntryPerAddress
<1>3. SentToNextHop
  BY DEF IInv, GoodWire, SentToNextHop
<1> QED BY <1>1, <1>2, <1>3 DEF CacheIsSound

-----------------------------------------------------------------------------
\* A nonempty set of naturals has a least element.
LEMMA LeastExists ==
  ASSUME NEW S \in SUBSET Nat, S # {}
  PROVE  \E m \in S : \A k \in S : m <= k
<1>1. PICK x \in S : \A y \in S : ~ (<<y, x>> \in OpToRel(<, Nat))
  BY NatLessThanWellFounded, WFMin
<1>2. ASSUME NEW y \in S PROVE x <= y
  <2>1. x \in Nat /\ y \in Nat
    OBVIOUS
  <2>2. ~(y < x)
    BY <1>1, <2>1 DEF OpToRel
  <2> QED BY <2>1, <2>2
<1> QED BY <1>2

LEMMA FirstIsOne ==
  ASSUME NEW S \in SUBSET Saps, S # {}
  PROVE  First(S) \in S
<1>1. S \in SUBSET Nat
  BY DEF Saps
<1>2. \E m \in S : \A k \in S : m <= k
  BY <1>1, LeastExists
<1> QED BY <1>2 DEF First

LEMMA Addresses ==
  ASSUME NetAssumption
  PROVE  /\ \A ip \in Addr : /\ Hop(ip) \in Addr \ Far
                             /\ ip \notin Far => Hop(ip) = ip
         /\ Me \in Addr \ Far /\ NoAddr \notin Addr /\ Hosts \subseteq Addr
         /\ PollTimeout \in Nat /\ SapTimeout \in Nat /\ Never \in Nat
         /\ SapTimeout <= Never /\ PollTimeout <= Never /\ 1 \in Saps
         /\ OpenLoop \in Nat /\ 1 <= OpenLoop
BY DEF NetAssumption, Hop, Addr, Hosts, Saps

\* Some entry can always be taken.
LEMMA VictimExists ==
  ASSUME NetAssumption, NEW c \in [Saps -> Entry]
  PROVE  Victim(c) \in Saps
<1> DEFINE closed == {i \in Saps : c[i].state = "closed"}
           earliest == {i \in Saps : \A j \in Saps : c[i].timeout <= c[j].timeout}
           T == {c[i].timeout + PollTimeout : i \in Saps}
<1>1. \A i \in Saps : c[i].timeout \in -PollTimeout .. Never
  BY DEF Entry
<1>2. T \in SUBSET Nat /\ T # {}
  BY <1>1, Addresses
<1>3. PICK t \in T : \A u \in T : t <= u
  BY <1>2, LeastExists
<1>4. PICK i \in Saps : t = c[i].timeout + PollTimeout
  BY <1>3
<1>5. \A j \in Saps : c[i].timeout <= c[j].timeout
  <2> TAKE j \in Saps
  <2>1. c[j].timeout + PollTimeout \in T
    OBVIOUS
  <2>2. c[i].timeout + PollTimeout <= c[j].timeout + PollTimeout
    BY <1>3, <1>4, <2>1
  <2> QED BY <1>1, <2>2, Addresses
<1>6. earliest # {}
  BY <1>5
<1> QED BY <1>6, FirstIsOne DEF Victim

\* What the assignments to an entry make of it.
LEMMA EntryAnswered ==
  ASSUME NEW e \in Entry, NEW mac \in Addr
  PROVE  LET f == [e EXCEPT !.state = "resoluted", !.mac = mac]
         IN  f \in Entry /\ f.ip = e.ip /\ f.mac = mac /\ f.state = "resoluted"
BY DEF Entry

LEMMA EntryAsked ==
  ASSUME NEW e \in Entry, NEW ip \in Addr
  PROVE  LET f == [e EXCEPT !.ip = ip, !.mac = NoAddr, !.state = "allocated"]
         IN  f \in Entry /\ f.ip = ip /\ f.state = "allocated"
BY DEF Entry

LEMMA EntryTimed ==
  ASSUME NEW e \in Entry, NEW t \in -PollTimeout .. Never
  PROVE  LET f == [e EXCEPT !.timeout = t]
         IN  f \in Entry /\ f.ip = e.ip /\ f.mac = e.mac /\ f.state = e.state
BY DEF Entry

LEMMA AnsweredGood ==
  ASSUME NetAssumption, NEW c, GoodCache(c), NEW ip \in Addr
  PROVE  GoodCache(Answered(c, ip, ip))
<1> DEFINE d == Answered(c, ip, ip)
<1>1. \A i \in Saps : /\ d[i] \in Entry /\ d[i].ip = c[i].ip
                      /\ d[i].state = "closed" <=> c[i].state = "closed"
                      /\ \/ d[i] = c[i]
                         \/ d[i].state = "resoluted" /\ d[i].mac = ip /\ c[i].ip = ip
  <2> TAKE i \in Saps
  <2>1. c[i] \in Entry
    BY DEF GoodCache
  <2>2. d[i] = IF c[i].state = "allocated" /\ c[i].ip = ip
               THEN [c[i] EXCEPT !.state = "resoluted", !.mac = ip] ELSE c[i]
    BY DEF Answered
  <2> HIDE DEF d
  <2>3. CASE c[i].state = "allocated" /\ c[i].ip = ip
    <3> DEFINE f == [c[i] EXCEPT !.state = "resoluted", !.mac = ip]
    <3>1. f \in Entry /\ f.ip = c[i].ip /\ f.mac = ip /\ f.state = "resoluted"
      BY <2>1, EntryAnswered
    <3>2. d[i] = f
      BY <2>2, <2>3
    <3> HIDE DEF f
    <3> QED BY <2>3, <3>1, <3>2
  <2>4. CASE ~(c[i].state = "allocated" /\ c[i].ip = ip)
    BY <2>1, <2>2, <2>4
  <2> QED BY <2>3, <2>4
<1>2. d \in [Saps -> Entry]
  BY <1>1 DEF Answered
<1> HIDE DEF d
<1>3. GoodCache(d)
  BY <1>1, <1>2 DEF GoodCache
<1> QED BY <1>3 DEF d

LEMMA SweptGood ==
  ASSUME NetAssumption, NEW c, GoodCache(c)
  PROVE  GoodCache(Swept(c))
<1>1. ClosedSap \in Entry /\ ClosedSap.state = "closed"
  BY Addresses DEF ClosedSap, Entry
<1> DEFINE d == Swept(c)
<1>2. \A i \in Saps : d[i] \in Entry /\ (d[i] = c[i] \/ d[i].state = "closed")
  BY <1>1 DEF Swept, GoodCache
<1>3. d \in [Saps -> Entry]
  BY <1>2 DEF Swept, GoodCache
<1> HIDE DEF d
<1>4. GoodCache(d)
  BY <1>2, <1>3 DEF GoodCache
<1> QED BY <1>4 DEF d

\* NET_ARP_alloc_sap keeps the cache sound, and hands out no other address
\* than the one asked for.
LEMMA AllocGood ==
  ASSUME NetAssumption, NEW c, GoodCache(c), NEW ip \in Addr \ Far, NEW ok \in BOOLEAN
  PROVE  /\ GoodCache(AllocSap(c, ip, ok).cache)
         /\ AllocSap(c, ip, ok).rc = "OK" => AllocSap(c, ip, ok).mac = ip
         /\ AllocSap(c, ip, ok).rc \in Codes
<1> DEFINE held == Held(c, ip)
           i == IF held # {} THEN First(held) ELSE Victim(c)
           asked == IF held # {} THEN c
                    ELSE [c EXCEPT ![i] = [@ EXCEPT !.ip = ip, !.mac = NoAddr,
                                                    !.state = "allocated"]]
           timed(d) == [d EXCEPT ![i].timeout = SapTimeout]
           r == AllocSap(c, ip, ok)
<1>1. held \subseteq Saps /\ \A k \in held : c[k].ip = ip /\ c[k].state # "closed"
  BY DEF Held
<1>2. i \in Saps /\ (held # {} => i \in held)
  BY <1>1, FirstIsOne, VictimExists DEF GoodCache
<1>3. GoodCache(asked)
  <2>1. CASE held # {}
    BY <2>1
  <2>2. CASE held = {}
    <3> HIDE DEF i
    <3> DEFINE e == [c[i] EXCEPT !.ip = ip, !.mac = NoAddr, !.state = "allocated"]
    <3>1. e \in Entry /\ e.ip = ip /\ e.state = "allocated"
      <4>1. c[i] \in Entry /\ ip \in Addr
        BY <1>2 DEF GoodCache
      <4> QED BY <4>1, EntryAsked
    <3>2. asked = [c EXCEPT ![i] = e]
      BY <2>2 DEF i
    <3> HIDE DEF e
    <3>3. /\ asked \in [Saps -> Entry] /\ asked[i] = e
          /\ \A k \in Saps : k # i => asked[k] = c[k]
      BY <1>2, <3>1, <3>2 DEF GoodCache
    <3>4. \A k \in Saps : c[k].state # "closed" => c[k].ip # ip
      BY <2>2 DEF Held
    <3> HIDE DEF asked
    <3> QED BY <1>2, <3>1, <3>3, <3>4 DEF GoodCache
  <2> QED BY <2>1, <2>2
<1> HIDE DEF asked, i
<1>4. ASSUME NEW d, GoodCache(d) PROVE GoodCache(timed(d))
  <2> DEFINE e == [d[i] EXCEPT !.timeout = SapTimeout]
  <2>1. e \in Entry /\ e.ip = d[i].ip /\ e.mac = d[i].mac /\ e.state = d[i].state
    BY <1>2, <1>4, Addresses, EntryTimed DEF GoodCache
  <2>3. timed(d) = [d EXCEPT ![i] = e]
    OBVIOUS
  <2> HIDE DEF e, timed
  <2>2. /\ timed(d) \in [Saps -> Entry]
        /\ \A k \in Saps : /\ timed(d)[k].state = d[k].state /\ timed(d)[k].ip = d[k].ip
                           /\ timed(d)[k].mac = d[k].mac
    BY <1>2, <1>4, <2>1, <2>3 DEF GoodCache
  <2> QED BY <1>4, <2>2 DEF GoodCache
<1>5. GoodCache(Requested(asked, ip))
  BY <1>3, AnsweredGood, Addresses DEF Requested
<1> HIDE DEF timed
<1>6. CASE held # {} /\ c[i].state = "resoluted"
  <2>1. r = [cache |-> timed(c), rc |-> "OK", mac |-> c[i].mac]
    BY <1>6 DEF AllocSap, timed, i
  <2>2. c[i].mac = ip
    BY <1>1, <1>2, <1>6 DEF GoodCache
  <2>3. GoodCache(timed(c))
    BY <1>4
  <2> HIDE DEF r
  <2>4. r.cache = timed(c) /\ r.rc \in Codes /\ r.mac = c[i].mac
    BY <2>1 DEF Codes
  <2> QED BY <2>2, <2>3, <2>4, Zenon DEF r
<1>7. CASE ~(held # {} /\ c[i].state = "resoluted") /\ ok
  <2>1. r = [cache |-> timed(Requested(asked, ip)), rc |-> "NOT_RESOLUTED", mac |-> NoAddr]
    BY <1>7 DEF AllocSap, timed, i, asked
  <2>2. GoodCache(timed(Requested(asked, ip)))
    BY <1>4, <1>5
  <2> HIDE DEF r
  <2>3. r.cache = timed(Requested(asked, ip)) /\ r.rc = "NOT_RESOLUTED"
    BY <2>1
  <2>4. r.rc \in Codes /\ r.rc # "OK"
    BY <2>3 DEF Codes
  <2> QED BY <2>2, <2>3, <2>4, Zenon DEF r
<1>8. CASE ~(held # {} /\ c[i].state = "resoluted") /\ ~ok
  <2>1. r = [cache |-> Requested(asked, ip), rc |-> "SEND_FAILED", mac |-> NoAddr]
    BY <1>8 DEF AllocSap, timed, i, asked
  <2> HIDE DEF r
  <2>2. r.cache = Requested(asked, ip) /\ r.rc = "SEND_FAILED"
    BY <2>1
  <2>3. r.rc \in Codes /\ r.rc # "OK"
    BY <2>2 DEF Codes
  <2> QED BY <1>5, <2>2, <2>3, Zenon DEF r
<1> QED BY <1>6, <1>7, <1>8

-----------------------------------------------------------------------------
\* Stacks: what is pushed, and what is left when the innermost call returns.
LEMMA PushGood ==
  ASSUME NEW s, GoodStack(s), NEW x \in Open,
         x.msg.kind = "unreach" \/ (x.msg.kind = "echo_req" /\ s = <<>>)
  PROVE  /\ GoodStack(Append(s, x)) /\ Append(s, x) # <<>>
         /\ Append(s, x)[1] = IF s = <<>> THEN x ELSE s[1]
<1> DEFINE t == Append(s, x)
<1>1. s \in Seq(Call) /\ x \in Call /\ x.fn = "open"
  BY DEF GoodStack, Call, Open
<1>2. /\ t \in Seq(Call) /\ Len(t) = Len(s) + 1 /\ Len(s) \in Nat
      /\ \A i \in 1 .. Len(s) : t[i] = s[i]
      /\ t[Len(s) + 1] = x
  BY <1>1
<1>3. s = <<>> <=> Len(s) = 0
  BY <1>1
<1> HIDE DEF t
<1>4. \A i \in 1 .. Len(t) : i \in 1 .. Len(s) \/ (i = Len(s) + 1 /\ t[i] = x)
  BY <1>2
<1>5. GoodStack(t)
  BY <1>1, <1>2, <1>3, <1>4 DEF GoodStack
<1>6. t[1] = IF s = <<>> THEN x ELSE s[1]
  BY <1>2, <1>3
<1>7. t # <<>>
  BY <1>2
<1> QED BY <1>5, <1>6, <1>7 DEF t

LEMMA FrontGood ==
  ASSUME NEW s, GoodStack(s), s # <<>>
  PROVE  /\ GoodStack(Front(s)) /\ Len(s) \in 1 .. Len(s)
         /\ Front(s) # <<>> => Len(s) # 1 /\ Front(s)[1] = s[1]
<1> DEFINE t == Front(s)
<1>1. s \in Seq(Call) /\ Len(s) \in Nat /\ Len(s) # 0
  BY DEF GoodStack
<1>2. /\ t \in Seq(Call) /\ Len(t) = Len(s) - 1
      /\ \A i \in 1 .. Len(t) : t[i] = s[i]
  <2>1. \A i \in 1 .. Len(s) - 1 : s[i] \in Call
    BY <1>1
  <2> DEFINE n == Len(s) - 1
  <2>2. 1 \in Int /\ n \in Nat
    BY <1>1
  <2> HIDE DEF t, n
  <2>3. /\ SubSeq(s, 1, n) \in Seq(Call)
        /\ Len(SubSeq(s, 1, n)) = IF 1 <= n THEN n - 1 + 1 ELSE 0
        /\ \A i \in 1 .. n - 1 + 1 : SubSeq(s, 1, n)[i] = s[1 + i - 1]
    <3>1. \A i \in 1 .. n : s[i] \in Call
      BY <2>1 DEF n
    <3>2. n \in Int
      BY <2>2
    <3> QED BY <2>2, <3>1, <3>2, SubSeqProperties
  <2>4. t = SubSeq(s, 1, n)
    BY DEF Front, t, n
  <2>5. Len(t) = n /\ t \in Seq(Call)
    BY <2>2, <2>3, <2>4
  <2>6. ASSUME NEW i \in 1 .. Len(t) PROVE t[i] = s[i]
    <3>1. i \in 1 .. n - 1 + 1 /\ 1 + i - 1 = i
      BY <2>2, <2>5
    <3> QED BY <2>3, <2>4, <3>1
  <2> QED BY <2>5, <2>6 DEF n
<1>3. t = <<>> <=> Len(t) = 0
  BY <1>2
<1> HIDE DEF t
<1>4. GoodStack(t)
  BY <1>1, <1>2 DEF GoodStack
<1>5. t # <<>> => Len(s) # 1 /\ t[1] = s[1]
  BY <1>1, <1>2, <1>3
<1> QED BY <1>1, <1>4, <1>5 DEF t

LEMMA BelowGood ==
  ASSUME NEW s, GoodStack(s), NEW p \in PingSet,
         s # <<>> /\ s[1].fn \in {"send", "ping"} => p.ip # NoAddr
  PROVE  /\ GoodStack(Below(s, p))
         /\ Below(s, p) # <<>> /\ Below(s, p)[1].fn \in {"send", "ping"} => p.ip # NoAddr
<1>1. GoodStack(<<>>)
  BY DEF GoodStack
<1>2. GoodStack(<<[fn |-> "ping"]>>)
  <2>1. [fn |-> "ping"] \in Call
    BY DEF Call
  <2> QED BY <2>1 DEF GoodStack
<1> QED BY <1>1, <1>2 DEF Below

LEMMA SentGood ==
  ASSUME NetAssumption, NEW p \in PingSet, NEW rc \in Codes
  PROVE  Sent(p, rc) \in PingSet
<1>1. Idle \in PingSet
  BY DEF Idle, PingSet, Codes
<1>2. [Idle EXCEPT !.rc = rc] \in PingSet
  BY <1>1 DEF PingSet
<1>3. \A b \in BOOLEAN : [p EXCEPT !.compl = rc, !.over = b] \in PingSet
  BY DEF PingSet
<1>4. [p EXCEPT !.compl = rc, !.over = IF p.retry = PingRetry THEN FALSE ELSE @] \in PingSet
  <2>1. p.over \in BOOLEAN
    BY DEF PingSet
  <2> QED BY <1>3, <2>1
<1> QED BY <1>2, <1>4 DEF Sent

\* A message to somewhere, and the frames it becomes.
Message == {m \in FrameSet : m.kind \in {"echo_req", "unreach"}}

LEMMA TransmitGood ==
  ASSUME NetAssumption, IInv, NEW msg \in Message, NEW ok \in BOOLEAN,
         Transmit(msg, Hop(msg.ip), ok)
  PROVE  GoodWire(wire') /\ GoodReply'
<1>1. msg.ip \in Addr /\ Hop(msg.ip) \in Addr /\ msg.size \in Nat
  BY Addresses DEF Message, FrameSet
<1>2. Latched([ip |-> Me, size |-> msg.size]) \in [ip : Addr \cup {NoAddr}, size : Nat]
  BY <1>1, Addresses DEF Latched, IInv, GoodReply
<1>3. GoodReply'
  BY <1>2 DEF Transmit, IInv, GoodReply
<1> DEFINE f == [msg EXCEPT !.mac = Hop(msg.ip)]
<1>4. f \in FrameSet /\ f.ip = msg.ip /\ f.mac = Hop(f.ip) /\ f.kind # "arp_req"
  BY <1>1 DEF Message, FrameSet
<1>5. wire' = wire \/ wire' = wire \cup {f}
  BY DEF Transmit
<1> HIDE DEF f
<1>6. GoodWire(wire')
  BY <1>4, <1>5 DEF IInv, GoodWire
<1> QED BY <1>3, <1>6

LEMMA RequestGood ==
  ASSUME NetAssumption, GoodWire(wire), NEW ip \in Addr \ Far
  PROVE  GoodWire(wire \cup {Frame("arp_req", ip, NoAddr, 0)})
<1> DEFINE f == Frame("arp_req", ip, NoAddr, 0)
<1>1. f \in FrameSet /\ f.ip = ip /\ f.kind = "arp_req"
  BY DEF Frame, FrameSet
<1> HIDE DEF f
<1>2. GoodWire(wire \cup {f})
  BY <1>1 DEF GoodWire
<1> QED BY <1>2 DEF f

\* What NET_IP_send and a turn of NET_ARP_open leave behind.
Aftermath ==
    /\ GoodCache(sap_context') /\ GoodStack(stack') /\ GoodWire(wire') /\ GoodReply'
    /\ ping' \in PingSet
    /\ stack' # <<>> /\ stack'[1].fn \in {"send", "ping"} => Pinging'

LEMMA OpenTurnGood ==
  ASSUME NetAssumption, IInv, NEW c, GoodCache(c), NEW below, GoodStack(below),
         NEW loop \in 1 .. OpenLoop, NEW msg \in Message, NEW p \in PingSet,
         below # <<>> => msg.kind = "unreach",
         below # <<>> /\ below[1].fn \in {"send", "ping"} => p.ip # NoAddr,
         OpenTurn(c, below, loop, msg, p)
  PROVE  Aftermath
<1> DEFINE R(ok) == AllocSap(c, Hop(msg.ip), ok)
           done(rc) == IF msg.kind = "echo_req" THEN Sent(p, rc) ELSE p
<1>1. msg.ip \in Addr /\ Hop(msg.ip) \in Addr \ Far
  BY Addresses DEF Message, FrameSet
<1>2. PICK ok \in BOOLEAN :
        /\ sap_context' = R(ok).cache
        /\ \/ /\ R(ok).rc = "OK"
              /\ Transmit(msg, R(ok).mac, ok)
              /\ ping' = done(IF ok \/ R(ok).mac = Me THEN "OK" ELSE "SEND_FAILED")
              /\ stack' = Below(below, ping')
           \/ /\ R(ok).rc = "NOT_RESOLUTED" /\ LoopLeft(loop)
              /\ wire' = wire \cup {Frame("arp_req", Hop(msg.ip), NoAddr, 0)}
              /\ stack' = Append(below, [fn |-> "open", loop |-> loop - 1, msg |-> msg])
              /\ ping' = p /\ UNCHANGED <<appl_reply, heard>>
           \/ /\ wire' = IF ok THEN wire \cup {Frame("arp_req", Hop(msg.ip), NoAddr, 0)}
                         ELSE wire
              /\ ping' = done(R(ok).rc)
              /\ stack' = Below(below, ping') /\ UNCHANGED <<appl_reply, heard>>
  BY DEF OpenTurn
<1>3. /\ GoodCache(R(ok).cache) /\ R(ok).rc \in Codes
      /\ R(ok).rc = "OK" => R(ok).mac = Hop(msg.ip)
  BY <1>1, AllocGood
<1>4. \A rc \in Codes : /\ done(rc) \in PingSet
                        /\ below # <<>> => done(rc) = p
  BY SentGood
<1>5. "OK" \in Codes /\ "SEND_FAILED" \in Codes
  BY DEF Codes
<1> HIDE DEF R, done
<1>6. GoodCache(sap_context')
  BY <1>2, <1>3
<1>7. CASE /\ R(ok).rc = "OK"
           /\ Transmit(msg, R(ok).mac, ok)
           /\ ping' = done(IF ok \/ R(ok).mac = Me THEN "OK" ELSE "SEND_FAILED")
           /\ stack' = Below(below, ping')
  <2>1. GoodWire(wire') /\ GoodReply'
    BY <1>3, <1>7, TransmitGood
  <2>2. ping' \in PingSet /\ (below # <<>> => ping' = p)
    BY <1>4, <1>5, <1>7
  <2>3. /\ GoodStack(stack')
        /\ stack' # <<>> /\ stack'[1].fn \in {"send", "ping"} => ping'.ip # NoAddr
    BY <1>7, <2>2, BelowGood
  <2> QED BY <1>6, <2>1, <2>2, <2>3 DEF Aftermath, Pinging
<1>8. CASE /\ LoopLeft(loop)
           /\ wire' = wire \cup {Frame("arp_req", Hop(msg.ip), NoAddr, 0)}
           /\ stack' = Append(below, [fn |-> "open", loop |-> loop - 1, msg |-> msg])
           /\ ping' = p /\ UNCHANGED <<appl_reply, heard>>
  <2> DEFINE x == [fn |-> "open", loop |-> loop - 1, msg |-> msg]
  <2>1. x \in Open /\ x.msg.kind \in {"echo_req", "unreach"} /\ x.fn = "open" /\ x.msg = msg
    BY <1>8, Addresses DEF Open, LoopLeft, Message
  <2>2. stack' = Append(below, x)
    BY <1>8
  <2> HIDE DEF x
  <2>3. /\ GoodStack(stack') /\ stack' # <<>>
        /\ stack'[1] = IF below = <<>> THEN x ELSE below[1]
    <3>1. x.msg.kind = "unreach" \/ (x.msg.kind = "echo_req" /\ below = <<>>)
      BY <2>1
    <3> QED BY <2>1, <2>2, <3>1, PushGood
  <2>4. stack'[1].fn \in {"send", "ping"} => ping'.ip # NoAddr
    BY <1>8, <2>1, <2>3
  <2>5. GoodWire(wire') /\ GoodReply'
    BY <1>1, <1>8, RequestGood DEF IInv, GoodReply
  <2> QED BY <1>6, <1>8, <2>3, <2>4, <2>5 DEF Aftermath, Pinging
<1>9. CASE /\ wire' = IF ok THEN wire \cup {Frame("arp_req", Hop(msg.ip), NoAddr, 0)}
                      ELSE wire
           /\ ping' = done(R(ok).rc)
           /\ stack' = Below(below, ping') /\ UNCHANGED <<appl_reply, heard>>
  <2>1. GoodWire(wire') /\ GoodReply'
    BY <1>1, <1>9, RequestGood DEF IInv, GoodReply
  <2>2. ping' \in PingSet /\ (below # <<>> => ping' = p)
    BY <1>3, <1>4, <1>9
  <2>3. /\ GoodStack(stack')
        /\ stack' # <<>> /\ stack'[1].fn \in {"send", "ping"} => ping'.ip # NoAddr
    BY <1>9, <2>2, BelowGood
  <2> QED BY <1>6, <2>1, <2>2, <2>3 DEF Aftermath, Pinging
<1> QED BY <1>2, <1>7, <1>8, <1>9

LEMMA SendGood ==
  ASSUME NetAssumption, IInv, NEW c, GoodCache(c), NEW below, GoodStack(below),
         NEW msg \in Message, NEW p \in PingSet,
         below # <<>> => msg.kind = "unreach",
         below # <<>> /\ below[1].fn \in {"send", "ping"} => p.ip # NoAddr,
         Send(c, below, msg, p)
  PROVE  Aftermath
<1>1. CASE SendCheck(msg.ip) = "OK"
  <2>1. OpenLoop \in 1 .. OpenLoop
    BY Addresses
  <2> QED BY <1>1, <2>1, OpenTurnGood DEF Send
<1>2. CASE SendCheck(msg.ip) # "OK"
  <2>1. SendCheck(msg.ip) \in Codes
    BY DEF SendCheck, Codes
  <2>2. /\ ping' = IF msg.kind = "echo_req" THEN Sent(p, SendCheck(msg.ip)) ELSE p
        /\ stack' = Below(below, ping') /\ sap_context' = c
        /\ UNCHANGED <<wire, appl_reply, heard, spent>>
    BY <1>2 DEF Send
  <2>3. ping' \in PingSet /\ (below # <<>> => ping' = p)
    BY <2>1, <2>2, SentGood
  <2>4. /\ GoodStack(stack')
        /\ stack' # <<>> /\ stack'[1].fn \in {"send", "ping"} => ping'.ip # NoAddr
    BY <2>2, <2>3, BelowGood
  <2> QED BY <2>2, <2>3, <2>4 DEF Aftermath, Pinging, IInv, GoodReply
<1> QED BY <1>1, <1>2

-----------------------------------------------------------------------------
LEMMA InitInv ==
  ASSUME NetAssumption, NetInit
  PROVE  IInv
<1> USE DEF NetInit
<1>1. ClosedSap \in Entry /\ ClosedSap.state = "closed"
  BY Addresses DEF ClosedSap, Entry
<1>2. GoodCache(sap_context)
  BY <1>1 DEF GoodCache
<1>3. GoodStack(stack) /\ GoodLan(lan) /\ GoodWire(wire)
  BY DEF GoodStack, GoodLan, GoodWire
<1>4. GoodReply /\ ping \in PingSet
  BY DEF GoodReply, NoReply, Idle, PingSet, Codes
<1> QED BY <1>2, <1>3, <1>4, Addresses DEF IInv

LEMMA IdleIsPing ==
  ASSUME NetAssumption, NEW rc \in Codes
  PROVE  Idle \in PingSet /\ [Idle EXCEPT !.rc = rc] \in PingSet
<1>1. Idle \in PingSet
  BY DEF Idle, PingSet, Codes
<1> QED BY <1>1 DEF PingSet

LEMMA NextPollTimeGood ==
  ASSUME NetAssumption, IInv
  PROVE  NextPollTime \in 0 .. Never
BY Addresses DEF IInv, NextPollTime

\* NET_ping.
LEMMA PingStartInv ==
  ASSUME NetAssumption, IInv, PingStart
  PROVE  IInv'
<1> USE DEF IInv
<1>1. PICK x \in Pings :
        ping' = [Idle EXCEPT !.ip = x.ip, !.size = x.size, !.retry = PingRetry]
  BY DEF PingStart
<1>2. x.ip \in Addr /\ x.size \in Nat /\ PingRetry \in Nat
  BY DEF NetAssumption
<1>3. ping' \in PingSet /\ ping'.ip = x.ip
  <2>1. Idle \in PingSet
    BY IdleIsPing DEF Codes
  <2> QED BY <1>1, <1>2, <2>1 DEF PingSet
<1>4. GoodStack(stack')
  <2>1. [fn |-> "send"] \in Call
    BY DEF Call
  <2> QED BY <2>1 DEF PingStart, GoodStack
<1>5. GoodReply'
  BY DEF PingStart, GoodReply, NoReply
<1>6. ping'.ip # NoAddr
  BY <1>2, <1>3, Addresses
<1> QED BY <1>3, <1>4, <1>5, <1>6 DEF PingStart, Pinging, config

LEMMA PingSendInv ==
  ASSUME NetAssumption, IInv, PingSend
  PROVE  IInv'
<1>1. stack = <<[fn |-> "send"]>> /\ Send(sap_context, <<>>, EchoRequest(ping), ping)
  BY DEF PingSend
<1>2. ping.ip \in Addr /\ ping.size \in Nat
  BY <1>1 DEF IInv, Pinging, PingSet
<1>3. EchoRequest(ping) \in Message
  BY <1>2 DEF EchoRequest, Frame, Message, FrameSet
<1>4. GoodStack(<<>>)
  BY DEF GoodStack
<1>5. GoodCache(sap_context) /\ ping \in PingSet
  BY DEF IInv
<1>6. Aftermath
  BY <1>1, <1>3, <1>4, <1>5, SendGood
<1> QED BY <1>6 DEF Aftermath, IInv, PingSend, config

LEMMA PingPolledInv ==
  ASSUME NetAssumption, IInv, PingPolled
  PROVE  IInv'
<1>1. GoodCache(sap_context') /\ next_poll_time' \in 0 .. Never
  BY SweptGood, NextPollTimeGood DEF IInv, PingPolled
<1>2. Pinging
  BY DEF IInv, PingPolled
<1>3. GoodStack(<<>>) /\ GoodStack(<<[fn |-> "send"]>>)
  <2>1. [fn |-> "send"] \in Call
    BY DEF Call
  <2> QED BY <2>1 DEF GoodStack
<1>4. \/ UNCHANGED <<ping, stack>>
      \/ stack' = <<>> /\ \E rc \in Codes : ping' = [Idle EXCEPT !.rc = rc]
      \/ /\ ping.retry # 0 /\ ping' = [ping EXCEPT !.retry = @ - 1, !.over = FALSE]
         /\ stack' = <<[fn |-> "send"]>>
  <2>1. GivenUp(ping.compl) \in Codes
    BY DEF IInv, PingSet, GivenUp, Codes
  <2>2. "OK" \in Codes /\ "CONTROL_C" \in Codes
    BY DEF Codes
  <2> QED BY <2>1, <2>2 DEF PingPolled, IInv, PingSet
<1>5. /\ ping' \in PingSet /\ GoodStack(stack')
      /\ stack' # <<>> /\ stack'[1].fn \in {"send", "ping"} => Pinging'
  <2>1. CASE UNCHANGED <<ping, stack>>
    BY <1>2, <2>1 DEF IInv, Pinging
  <2>2. CASE stack' = <<>> /\ \E rc \in Codes : ping' = [Idle EXCEPT !.rc = rc]
    BY <1>3, <2>2, IdleIsPing
  <2>3. CASE /\ ping.retry # 0 /\ ping' = [ping EXCEPT !.retry = @ - 1, !.over = FALSE]
             /\ stack' = <<[fn |-> "send"]>>
    <3>1. ping \in PingSet /\ ping.retry - 1 \in Nat
      BY <2>3 DEF IInv, PingSet
    <3>2. [ping EXCEPT !.retry = @ - 1, !.over = FALSE] \in PingSet
      BY <3>1 DEF PingSet
    <3>3. ping'.ip = ping.ip
      BY <2>3, <3>1 DEF PingSet
    <3> QED BY <1>2, <1>3, <2>3, <3>2, <3>3 DEF Pinging
  <2> QED BY <1>4, <2>1, <2>2, <2>3
<1> QED BY <1>1, <1>5 DEF IInv, PingPolled, config, GoodReply

\* NET_ARP_open takes another turn.
LEMMA OpenPolledInv ==
  ASSUME NetAssumption, IInv, OpenPolled
  PROVE  IInv'
<1> DEFINE below == Front(stack)
<1>1. stack # <<>> /\ Top.fn = "open"
      /\ OpenTurn(Swept(sap_context), below, Top.loop, Top.msg, ping)
  BY DEF OpenPolled
<1>2. /\ GoodStack(below) /\ Len(stack) \in 1 .. Len(stack)
      /\ below # <<>> => Len(stack) # 1 /\ below[1] = stack[1]
  BY <1>1, FrontGood DEF IInv
<1>3. Top \in Open /\ Top.msg \in Message
      /\ (Top.msg.kind = "unreach" \/ Len(stack) = 1)
  <2>1. Top \in Call
    BY <1>2 DEF IInv, GoodStack, Top
  <2>2. Top \in Open
    BY <1>1, <2>1 DEF Call
  <2>3. Top.msg.kind = "unreach" \/ (Top.msg.kind = "echo_req" /\ Len(stack) = 1)
    BY <1>1, <1>2 DEF IInv, GoodStack, Top
  <2> QED BY <2>2, <2>3 DEF Open, Message
<1> HIDE DEF below
<1>4. below # <<>> => Top.msg.kind = "unreach"
  BY <1>2, <1>3
<1>5. below # <<>> /\ below[1].fn \in {"send", "ping"} => ping.ip # NoAddr
  BY <1>1, <1>2 DEF IInv, Pinging
<1>6. GoodCache(Swept(sap_context)) /\ ping \in PingSet
  BY SweptGood DEF IInv
<1>7. Top.loop \in 1 .. OpenLoop
  BY <1>3 DEF Open
<1>8. Aftermath
  BY <1>1, <1>2, <1>3, <1>4, <1>5, <1>6, <1>7, OpenTurnGood
<1>9. GoodLan(lan')
  <2>1. lan' \subseteq lan
    BY DEF OpenPolled
  <2> QED BY <2>1 DEF IInv, GoodLan
<1> QED BY <1>8, <1>9, NextPollTimeGood DEF Aftermath, IInv, OpenPolled, config

-----------------------------------------------------------------------------
\* Receiving.
LEMMA MetIsInLan == Met \subseteq lan
BY DEF Met

LEMMA ReceiveAnsweredInv ==
  ASSUME NetAssumption, IInv, ReceiveAnswered
  PROVE  IInv'
<1>1. PICK f \in lan : lan' = lan \ {f} /\ Reply(f)
  BY MetIsInLan DEF ReceiveAnswered
<1>2. f \in FrameSet /\ f.mac = Hop(f.ip)
  BY DEF IInv, GoodLan
<1> DEFINE answers == {Frame("arp_rep", f.ip, f.mac, 0), Frame("echo_rep", f.ip, f.mac, f.size),
                       Frame("unreach", f.ip, f.mac, 0)}
<1>3. \A g \in answers : g \in FrameSet /\ g.kind # "arp_req" /\ g.mac = Hop(g.ip)
  BY <1>2 DEF Frame, FrameSet
<1>4. wire' \subseteq wire \cup answers
  BY <1>1 DEF Reply
<1> HIDE DEF answers
<1>5. GoodWire(wire')
  BY <1>3, <1>4 DEF IInv, GoodWire
<1>6. GoodLan(lan')
  BY <1>1 DEF IInv, GoodLan
<1> QED BY <1>5, <1>6 DEF IInv, ReceiveAnswered, config, GoodReply, Pinging

LEMMA ReceiveArpReplyInv ==
  ASSUME NetAssumption, IInv, ReceiveArpReply
  PROVE  IInv'
<1>1. PICK f \in lan : /\ f.kind = "arp_rep" /\ lan' = lan \ {f}
                       /\ sap_context' = Answered(sap_context, f.ip, f.mac)
  BY MetIsInLan DEF ReceiveArpReply
<1>2. f.ip \in Addr /\ f.mac = f.ip
  BY <1>1, Addresses DEF IInv, GoodLan, FrameSet
<1>3. GoodCache(sap_context')
  BY <1>1, <1>2, AnsweredGood DEF IInv
<1>4. GoodLan(lan')
  BY <1>1 DEF IInv, GoodLan
<1> QED BY <1>3, <1>4 DEF IInv, ReceiveArpReply, config, GoodReply, Pinging

LEMMA ReceiveEchoReplyInv ==
  ASSUME NetAssumption, IInv, ReceiveEchoReply
  PROVE  IInv'
<1>1. PICK f \in lan : /\ lan' = lan \ {f}
                       /\ appl_reply' = Latched([ip |-> f.ip, size |-> f.size])
  BY MetIsInLan DEF ReceiveEchoReply
<1>2. f.ip \in Addr /\ f.size \in Nat
  BY DEF IInv, GoodLan, FrameSet
<1>3. GoodReply'
  BY <1>1, <1>2 DEF IInv, GoodReply, Latched
<1>4. GoodLan(lan')
  BY <1>1 DEF IInv, GoodLan
<1> QED BY <1>3, <1>4 DEF IInv, ReceiveEchoReply, config, Pinging

LEMMA ReceiveNoPortInv ==
  ASSUME NetAssumption, IInv, ReceiveNoPort
  PROVE  IInv'
<1>1. PICK f \in lan :
        /\ Send(sap_context, stack, Frame("unreach", f.ip, NoAddr, 0), ping)
        /\ lan' = lan \/ lan' = lan \ {f}
  BY MetIsInLan DEF ReceiveNoPort
<1> DEFINE msg == Frame("unreach", f.ip, NoAddr, 0)
<1>2. msg \in Message /\ msg.kind = "unreach"
  BY DEF IInv, GoodLan, Frame, FrameSet, Message
<1>3. stack # <<>> /\ stack[1].fn \in {"send", "ping"} => ping.ip # NoAddr
  BY DEF IInv, Pinging
<1>4. GoodCache(sap_context) /\ GoodStack(stack) /\ ping \in PingSet
  BY DEF IInv
<1> HIDE DEF msg
<1>5. Aftermath
  <2>1. Send(sap_context, stack, msg, ping)
    BY <1>1 DEF msg
  <2> QED BY <1>2, <1>3, <1>4, <2>1, SendGood
<1>6. GoodLan(lan')
  BY <1>1 DEF IInv, GoodLan
<1> QED BY <1>5, <1>6 DEF Aftermath, IInv, ReceiveNoPort, config

-----------------------------------------------------------------------------
\* The network, its hosts, and the clock.
LEMMA HostAnswersInv ==
  ASSUME NetAssumption, IInv, HostAnswers
  PROVE  IInv'
<1>1. PICK f \in wire :
        /\ f.ip \in Hosts /\ f.kind \in {"arp_req", "echo_req"} /\ wire' = wire \ {f}
        /\ lan' = lan \cup {Frame(IF f.kind = "arp_req" THEN "arp_rep" ELSE "echo_rep",
                                  f.ip, Hop(f.ip), f.size)}
  BY DEF HostAnswers
<1> DEFINE g == Frame(IF f.kind = "arp_req" THEN "arp_rep" ELSE "echo_rep",
                      f.ip, Hop(f.ip), f.size)
<1>2. f \in FrameSet /\ (f.kind = "arp_req" => f.ip \notin Far) /\ Hop(f.ip) \in Addr
  BY Addresses DEF IInv, GoodWire, FrameSet
<1>3. g \in FrameSet /\ g.mac = Hop(g.ip) /\ (g.kind = "arp_rep" => g.ip \notin Far)
  BY <1>1, <1>2 DEF Frame, FrameSet
<1>4. lan' = lan \cup {g}
  BY <1>1
<1> HIDE DEF g
<1>5. GoodLan(lan')
  BY <1>3, <1>4 DEF IInv, GoodLan
<1>6. GoodWire(wire')
  BY <1>1 DEF IInv, GoodWire
<1> QED BY <1>5, <1>6 DEF IInv, HostAnswers, config, GoodReply, Pinging

LEMMA HostSendsInv ==
  ASSUME NetAssumption, IInv, HostSends
  PROVE  IInv'
<1>1. PICK x \in Unasked : lan' = lan \cup {Frame(x[1], x[2], Hop(x[2]), 0)}
  BY DEF HostSends
<1> DEFINE g == Frame(x[1], x[2], Hop(x[2]), 0)
<1>2. x[1] \in {"arp_req", "echo_req", "no_sap", "no_port"} /\ x[2] \in Hosts
  BY DEF NetAssumption
<1>3. g \in FrameSet /\ g.mac = Hop(g.ip) /\ g.kind # "arp_rep"
  BY <1>2, Addresses DEF Frame, FrameSet
<1>4. lan' = lan \cup {g}
  BY <1>1
<1> HIDE DEF g
<1>5. GoodLan(lan')
  BY <1>3, <1>4 DEF IInv, GoodLan
<1> QED BY <1>5 DEF IInv, HostSends, config, GoodReply, Pinging

\* Only times change.
LEMMA TimesInv ==
  ASSUME NetAssumption, IInv, next_poll_time' \in 0 .. Never,
         NEW t \in [Saps -> -PollTimeout .. Never],
         sap_context' = [i \in Saps |-> sap_context'[i]],
         \A i \in Saps : \/ sap_context'[i] = sap_context[i]
                         \/ sap_context'[i] = [sap_context[i] EXCEPT !.timeout = t[i]],
         ping' = IF Pinging THEN [ping EXCEPT !.over = TRUE] ELSE ping,
         UNCHANGED <<config, stack, appl_reply, heard, wire, lan>>
  PROVE  IInv'
<1>1. \A i \in Saps : /\ sap_context'[i] \in Entry
                      /\ sap_context'[i].ip = sap_context[i].ip
                      /\ sap_context'[i].mac = sap_context[i].mac
                      /\ sap_context'[i].state = sap_context[i].state
  <2> TAKE i \in Saps
  <2> DEFINE e == [sap_context[i] EXCEPT !.timeout = t[i]]
  <2>1. sap_context[i] \in Entry /\ t[i] \in -PollTimeout .. Never
    BY DEF IInv, GoodCache
  <2>2. /\ e \in Entry /\ e.ip = sap_context[i].ip /\ e.mac = sap_context[i].mac
        /\ e.state = sap_context[i].state
    BY <2>1, EntryTimed
  <2>3. sap_context'[i] = sap_context[i] \/ sap_context'[i] = e
    OBVIOUS
  <2> HIDE DEF e
  <2> QED BY <2>1, <2>2, <2>3
<1>2. sap_context' \in [Saps -> Entry]
  BY <1>1
<1>3. GoodCache(sap_context')
  BY <1>1, <1>2 DEF IInv, GoodCache
<1>4. ping' \in PingSet /\ ping'.ip = ping.ip
  BY DEF IInv, PingSet
<1> QED BY <1>3, <1>4 DEF IInv, config, GoodReply, Pinging

LEMMA TickInv ==
  ASSUME NetAssumption, IInv, Tick
  PROVE  IInv'
<1> DEFINE t == [i \in Saps |-> Less(sap_context[i].timeout, -PollTimeout)]
<1>1. \A i \in Saps : sap_context[i].timeout \in -PollTimeout .. Never
  BY DEF IInv, GoodCache, Entry
<1>2. t \in [Saps -> -PollTimeout .. Never]
  BY <1>1, Addresses DEF Less
<1>3. /\ sap_context' = [i \in Saps |-> sap_context'[i]]
      /\ \A i \in Saps : sap_context'[i] = [sap_context[i] EXCEPT !.timeout = t[i]]
  BY DEF Tick
<1>4. next_poll_time' \in 0 .. Never
  BY Addresses DEF IInv, Tick, Less
<1> HIDE DEF t
<1> QED BY <1>2, <1>3, <1>4, TimesInv DEF Tick

LEMMA ClockFallsInv ==
  ASSUME NetAssumption, IInv, ClockFalls
  PROVE  IInv'
<1> DEFINE t == [i \in Saps |-> Never]
<1>1. t \in [Saps -> -PollTimeout .. Never]
  BY Addresses
<1>2. /\ sap_context' = [i \in Saps |-> sap_context'[i]]
      /\ \A i \in Saps : \/ sap_context'[i] = sap_context[i]
                         \/ sap_context'[i] = [sap_context[i] EXCEPT !.timeout = t[i]]
  BY DEF ClockFalls
<1>3. next_poll_time' \in 0 .. Never
  BY Addresses DEF ClockFalls
<1> HIDE DEF t
<1> QED BY <1>1, <1>2, <1>3, TimesInv DEF ClockFalls

-----------------------------------------------------------------------------
LEMMA StepInv ==
  ASSUME NetAssumption, IInv, [NetNext]_netvars
  PROVE  IInv'
<1>1. CASE UNCHANGED netvars
  BY <1>1 DEF IInv, netvars, config, GoodReply, Pinging
<1>2. CASE Board
  BY <1>2, PingSendInv, PingPolledInv, OpenPolledInv, ReceiveAnsweredInv,
     ReceiveArpReplyInv, ReceiveEchoReplyInv, ReceiveNoPortInv DEF Board
<1>3. CASE Environment
  BY <1>3, PingStartInv, HostAnswersInv, HostSendsInv, TickInv, ClockFallsInv
  DEF Environment
<1> QED BY <1>1, <1>2, <1>3 DEF NetNext

LEMMA Invariance ==
  ASSUME NetAssumption
  PROVE  NetSpec => []IInv
<1>1. NetInit => IInv
  BY InitInv
<1>2. IInv /\ [NetNext]_netvars => IInv'
  BY StepInv
<1> QED BY <1>1, <1>2, PTL DEF NetSpec

\* Whatever handlers call NET_ARP_open inside each other, whatever entries they
\* evict from each other and however the clock goes, an IP address has at most one
\* entry in the ARP cache (net_arp.c).
THEOREM CacheSound ==
  ASSUME NetAssumption
  PROVE  NetSpec => []CacheIsSound
<1>1. IInv => CacheIsSound
  BY InvImplies
<1> QED BY <1>1, Invariance, PTL

\* No frame the board addresses goes to another station than the next hop of its
\* destination: NET_ARP_open never hands out the address of another host.
THEOREM NextHop ==
  ASSUME NetAssumption
  PROVE  NetSpec => []SentToNextHop
<1>1. IInv => SentToNextHop
  BY InvImplies
<1> QED BY <1>1, Invariance, PTL

-----------------------------------------------------------------------------
(* What NET_ping reports. *)

\* What is latched has reached the application.
HeardInv == appl_reply # NoReply => appl_reply \in heard

\* A send that ends a ping ends it with an error.
LEMMA SentIsNoSuccess ==
  ASSUME NetAssumption, NEW p \in PingSet, NEW rc \in Codes
  PROVE  Sent(p, rc).ip = p.ip \/ Sent(p, rc).rc # "OK"
<1>1. CASE rc \in {"OK", "NOT_RESOLUTED"} \/ p.retry < PingRetry
  <2> DEFINE q == [p EXCEPT !.compl = rc, !.over = IF p.retry = PingRetry THEN FALSE ELSE @]
  <2>1. Sent(p, rc) = q
    BY <1>1 DEF Sent
  <2>2. q.ip = p.ip
    BY DEF PingSet
  <2> QED BY <2>1, <2>2
<1>2. CASE ~(rc \in {"OK", "NOT_RESOLUTED"} \/ p.retry < PingRetry)
  <2>1. Sent(p, rc) = [Idle EXCEPT !.rc = rc]
    BY <1>2 DEF Sent
  <2>2. [Idle EXCEPT !.rc = rc].rc = rc
    BY DEF Idle
  <2> QED BY <1>2, <2>1, <2>2
<1> QED BY <1>1, <1>2

LEMMA OpenTurnHeard ==
  ASSUME NetAssumption, IInv, HeardInv, NEW c, GoodCache(c), NEW below,
         NEW loop, NEW msg \in Message, OpenTurn(c, below, loop, msg, ping)
  PROVE  HeardInv' /\ (ping'.ip = ping.ip \/ ping'.rc # "OK")
<1> DEFINE R(ok) == AllocSap(c, Hop(msg.ip), ok)
           done(rc) == IF msg.kind = "echo_req" THEN Sent(ping, rc) ELSE ping
<1>1. msg.ip \in Addr /\ Hop(msg.ip) \in Addr \ Far
  BY Addresses DEF Message, FrameSet
<1>2. PICK ok \in BOOLEAN :
        \/ \E mac : Transmit(msg, mac, ok)
           /\ ping' = done(IF ok \/ R(ok).mac = Me THEN "OK" ELSE "SEND_FAILED")
        \/ ping' = ping /\ UNCHANGED <<appl_reply, heard>>
        \/ ping' = done(R(ok).rc) /\ UNCHANGED <<appl_reply, heard>>
  BY DEF OpenTurn
<1>3. R(ok).rc \in Codes /\ "OK" \in Codes /\ "SEND_FAILED" \in Codes
  BY <1>1, AllocGood DEF Codes
<1>4. \A rc \in Codes : done(rc).ip = ping.ip \/ done(rc).rc # "OK"
  BY SentIsNoSuccess DEF IInv
<1>5. ASSUME NEW mac, Transmit(msg, mac, ok) PROVE HeardInv'
  BY <1>5 DEF Transmit, Latched, HeardInv
<1> HIDE DEF R, done
<1>6. ping'.ip = ping.ip \/ ping'.rc # "OK"
  BY <1>2, <1>3, <1>4
<1>7. HeardInv'
  BY <1>2, <1>5 DEF HeardInv
<1> QED BY <1>6, <1>7

LEMMA SendHeard ==
  ASSUME NetAssumption, IInv, HeardInv, NEW c, GoodCache(c), NEW below,
         NEW msg \in Message, Send(c, below, msg, ping)
  PROVE  HeardInv' /\ (ping'.ip = ping.ip \/ ping'.rc # "OK")
<1>1. CASE SendCheck(msg.ip) = "OK"
  BY <1>1, OpenTurnHeard DEF Send
<1>2. CASE SendCheck(msg.ip) # "OK"
  <2>1. SendCheck(msg.ip) \in Codes
    BY DEF SendCheck, Codes
  <2>2. /\ ping' = IF msg.kind = "echo_req" THEN Sent(ping, SendCheck(msg.ip)) ELSE ping
        /\ UNCHANGED <<appl_reply, heard>>
    BY <1>2 DEF Send
  <2>3. ping'.ip = ping.ip \/ ping'.rc # "OK"
    BY <2>1, <2>2, SentIsNoSuccess DEF IInv
  <2> QED BY <2>2, <2>3 DEF HeardInv
<1> QED BY <1>1, <1>2

\* The calls in progress send messages.
LEMMA MessagesSent ==
  ASSUME NetAssumption, IInv
  PROVE  /\ PingSend => EchoRequest(ping) \in Message
         /\ OpenPolled => Top.msg \in Message
         /\ \A f \in lan : Frame("unreach", f.ip, NoAddr, 0) \in Message
<1>1. ASSUME PingSend PROVE EchoRequest(ping) \in Message
  <2>1. ping.ip \in Addr /\ ping.size \in Nat
    BY <1>1 DEF PingSend, IInv, Pinging, PingSet
  <2> QED BY <2>1 DEF EchoRequest, Frame, Message, FrameSet
<1>2. ASSUME OpenPolled PROVE Top.msg \in Message
  <2>1. stack # <<>> /\ Top.fn = "open" /\ Len(stack) \in 1 .. Len(stack)
    BY <1>2, FrontGood DEF OpenPolled, IInv
  <2>2. Top \in Call
    BY <2>1 DEF IInv, GoodStack, Top
  <2>3. Top \in Open
    BY <2>1, <2>2 DEF Call
  <2>4. Top.msg.kind \in {"unreach", "echo_req"}
    BY <2>1 DEF IInv, GoodStack, Top
  <2> QED BY <2>3, <2>4 DEF Open, Message
<1>3. \A f \in lan : Frame("unreach", f.ip, NoAddr, 0) \in Message
  BY DEF IInv, GoodLan, Frame, FrameSet, Message
<1> QED BY <1>1, <1>2, <1>3

LEMMA PingPolledHeard ==
  ASSUME NetAssumption, IInv, HeardInv, PingPolled
  PROVE  HeardInv' /\ HeardIfOk
<1>1. HeardInv'
  BY DEF PingPolled, HeardInv
<1>2. CASE Matches
  <2>1. Pinging => appl_reply # NoReply
    BY <1>2 DEF Matches, NoReply, Pinging
  <2> QED BY <1>1, <1>2, <2>1 DEF Matches, HeardInv, HeardIfOk
<1>3. CASE ~Matches
  <2>1. \/ ping' = ping
        \/ \E rc \in Codes \ {"OK"} : ping' = [Idle EXCEPT !.rc = rc]
        \/ ping' = [ping EXCEPT !.retry = @ - 1, !.over = FALSE]
    <3>1. GivenUp(ping.compl) \in Codes \ {"OK"} /\ "CONTROL_C" \in Codes \ {"OK"}
      BY DEF IInv, PingSet, GivenUp, Codes
    <3> QED BY <1>3, <3>1 DEF PingPolled
  <2>2. ping'.ip = ping.ip \/ ping'.rc # "OK"
    <3>1. [ping EXCEPT !.retry = @ - 1, !.over = FALSE].ip = ping.ip
      BY DEF IInv, PingSet
    <3>2. \A rc \in Codes \ {"OK"} : [Idle EXCEPT !.rc = rc].rc # "OK"
      BY DEF Idle
    <3> QED BY <2>1, <3>1, <3>2
  <2> QED BY <1>1, <2>2 DEF HeardIfOk, Pinging
<1> QED BY <1>2, <1>3

LEMMA StepHeard ==
  ASSUME NetAssumption, IInv, HeardInv, NetNext
  PROVE  HeardInv' /\ HeardIfOk
<1> USE DEF IInv, HeardIfOk, Pinging
<1>1. CASE PingSend
  BY <1>1, SendHeard, MessagesSent DEF PingSend
<1>2. CASE OpenPolled
  BY <1>2, OpenTurnHeard, MessagesSent, SweptGood DEF OpenPolled
<1>3. CASE ReceiveNoPort
  BY <1>3, SendHeard, MessagesSent, MetIsInLan DEF ReceiveNoPort
<1>4. CASE ReceiveEchoReply
  BY <1>4 DEF ReceiveEchoReply, HeardInv, Latched
<1>5. CASE ReceiveAnswered \/ ReceiveArpReply \/ HostAnswers \/ HostSends
  BY <1>5 DEF ReceiveAnswered, ReceiveArpReply, HostAnswers, HostSends, HeardInv
<1>6. CASE PingStart
  BY <1>6 DEF PingStart, HeardInv, Pinging
<1>7. CASE Tick \/ ClockFalls
  <2>1. ping'.ip = ping.ip
    BY <1>7 DEF Tick, ClockFalls, PingSet
  <2> QED BY <1>7, <2>1 DEF Tick, ClockFalls, HeardInv
<1> QED BY <1>1, <1>2, <1>3, <1>4, <1>5, <1>6, <1>7, PingPolledHeard
        DEF NetNext, Board, Environment

\* NET_ping reports success only when the host was heard during this ping, whatever
\* an earlier one latched and however its sends fare (NET_ping, NET_APPL_echo_reply).
THEOREM SuccessHeard ==
  ASSUME NetAssumption
  PROVE  NetSpec => SuccessIsHeard
<1>1. NetInit => HeardInv
  BY DEF NetInit, HeardInv
<1>2. IInv /\ HeardInv /\ [NetNext]_netvars => HeardInv'
  BY StepHeard DEF HeardInv, netvars
<1>3. IInv /\ HeardInv /\ [NetNext]_netvars => [HeardIfOk]_netvars
  BY StepHeard
<1> QED BY <1>1, <1>2, <1>3, Invariance, PTL DEF NetSpec, SuccessIsHeard

-----------------------------------------------------------------------------
(* How long an entry that has expired stays. *)

\* No entry has been expired for longer than since the scan before one that is due
\* in n seconds.
Young(c, n) == \A i \in Saps : c[i].state # "closed" => c[i].timeout >= 1 - PollTimeout + n

SpentSet == [pings : Nat, unasked : Nat, faults : Nat]
SpentOK == spent \in SpentSet

AgeInv ==
    /\ SpentOK
    /\ spent.faults = 0 =>
          /\ next_poll_time <= PollTimeout
          /\ next_poll_time > 0 => Young(sap_context, next_poll_time)

LEMMA Spending ==
  ASSUME SpentOK
  PROVE  /\ spent.faults \in Nat
         /\ Spend("pings") \in SpentSet /\ Spend("pings").faults = spent.faults
         /\ Spend("unasked") \in SpentSet /\ Spend("unasked").faults = spent.faults
         /\ Spend("faults") \in SpentSet /\ Spend("faults").faults = spent.faults + 1
BY DEF SpentOK, SpentSet, Spend

\* A request that was sent leaves its entry time.
LEMMA AllocYoung ==
  ASSUME NetAssumption, NEW c, GoodCache(c), NEW ip \in Addr \ Far,
         NEW n \in 0 .. PollTimeout, Young(c, n)
  PROVE  Young(AllocSap(c, ip, TRUE).cache, n)
<1> DEFINE held == Held(c, ip)
           i == IF held # {} THEN First(held) ELSE Victim(c)
           asked == IF held # {} THEN c
                    ELSE [c EXCEPT ![i] = [@ EXCEPT !.ip = ip, !.mac = NoAddr,
                                                    !.state = "allocated"]]
           timed(d) == [d EXCEPT ![i].timeout = SapTimeout]
           r == AllocSap(c, ip, TRUE)
<1>1. held \subseteq Saps
  BY DEF Held
<1>2. i \in Saps /\ c \in [Saps -> Entry]
  BY <1>1, FirstIsOne, VictimExists DEF GoodCache
<1> HIDE DEF i
<1>3. \A k \in Saps : k # i => asked[k] = c[k]
  BY <1>2
<1>4. asked \in [Saps -> Entry]
  <2> DEFINE e == [c[i] EXCEPT !.ip = ip, !.mac = NoAddr, !.state = "allocated"]
  <2>1. c[i] \in Entry /\ ip \in Addr
    BY <1>2
  <2>2. e \in Entry
    BY <2>1, EntryAsked
  <2>3. asked = IF held # {} THEN c ELSE [c EXCEPT ![i] = e]
    BY DEF i
  <2> HIDE DEF e, asked
  <2> QED BY <1>2, <2>2, <2>3
<1> HIDE DEF asked
<1>5. /\ Requested(asked, ip) \in [Saps -> Entry]
      /\ \A k \in Saps : /\ Requested(asked, ip)[k].timeout = asked[k].timeout
                         /\ Requested(asked, ip)[k].state = "closed" <=> asked[k].state = "closed"
  <2> DEFINE d == Answered(asked, Me, Me)
  <2>1. \A k \in Saps : /\ d[k] \in Entry /\ d[k].timeout = asked[k].timeout
                        /\ d[k].state = "closed" <=> asked[k].state = "closed"
    <3> TAKE k \in Saps
    <3>1. asked[k] \in Entry /\ Me \in Addr
      BY <1>4, Addresses
    <3>2. d[k] = IF asked[k].state = "allocated" /\ asked[k].ip = Me
                 THEN [asked[k] EXCEPT !.state = "resoluted", !.mac = Me] ELSE asked[k]
      BY DEF Answered
    <3> HIDE DEF d
    <3>3. LET f == [asked[k] EXCEPT !.state = "resoluted", !.mac = Me]
          IN  f \in Entry /\ f.timeout = asked[k].timeout /\ f.state = "resoluted"
      BY <3>1, EntryAnswered DEF Entry
    <3>4. CASE asked[k].state = "allocated" /\ asked[k].ip = Me
      BY <3>2, <3>3, <3>4
    <3>5. CASE ~(asked[k].state = "allocated" /\ asked[k].ip = Me)
      BY <3>1, <3>2, <3>5
    <3> QED BY <3>4, <3>5
  <2>2. d \in [Saps -> Entry]
    BY <2>1 DEF Answered
  <2>3. Requested(asked, ip) = asked \/ Requested(asked, ip) = d
    BY DEF Requested
  <2> HIDE DEF d
  <2> QED BY <1>4, <2>1, <2>2, <2>3
<1>6. ASSUME NEW d \in [Saps -> Entry],
             \A k \in Saps : k # i => /\ d[k].timeout = c[k].timeout
                                      /\ d[k].state = "closed" <=> c[k].state = "closed"
      PROVE  Young(timed(d), n)
  <2> SUFFICES ASSUME NEW k \in Saps, timed(d)[k].state # "closed"
               PROVE  timed(d)[k].timeout >= 1 - PollTimeout + n
    BY DEF Young
  <2>1. CASE k = i
    <3>1. d[i] \in Entry
      BY <1>2
    <3>2. timed(d)[i].timeout = SapTimeout
      BY <1>2, <3>1 DEF Entry
    <3> QED BY <2>1, <3>2, Addresses DEF NetAssumption
  <2>2. CASE k # i
    <3>1. timed(d)[k] = d[k]
      BY <1>2, <2>2
    <3>2. c[k].state # "closed" /\ d[k].timeout = c[k].timeout
      BY <1>6, <2>2, <3>1
    <3> HIDE DEF timed
    <3> QED BY <3>1, <3>2 DEF Young
  <2> QED BY <2>1, <2>2
<1>7. r.cache = timed(c) \/ r.cache = timed(Requested(asked, ip))
  BY DEF AllocSap, i, asked
<1>8. Young(timed(c), n) /\ Young(timed(Requested(asked, ip)), n)
  BY <1>2, <1>3, <1>5, <1>6
<1> HIDE DEF timed, r
<1>9. Young(r.cache, n)
  BY <1>7, <1>8
<1> QED BY <1>9 DEF r

LEMMA OpenTurnYoung ==
  ASSUME NetAssumption, SpentOK, NEW c, GoodCache(c), NEW below, NEW loop, NEW p,
         NEW msg \in Message, OpenTurn(c, below, loop, msg, p)
  PROVE  /\ SpentOK' /\ spent'.faults >= spent.faults
         /\ spent'.faults = spent.faults =>
               \A n \in 0 .. PollTimeout : Young(c, n) => Young(sap_context', n)
<1>1. msg.ip \in Addr /\ Hop(msg.ip) \in Addr \ Far
  BY Addresses DEF Message, FrameSet
<1>2. \/ /\ sap_context' = AllocSap(c, Hop(msg.ip), TRUE).cache
         /\ spent' = spent
      \/ spent' = Spend("faults")
  BY DEF OpenTurn
<1>3. CASE /\ sap_context' = AllocSap(c, Hop(msg.ip), TRUE).cache
           /\ spent' = spent
  <2>1. SpentOK' /\ spent'.faults = spent.faults
    BY <1>3, Spending DEF SpentOK
  <2>2. spent.faults >= spent.faults
    BY Spending
  <2> QED BY <1>1, <1>3, <2>1, <2>2, AllocYoung
<1>4. CASE spent' = Spend("faults")
  <2>1. SpentOK' /\ spent'.faults = spent.faults + 1
    BY <1>4, Spending DEF SpentOK
  <2> QED BY <2>1, Spending
<1> QED BY <1>2, <1>3, <1>4

LEMMA SendYoung ==
  ASSUME NetAssumption, SpentOK, NEW c, GoodCache(c), NEW below, NEW p,
         NEW msg \in Message, Send(c, below, msg, p)
  PROVE  /\ SpentOK' /\ spent'.faults >= spent.faults
         /\ spent'.faults = spent.faults =>
               \A n \in 0 .. PollTimeout : Young(c, n) => Young(sap_context', n)
<1>1. CASE SendCheck(msg.ip) = "OK"
  BY <1>1, OpenTurnYoung DEF Send
<1>2. CASE SendCheck(msg.ip) # "OK"
  BY <1>2, Spending DEF Send, SpentOK
<1> QED BY <1>1, <1>2

LEMMA SweptYoung ==
  ASSUME NetAssumption, IInv, AgeInv, spent.faults = 0
  PROVE  NextPollTime \in 0 .. PollTimeout /\ Young(Swept(sap_context), NextPollTime)
<1>1. \A i \in Saps : sap_context[i] \in Entry /\ sap_context[i].timeout \in Int
  BY Addresses DEF IInv, GoodCache, Entry
<1>2. CASE ScanDue
  <2>1. NextPollTime = PollTimeout
    BY <1>2 DEF NextPollTime
  <2>2. \A i \in Saps : Swept(sap_context)[i].state # "closed"
                        => Swept(sap_context)[i].timeout > 0
    BY <1>1, <1>2 DEF Swept, ClosedSap
  <2>3. \A i \in Saps : Swept(sap_context)[i].state # "closed"
                        => Swept(sap_context)[i] = sap_context[i]
    BY <1>2 DEF Swept, ClosedSap
  <2>4. ASSUME NEW i \in Saps, Swept(sap_context)[i].state # "closed"
        PROVE  Swept(sap_context)[i].timeout >= 1 - PollTimeout + PollTimeout
    BY <1>1, <2>2, <2>3, <2>4, Addresses
  <2> QED BY <2>1, <2>4, Addresses DEF Young
<1>3. CASE ~ScanDue
  <2>1. NextPollTime = next_poll_time /\ Swept(sap_context) = sap_context
    BY <1>3 DEF NextPollTime, Swept
  <2>2. next_poll_time \in 0 .. Never /\ next_poll_time # 0
    BY <1>3 DEF IInv, ScanDue
  <2> QED BY <2>1, <2>2, Addresses DEF AgeInv
<1> QED BY <1>2, <1>3

LEMMA PingPolledAge ==
  ASSUME NetAssumption, IInv, AgeInv, PingPolled
  PROVE  AgeInv' /\ AgedOut
<1>1. UNCHANGED spent /\ sap_context' = Swept(sap_context) /\ next_poll_time' = NextPollTime
  BY DEF PingPolled
<1>2. CASE spent.faults = 0
  <2>1. next_poll_time' \in 0 .. PollTimeout /\ Young(sap_context', next_poll_time')
    BY <1>1, <1>2, SweptYoung
  <2>2. GoodCache(sap_context')
    BY <1>1, SweptGood DEF IInv
  <2>3. \A i \in Saps : sap_context'[i].timeout \in Int
    BY <2>2, Addresses DEF GoodCache, Entry
  <2>4. \A i \in Saps : sap_context'[i].state # "closed" => sap_context'[i].timeout > -PollTimeout
    BY <2>1, <2>3, Addresses DEF Young
  <2> QED BY <1>1, <2>1, <2>4, Addresses DEF AgeInv, SpentOK, AgedOut
<1>3. CASE spent.faults # 0
  BY <1>1, <1>3 DEF AgeInv, SpentOK, AgedOut
<1> QED BY <1>2, <1>3

LEMMA OpenPolledAge ==
  ASSUME NetAssumption, IInv, AgeInv, OpenPolled
  PROVE  AgeInv' /\ AgedOut
<1>1. /\ OpenTurn(Swept(sap_context), Front(stack), Top.loop, Top.msg, ping)
      /\ next_poll_time' = NextPollTime
  BY DEF OpenPolled
<1>2. Top.msg \in Message /\ GoodCache(Swept(sap_context)) /\ SpentOK
  BY MessagesSent, SweptGood DEF IInv, AgeInv
<1>3. /\ SpentOK' /\ spent'.faults >= spent.faults
      /\ spent'.faults = spent.faults =>
            \A n \in 0 .. PollTimeout :
               Young(Swept(sap_context), n) => Young(sap_context', n)
  BY <1>1, <1>2, OpenTurnYoung
<1>4. spent.faults \in Nat
  BY <1>2, Spending
<1>5. spent'.faults \in Nat
  BY <1>3 DEF SpentOK, SpentSet
<1>6. CASE spent'.faults = 0
  <2>1. spent.faults = 0
    BY <1>3, <1>4, <1>6
  <2>2. next_poll_time' \in 0 .. PollTimeout /\ Young(sap_context', next_poll_time')
    BY <1>1, <1>3, <1>6, <2>1, SweptYoung
  <2>3. \A i \in Saps : sap_context'[i].timeout \in Int
    BY OpenPolledInv, Addresses DEF IInv, GoodCache, Entry
  <2>4. \A i \in Saps : sap_context'[i].state # "closed" => sap_context'[i].timeout > -PollTimeout
    BY <2>2, <2>3, Addresses DEF Young
  <2> QED BY <1>3, <2>2, <2>4, Addresses DEF AgeInv, AgedOut
<1>7. CASE spent'.faults # 0
  BY <1>3, <1>7 DEF AgeInv, AgedOut
<1> QED BY <1>6, <1>7

\* A message sent from somewhere else than NET_poll's callers.
LEMMA SendAge ==
  ASSUME NetAssumption, IInv, AgeInv, NEW below, NEW msg \in Message,
         Send(sap_context, below, msg, ping), UNCHANGED next_poll_time
  PROVE  AgeInv'
<1>1. GoodCache(sap_context) /\ SpentOK
  BY DEF IInv, AgeInv
<1>2. /\ SpentOK' /\ spent'.faults >= spent.faults
      /\ spent'.faults = spent.faults =>
            \A n \in 0 .. PollTimeout : Young(sap_context, n) => Young(sap_context', n)
  BY <1>1, SendYoung
<1>3. spent.faults \in Nat
  BY <1>1, Spending
<1>4. spent'.faults \in Nat
  BY <1>2 DEF SpentOK, SpentSet
<1>5. spent'.faults = 0 => spent.faults = 0
  BY <1>2, <1>3, <1>4
<1>6. next_poll_time \in Nat
  BY Addresses DEF IInv
<1> QED BY <1>2, <1>5, <1>6, Addresses DEF AgeInv

LEMMA TickAge ==
  ASSUME NetAssumption, IInv, AgeInv, Tick
  PROVE  AgeInv'
<1>1. UNCHANGED spent /\ next_poll_time' = Less(next_poll_time, 0)
  BY DEF Tick
<1>2. \A i \in Saps : /\ sap_context'[i].timeout = Less(sap_context[i].timeout, -PollTimeout)
                      /\ sap_context'[i].state = sap_context[i].state
                      /\ sap_context[i].timeout \in -PollTimeout .. Never
  BY DEF Tick, IInv, GoodCache, Entry
<1>3. CASE spent.faults = 0
  <2>1. next_poll_time \in 0 .. PollTimeout
    BY <1>3, Addresses DEF AgeInv, IInv
  <2>2. next_poll_time < Never /\ PollTimeout \in Nat /\ Never \in Nat
    BY <2>1 DEF NetAssumption
  <2>3. /\ next_poll_time' \in 0 .. PollTimeout
        /\ next_poll_time' > 0 => next_poll_time = next_poll_time' + 1 /\ next_poll_time > 0
    BY <1>1, <2>1, <2>2 DEF Less
  <2>4. ASSUME next_poll_time' > 0, NEW i \in Saps, sap_context'[i].state # "closed"
        PROVE  sap_context'[i].timeout >= 1 - PollTimeout + next_poll_time'
    <3>1. sap_context[i].timeout >= 1 - PollTimeout + next_poll_time
      <4>1. next_poll_time > 0
        BY <2>3, <2>4
      <4>2. Young(sap_context, next_poll_time)
        BY <1>3, <4>1 DEF AgeInv
      <4>3. sap_context[i].state # "closed"
        BY <1>2, <2>4
      <4> QED BY <4>2, <4>3 DEF Young
    <3> QED BY <1>2, <2>1, <2>2, <2>3, <2>4, <3>1 DEF Less
  <2> QED BY <1>1, <2>3, <2>4, Addresses DEF AgeInv, SpentOK, Young
<1>4. CASE spent.faults # 0
  BY <1>1, <1>4 DEF AgeInv, SpentOK
<1> QED BY <1>3, <1>4

LEMMA ReceiveAge ==
  ASSUME NetAssumption, IInv, AgeInv, ReceiveAnswered \/ ReceiveArpReply
  PROVE  AgeInv'
<1>1. CASE ReceiveAnswered
  <2>1. UNCHANGED <<sap_context, next_poll_time>>
    BY <1>1 DEF ReceiveAnswered
  <2>2. \/ spent' = spent
        \/ spent' = Spend("faults")
    BY <1>1 DEF ReceiveAnswered, Reply
  <2>3. spent.faults \in Nat
    BY Spending DEF AgeInv
  <2>4. CASE spent' = spent
    <3>1. SpentOK' /\ spent'.faults = spent.faults
      BY <2>3, <2>4, Spending DEF SpentOK, AgeInv
    <3> QED BY <2>1, <3>1 DEF AgeInv, Young
  <2>5. CASE spent' = Spend("faults")
    <3>1. SpentOK' /\ spent'.faults = spent.faults + 1
      BY <2>5, Spending DEF SpentOK, AgeInv
    <3> QED BY <2>3, <3>1 DEF AgeInv
  <2> QED BY <2>2, <2>4, <2>5
<1>2. CASE ReceiveArpReply
  <2>1. PICK f : sap_context' = Answered(sap_context, f.ip, f.mac)
    BY <1>2 DEF ReceiveArpReply
  <2>2. ASSUME NEW i \in Saps, sap_context'[i].state # "closed"
        PROVE  /\ sap_context'[i].timeout = sap_context[i].timeout
               /\ sap_context[i].state # "closed"
    <3>1. sap_context[i] \in Entry
      BY DEF IInv, GoodCache
    <3>2. sap_context'[i] = sap_context[i]
          \/ /\ sap_context[i].state = "allocated"
             /\ sap_context'[i] = [sap_context[i] EXCEPT !.state = "resoluted", !.mac = f.mac]
      BY <2>1 DEF Answered
    <3>3. [sap_context[i] EXCEPT !.state = "resoluted", !.mac = f.mac].timeout
             = sap_context[i].timeout
      BY <3>1 DEF Entry
    <3>4. CASE sap_context'[i] = sap_context[i]
      BY <2>2, <3>4
    <3>5. CASE /\ sap_context[i].state = "allocated"
               /\ sap_context'[i] = [sap_context[i] EXCEPT !.state = "resoluted", !.mac = f.mac]
      <4>1. sap_context'[i].timeout = sap_context[i].timeout
        BY <3>3, <3>5
      <4> QED BY <3>5, <4>1
    <3> QED BY <3>2, <3>4, <3>5
  <2>3. \A n : Young(sap_context, n) => Young(sap_context', n)
    BY <2>2 DEF Young
  <2> QED BY <1>2, <2>3 DEF ReceiveArpReply, AgeInv, SpentOK
<1> QED BY <1>1, <1>2

LEMMA StepAge ==
  ASSUME NetAssumption, IInv, AgeInv, NetNext
  PROVE  AgeInv' /\ (PingPolled \/ OpenPolled => AgedOut)
<1>1. CASE PingPolled \/ OpenPolled
  BY <1>1, PingPolledAge, OpenPolledAge
<1>2. ASSUME ~(PingPolled \/ OpenPolled) PROVE AgeInv'
  <2>1. CASE PingSend
    BY <2>1, SendAge, MessagesSent DEF PingSend
  <2>2. CASE ReceiveNoPort
    BY <2>2, SendAge, MessagesSent, MetIsInLan DEF ReceiveNoPort
  <2>3. CASE ReceiveAnswered \/ ReceiveArpReply
    BY <2>3, ReceiveAge
  <2>4. CASE ReceiveEchoReply \/ HostAnswers
    BY <2>4 DEF ReceiveEchoReply, HostAnswers, AgeInv, SpentOK, Young
  <2>5. CASE PingStart \/ HostSends
    <3>1. \/ spent' = Spend("pings")
          \/ spent' = Spend("unasked")
      BY <2>5 DEF PingStart, HostSends
    <3>2. SpentOK' /\ spent'.faults = spent.faults
      BY <3>1, Spending DEF AgeInv, SpentOK
    <3> QED BY <2>5, <3>2 DEF PingStart, HostSends, AgeInv, Young
  <2>6. CASE Tick
    BY <2>6, TickAge
  <2>7. CASE ClockFalls
    <3>1. spent.faults \in Nat
      BY Spending DEF AgeInv
    <3>2. SpentOK' /\ spent'.faults = spent.faults + 1
      BY <2>7, Spending DEF ClockFalls, SpentOK, AgeInv
    <3> QED BY <3>1, <3>2 DEF AgeInv
  <2> QED BY <1>2, <2>1, <2>2, <2>3, <2>4, <2>5, <2>6, <2>7 DEF NetNext, Board, Environment
<1> QED BY <1>1, <1>2

\* While the clock does not fall back and the driver takes every frame, NET_poll
\* leaves no entry in the ARP cache that expired PollTimeout seconds ago
\* (NET_ARP_poll), whatever NET_ARP_open allocates between two scans.
THEOREM AgesOut ==
  ASSUME NetAssumption
  PROVE  NetSpec => EntriesAgeOut
<1>1. NetInit => AgeInv
  <2> SUFFICES ASSUME NetInit PROVE AgeInv
    OBVIOUS
  <2>1. spent \in SpentSet
    BY DEF NetInit, SpentSet
  <2> QED BY <2>1, Addresses DEF NetInit, AgeInv, SpentOK
<1>2. IInv /\ AgeInv /\ [NetNext]_netvars => AgeInv'
  BY StepAge DEF AgeInv, SpentOK, Young, netvars
<1>3. IInv /\ AgeInv /\ [NetNext]_netvars => [AgedOut]_netvars
  BY StepAge DEF AgedOut
<1> QED BY <1>1, <1>2, <1>3, Invariance, PTL DEF NetSpec, EntriesAgeOut
=============================================================================
