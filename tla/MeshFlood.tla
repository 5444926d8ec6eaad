------------------------------- MODULE MeshFlood -------------------------------
(***************************************************************************)
(* Flooding over several badges: what a badge puts on the air (adverts,    *)
(* telemetry requests and their answers, in meshcore.rs), with which route *)
(* and region, and what the badges that hear it relay                      *)
(* (src/fw/mesh/repeater.rs).                                              *)
(*                                                                         *)
(* A packet is its number: payload, type and transport code with it.  What *)
(* a relay changes is the path.  A transmission is heard at once by some   *)
(* of the badges in range.                                                 *)
(***************************************************************************)
EXTENDS Naturals, Sequences, SequencesExt, FiniteSets

CONSTANTS
    Badges,
    Links,        \* sets of two badges in range of each other
    Repeaters,    \* badges with LORA_CLIENT_REPEAT
    RegionOf,     \* badge -> its flood scope key, or NoRegion
    NoRegion,
    TelemMode,    \* badge -> TELEMETRY_MODE_BASE: 0 deny, 1 by flag, 2 all
    Flagged,      \* badge -> contacts whose flag grants telemetry
    Contacts,     \* badge -> the contacts it has
    KnownRoutes,  \* <<badge, contact>> -> out_path, for the contacts with one
    RelayCap,     \* capacity of RELAY_SEEN, 32 in the badge
    FloodTxCap,   \* capacity of TX_CHANNEL, 16 in the badge
    MaxHops,      \* 63 in the badge
    MaxPackets    \* bound: packets originated

ASSUME FloodConstants ==
    /\ Links \subseteq {{a, b} : a, b \in Badges} /\ Repeaters \subseteq Badges
    /\ {RelayCap, FloodTxCap, MaxHops} \subseteq Nat \ {0} /\ MaxPackets \in Nat
    /\ TelemMode \in [Badges -> 0..2]
    /\ Flagged \in [Badges -> SUBSET Badges] /\ Contacts \in [Badges -> SUBSET Badges]

VARIABLES
    pkts,      \* packet -> [kind, from, to, flood, region, mask]
    relayq,    \* badge -> copies to transmit, [pkt, path]
    relaySeen, \* badge -> RELAY_SEEN, oldest first
    sentBy     \* history: <<badge, packet>> -> times it was on the air

floodVars == <<pkts, relayq, relaySeen, sentBy>>

FloodInit ==
    /\ pkts = << >>
    /\ relayq = [b \in Badges |-> << >>]
    /\ relaySeen = [b \in Badges |-> << >>]
    /\ sentBy = [x \in Badges \X (1..MaxPackets) |-> 0]

Direct == [flood |-> FALSE, region |-> NoRegion]
(* flood_route: a badge with a scope key floods for its region only. *)
FloodRoute(b) == [flood |-> TRUE, region |-> RegionOf[b]]
(* send_binary, handle_telem_request_recv: the stored route, else a flood. *)
RouteTo(b, c) == IF <<b, c>> \in DOMAIN KnownRoutes THEN Direct ELSE FloodRoute(b)

Packet(kind, from, to, route, mask) ==
    [kind |-> kind, from |-> from, to |-> to, mask |-> mask,
     flood |-> route.flood, region |-> route.region]
Copy(p, path) == [pkt |-> p, path |-> path]

(* tx_send: a full queue drops the request. *)
Queued(q, c) == IF Len(q) < FloodTxCap THEN Append(q, c) ELSE q

Originate(b, packet) ==
    /\ Len(pkts) < MaxPackets
    /\ pkts' = Append(pkts, packet)
    /\ relayq' = [relayq EXCEPT ![b] = Queued(@, Copy(Len(pkts) + 1, << >>))]
    /\ UNCHANGED <<relaySeen, sentBy>>

(* The ticker or the menu asks for an advert: flooded, or to the neighbours *)
(* only.  Control data of the companion app goes to the neighbours too.     *)
Advert(b) == Originate(b, Packet("advert", b, b, FloodRoute(b), 0))
ZeroHop(b, kind) == Originate(b, Packet(kind, b, b, Direct, 0))
(* A telemetry request; mask 1 asks for no base telemetry. *)
AskContact(b, c, mask) == c \in Contacts[b]
                          /\ Originate(b, Packet("req", b, c, RouteTo(b, c), mask))
SendTxt(b, c) == c \in Contacts[b] /\ Originate(b, Packet("txt", b, c, RouteTo(b, c), 0))

-----------------------------------------------------------------------------
(* What a badge does with a copy it hears: the region filter, then relaying,*)
(* then the handler of its type.                                            *)

InRegion(b, p) == ~p.flood \/ p.region = NoRegion
                  \/ RegionOf[b] \in {NoRegion, p.region}

RelayedBefore(b, c) == c.pkt \in ToSet(relaySeen[b])
(* A plausible slip: the packet is noted when its relay goes out, not when  *)
(* it is queued, so that copies arriving meanwhile are relayed as well.     *)
ToRelayAlways(b, c) == b \in Repeaters /\ pkts[c.pkt].flood
ToRelay(b, c) == b \in Repeaters /\ pkts[c.pkt].flood /\ ~RelayedBefore(b, c)

Remembered(ring, p) == Append(IF Len(ring) = RelayCap THEN Tail(ring) ELSE ring, p)

(* try_relay: noted before the hop limit is looked at. *)
Relayed(b, c) ==
    IF ToRelay(b, c) /\ Len(c.path) < MaxHops
    THEN Queued(relayq[b], Copy(c.pkt, Append(c.path, b))) ELSE relayq[b]

(* handle_req_recv: who asks must be a contact, and allowed to. *)
Granted(b, p) ==
    /\ \/ TelemMode[b] = 2
       \/ TelemMode[b] = 1 /\ p.from \in Flagged[b]
    /\ p.mask = 0
Asked(b, p) == p.kind = "req" /\ Granted(b, p)
(* try_handle_txt_msg: every copy of a message is acknowledged. *)
Acknowledges(p) == p.kind = "txt"
Replies(b, p) ==
    /\ p.to = b /\ p.from \in Contacts[b] /\ (Asked(b, p) \/ Acknowledges(p))
    /\ Len(pkts) < MaxPackets

(* A transmission, and the badges R that hear it.  The answer to a request  *)
(* or message goes out from the handler itself, ahead of the queue.         *)
Relays(b, R) ==
    LET c == Head(relayq[b])
        p == pkts[c.pkt]
        hear == {r \in R : InRegion(r, p)}
        asked == {r \in hear : Replies(r, p)}
        answer == Copy(Len(pkts) + 1, << >>)
    IN  /\ relayq[b] # << >>
        /\ sentBy' = [sentBy EXCEPT ![<<b, c.pkt>>] = @ + 1]
        /\ relaySeen' = [r \in Badges |->
               IF r \in hear /\ ToRelay(r, c) THEN Remembered(relaySeen[r], c.pkt)
               ELSE relaySeen[r]]
        /\ pkts' = pkts \o SetToSeq({Packet("answer", r, p.from, RouteTo(r, p.from), 0) : r \in asked})
        /\ relayq' = [r \in Badges |->
               IF r = b THEN Tail(relayq[b])
               ELSE (IF r \in asked THEN <<answer>> ELSE << >>)
                    \o (IF r \in hear THEN Relayed(r, c) ELSE relayq[r])]

Near(b) == {r \in Badges \ {b} : {b, r} \in Links}

FloodNext ==
    \E b \in Badges :
        \/ Advert(b)
        \/ \E k \in {"advert", "control"} : ZeroHop(b, k)
        \/ \E c \in Badges \ {b}, mask \in {0, 1} : AskContact(b, c, mask)
        \/ \E c \in Badges \ {b} : SendTxt(b, c)
        \/ \E R \in SUBSET Near(b) : Relays(b, R)

FloodSpec == FloodInit /\ [][FloodNext]_floodVars

-----------------------------------------------------------------------------
(* Properties. *)

(* A flood dies out: while RELAY_SEEN has not wrapped a badge transmits a   *)
(* packet once, its origin at most once more when it hears the packet back, *)
(* and a packet that is not a flood stays with its sender                   *)
(* (repeater.rs:3-5, "prevents ping-pong loops"; 41-54).                    *)
FloodsDieOut ==
    Len(pkts) <= RelayCap =>
        \A b \in Badges, p \in DOMAIN pkts :
            sentBy[<<b, p>>] <= (IF b = pkts[p].from THEN 1 ELSE 0)
                            + (IF pkts[p].flood /\ b \in Repeaters THEN 1 ELSE 0)

(* A packet of a region is never carried on by a badge of another one, over *)
(* however many badges without a region it travels (meshcore.rs:375-410).   *)
RegionsStayApart ==
    \A b \in Badges : \A i \in DOMAIN relayq[b] :
        LET p == pkts[relayq[b][i].pkt]
        IN  p.region # NoRegion => RegionOf[b] \in {NoRegion, p.region}

(* The path of every copy names the badges it really came through, none     *)
(* twice, and is never longer than a packet can say (repeater.rs:56-68).    *)
PathsAreWalks ==
    Len(pkts) <= RelayCap =>
        \A b \in Badges : \A i \in DOMAIN relayq[b] :
            LET path == relayq[b][i].path
                walk == IF path = << >> THEN path ELSE <<pkts[relayq[b][i].pkt].from>> \o path
            IN  /\ Len(path) <= MaxHops /\ IsInjective(path)
                /\ \A k \in 1..Len(walk) - 1 : {walk[k], walk[k + 1]} \in Links
                /\ path # << >> => Last(path) = b

(* All of it: floods end, keep to their region and tell the way they came.  *)
FloodsAreSound == FloodsDieOut /\ RegionsStayApart /\ PathsAreWalks
=============================================================================
