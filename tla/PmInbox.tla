------------------------------- MODULE PmInbox -------------------------------
(***************************************************************************)
(* The private-message inbox of the badge (src/fw/mesh/pm_inbox.rs): a     *)
(* ring of messages in RAM, a read cursor per peer, the unread badge of    *)
(* the main screen, the inbox and thread screens, and the delivery marker  *)
(* of a sent message, which the transmitter (meshcore.rs send_txt_msg) and *)
(* the acknowledgement handler (handle_ack_recv) write by searching the    *)
(* ring.  A message's text is its identity, drawn from a counter; the      *)
(* acknowledgement hash of message i is i, and 0 is "not yet sent".        *)
(***************************************************************************)
EXTENDS Naturals, Sequences, SequencesExt, FiniteSets

CONSTANTS
    PmPeers,        \* the contacts that write and are written to
    MaxEntries,     \* capacity of the ring, 32 in the badge
    ReadCursorsCap, \* capacity of the list of read cursors, 16 in the badge
    VisibleRows,    \* rows of the inbox, 7 in the badge
    ThreadLines,    \* lines of a thread, 8 in the badge
    AckWindow,      \* seconds until an unacknowledged message counts as failed
    TxQueueCap,     \* capacity of TX_CHANNEL, 16 in the badge
    MaxPms,         \* bound: messages written or received in a behaviour
    MaxSeconds,     \* bound: seconds that pass
    MaxTxErrors     \* bound: transmissions that fail

ASSUME PmConstants ==
    /\ {MaxEntries, ReadCursorsCap, VisibleRows, ThreadLines, TxQueueCap} \subseteq Nat \ {0}
    /\ {AckWindow, MaxPms, MaxSeconds, MaxTxErrors} \subseteq Nat
    /\ IsFiniteSet(PmPeers)

VARIABLES
    inbox,      \* INBOX: the entries in the order the vector holds them
    cursors,    \* READ_CURSORS: [peer, at], the second of the last reading
    unread,     \* UNREAD_COUNT
    screen,     \* BROWSER: mode ("inbox" or the peer of the thread), cursor, scrolls
    compose,    \* PM_COMPOSE_TARGET while the keyboard is open
    pmAir,      \* the private messages of TX_CHANNEL
    pendingAck, \* PENDING_ACK: the hash of the last message transmitted, 0 = none
    pmNow,      \* embassy_time::Instant::now() in seconds
    written,    \* history: who message i went to or came from
    transmitted,\* history: the messages that were on the air
    acked,      \* history: the messages whose acknowledgement arrived
    opened,     \* history: received messages whose conversation was opened since
    txErrors    \* failed transmissions so far

pmVars == <<inbox, cursors, unread, screen, compose, pmAir, pendingAck, pmNow,
            written, transmitted, acked, opened, txErrors>>

NoPeer == "none"
Entries == ToSet(inbox)
Incoming(e) == e.dir = "in"
Unstamped(e) == e.dir = "out" /\ e.delivery = "sent" /\ e.hash = 0

PmInit ==
    /\ inbox = << >> /\ cursors = << >> /\ unread = 0
    /\ screen = [mode |-> "inbox", cursor |-> 0, scroll |-> 0, line |-> 0]
    /\ compose = NoPeer /\ pmAir = << >> /\ pendingAck = 0 /\ pmNow = 1
    /\ written = << >> /\ transmitted = {} /\ acked = {} /\ opened = {} /\ txErrors = 0

-----------------------------------------------------------------------------
(* The ring. *)

(* read_cursor: when the peer's thread was last opened, 0 if that is forgotten. *)
ReadCursor(p) == IF \E c \in ToSet(cursors) : c.peer = p
                 THEN (CHOOSE c \in ToSet(cursors) : c.peer = p).at ELSE 0

(* An entry counts as unread while it is younger than its peer's cursor. *)
IsUnread(e) == Incoming(e) /\ e.at > ReadCursor(e.peer)

(* The first entry with the smallest time: the victim of a full ring. *)
Oldest(s) == CHOOSE i \in DOMAIN s :
    \A j \in DOMAIN s : s[i].at < s[j].at \/ (s[i].at = s[j].at /\ i <= j)

(* Vec::swap_remove: the last entry takes the place of the removed one. *)
SwapRemove(s, i) == SubSeq([s EXCEPT ![i] = s[Len(s)]], 1, Len(s) - 1)

Room(s) == IF Len(s) = MaxEntries THEN SwapRemove(s, Oldest(s)) ELSE s
(* A plausible slip: any evicted message that was received counts. *)
EvictedIncoming(s) == IF Len(s) = MaxEntries /\ Incoming(s[Oldest(s)]) THEN 1 ELSE 0
(* What evicting costs the badge: one, if the victim was unread. *)
EvictedUnread(s) == IF Len(s) = MaxEntries /\ IsUnread(s[Oldest(s)]) THEN 1 ELSE 0

Minus(a, b) == IF a > b THEN a - b ELSE 0

PushEntry(e, bump) ==
    /\ inbox' = Append(Room(inbox), e)
    /\ unread' = Minus(unread, EvictedUnread(inbox)) + bump

(* A private message is received: note_incoming.  A copy of a message that *)
(* was already received is a message like any other.                       *)
PmReceived(p) ==
    /\ Len(written) < MaxPms
    /\ PushEntry([peer |-> p, dir |-> "in", at |-> pmNow, delivery |-> "delivered",
                  hash |-> 0, id |-> Len(written) + 1], 1)
    /\ written' = Append(written, p)
    /\ UNCHANGED <<cursors, screen, compose, pmAir, pendingAck, pmNow, transmitted,
                   acked, opened, txErrors>>

(* The keyboard is submitted: the message enters the ring, then the queue, *)
(* and is dropped there without a trace when the queue is full.            *)
SubmitPm ==
    /\ compose # NoPeer /\ Len(written) < MaxPms
    /\ PushEntry([peer |-> compose, dir |-> "out", at |-> pmNow, delivery |-> "sent",
                  hash |-> 0, id |-> Len(written) + 1], 0)
    /\ written' = Append(written, compose)
    /\ pmAir' = IF Len(pmAir) < TxQueueCap THEN Append(pmAir, Len(written) + 1) ELSE pmAir
    /\ compose' = NoPeer
    /\ UNCHANGED <<cursors, screen, pendingAck, pmNow, transmitted, acked, opened, txErrors>>

(* The keyboard is left, or submitted empty. *)
AbandonPm == /\ compose # NoPeer /\ compose' = NoPeer
             /\ UNCHANGED <<inbox, cursors, unread, screen, pmAir, pendingAck, pmNow,
                            written, transmitted, acked, opened, txErrors>>

-----------------------------------------------------------------------------
(* Delivery tracking. *)

(* A plausible slip: the search does not stop at the first entry it finds. *)
StampAll(p, h) ==
    [i \in DOMAIN inbox |-> IF inbox[i].peer = p /\ Unstamped(inbox[i])
                            THEN [inbox[i] EXCEPT !.hash = h] ELSE inbox[i]]

(* stamp_outgoing_ack: the last unstamped entry of the ring for that peer. *)
Stamp(p, h) ==
    LET hits == {i \in DOMAIN inbox : inbox[i].peer = p /\ Unstamped(inbox[i])}
    IN [i \in DOMAIN inbox |-> IF i \in hits /\ \A j \in hits : j <= i
                               THEN [inbox[i] EXCEPT !.hash = h] ELSE inbox[i]]

(* send_txt_msg succeeds: the hash is remembered and stamped into the ring. *)
TransmitPm ==
    /\ pmAir # << >>
    /\ pmAir' = Tail(pmAir) /\ pendingAck' = Head(pmAir)
    /\ inbox' = Stamp(written[Head(pmAir)], Head(pmAir))
    /\ transmitted' = transmitted \union {Head(pmAir)}
    /\ UNCHANGED <<cursors, unread, screen, compose, pmNow, written, acked, opened, txErrors>>

TransmitPmFails ==
    /\ pmAir # << >> /\ txErrors < MaxTxErrors
    /\ pmAir' = Tail(pmAir) /\ txErrors' = txErrors + 1
    /\ UNCHANGED <<inbox, cursors, unread, screen, compose, pendingAck, pmNow, written,
                   transmitted, acked, opened>>

(* handle_ack: the first entry still waiting for that hash is delivered. *)
MarkDelivered(h) ==
    LET hits == {i \in DOMAIN inbox : /\ inbox[i].dir = "out" /\ inbox[i].delivery = "sent"
                                      /\ inbox[i].hash = h}
    IN [i \in DOMAIN inbox |-> IF i \in hits /\ \A j \in hits : i <= j
                               THEN [inbox[i] EXCEPT !.delivery = "delivered"] ELSE inbox[i]]

(* handle_ack_recv: an acknowledgement arrives, perhaps again.  It frees the *)
(* single pending slot if it is the one waited for.                          *)
AckArrives(h) ==
    /\ h \in transmitted
    /\ pendingAck' = IF pendingAck = h THEN 0 ELSE pendingAck
    /\ inbox' = MarkDelivered(h)
    /\ acked' = acked \union {h}
    /\ UNCHANGED <<cursors, unread, screen, compose, pmAir, pmNow, written, transmitted,
                   opened, txErrors>>

-----------------------------------------------------------------------------
(* The screens. *)

(* Peers in the order of their youngest message; equal times keep the order *)
(* the ring gives them (the sort of the code is free to choose).            *)
LastAt(p) == CHOOSE t \in {e.at : e \in {x \in Entries : x.peer = p}} :
                 \A e \in {x \in Entries : x.peer = p} : e.at <= t
FirstIndex(p) == CHOOSE i \in DOMAIN inbox :
                     inbox[i].peer = p /\ \A j \in 1..i - 1 : inbox[j].peer # p
Before(p, q) == \/ LastAt(p) > LastAt(q)
                \/ LastAt(p) = LastAt(q) /\ FirstIndex(p) < FirstIndex(q)
Peers == {e.peer : e \in Entries}
PeerRow(p) == Cardinality({q \in Peers : Before(q, p)})

UnreadOf(p) == Cardinality({i \in DOMAIN inbox : inbox[i].peer = p /\ IsUnread(inbox[i])})

(* The peer's cursor is updated in place, or takes the place of the oldest *)
(* one when the list is full.                                              *)
WithCursor(c) ==
    IF \E i \in DOMAIN cursors : cursors[i].peer = c.peer
    THEN [i \in DOMAIN cursors |-> IF cursors[i].peer = c.peer THEN c ELSE cursors[i]]
    ELSE Append(IF Len(cursors) = ReadCursorsCap THEN SwapRemove(cursors, Oldest(cursors))
                ELSE cursors, c)

(* mark_read: the cursor moves to this second, the badge drops by what it covers. *)
MarkRead(p) ==
    /\ unread' = Minus(unread, UnreadOf(p))
    /\ cursors' = WithCursor([peer |-> p, at |-> pmNow])
    /\ opened' = opened \union {e.id : e \in {x \in Entries : x.peer = p /\ Incoming(x)}}

Clamp(i, n) == IF n = 0 THEN 0 ELSE IF i > n - 1 THEN n - 1 ELSE i

(* The cursor and scroll after Up and Down, which wrap around. *)
Moved(btn, c, s, n) ==
    CASE btn = "Up" /\ c > 0 -> [c |-> c - 1, s |-> IF c - 1 < s THEN c - 1 ELSE s]
      [] btn = "Up" /\ c = 0 /\ n > 0 -> [c |-> n - 1, s |-> Minus(n - 1, VisibleRows - 1)]
      [] btn = "Down" /\ c + 1 < n ->
             [c |-> c + 1, s |-> IF c + 1 >= s + VisibleRows THEN c + 2 - VisibleRows ELSE s]
      [] btn = "Down" /\ c + 1 >= n /\ n > 0 -> [c |-> 0, s |-> 0]
      [] OTHER -> [c |-> c, s |-> s]

InboxPress(btn, rows) ==
    /\ screen.mode = "inbox" /\ compose = NoPeer
    /\ \E c \in {Clamp(screen.cursor, rows)} :
       \E s \in {IF screen.scroll > c THEN c ELSE screen.scroll} :
          \/ /\ btn \in {"Up", "Down"}
             /\ \E to \in {Moved(btn, c, s, rows)} :
                   screen' = [screen EXCEPT !.cursor = to.c, !.scroll = to.s]
             /\ UNCHANGED <<unread, cursors, opened>>
          \/ /\ btn = "Fire"
             /\ \E p \in Peers :
                   /\ PeerRow(p) = c /\ MarkRead(p)
                   /\ screen' = [mode |-> p, cursor |-> c, scroll |-> s, line |-> 0]
    /\ UNCHANGED <<inbox, compose, pmAir, pendingAck, pmNow, written, transmitted, acked, txErrors>>

LinesOf(p) == Cardinality({i \in DOMAIN inbox : inbox[i].peer = p})

ThreadPress(btn) ==
    /\ screen.mode # "inbox" /\ compose = NoPeer
    /\ \/ btn = "Up" /\ screen' = [screen EXCEPT !.line = Minus(@, 1)] /\ UNCHANGED compose
       \/ /\ btn = "Down" /\ screen.line < Minus(LinesOf(screen.mode), ThreadLines)
          /\ screen' = [screen EXCEPT !.line = @ + 1] /\ UNCHANGED compose
       \/ btn = "Fire" /\ compose' = screen.mode /\ UNCHANGED screen
       \/ btn = "Cancel" /\ screen' = [screen EXCEPT !.mode = "inbox"] /\ UNCHANGED compose
    /\ UNCHANGED <<inbox, cursors, unread, pmAir, pendingAck, pmNow, written, transmitted,
                   acked, opened, txErrors>>

(* Drawing the thread sweeps the messages nobody acknowledged in time, of   *)
(* every peer; drawing the inbox reads only.                                *)
DrawThread ==
    /\ screen.mode # "inbox"
    /\ inbox' = [i \in DOMAIN inbox |->
                    IF inbox[i].dir = "out" /\ inbox[i].delivery = "sent"
                       /\ Minus(pmNow, inbox[i].at) > AckWindow
                    THEN [inbox[i] EXCEPT !.delivery = "failed"] ELSE inbox[i]]
    /\ UNCHANGED <<cursors, unread, screen, compose, pmAir, pendingAck, pmNow, written,
                   transmitted, acked, opened, txErrors>>

PmTick == /\ pmNow < MaxSeconds /\ pmNow' = pmNow + 1
          /\ UNCHANGED <<inbox, cursors, unread, screen, compose, pmAir, pendingAck,
                         written, transmitted, acked, opened, txErrors>>

PmNext ==
    \/ \E p \in PmPeers : PmReceived(p)
    \/ SubmitPm \/ AbandonPm \/ TransmitPm \/ TransmitPmFails
    \/ \E h \in 1..MaxPms : AckArrives(h)
    \/ \E btn \in {"Up", "Down", "Fire"} : InboxPress(btn, Cardinality(Peers))
    \/ \E btn \in {"Up", "Down", "Fire", "Cancel"} : ThreadPress(btn)
    \/ DrawThread \/ PmTick

PmSpec == PmInit /\ [][PmNext]_pmVars

-----------------------------------------------------------------------------
(* Properties. *)

(* The "+N" of the main screen never hides a message: whatever was evicted, *)
(* read and received in the same second, it counts at least the messages    *)
(* in the ring whose conversation was not opened since they came - as long  *)
(* as no cursor was forgotten (pm_inbox.rs:130-138, 142-165, 384-418).      *)
BadgeCoversUnopened ==
    Cardinality(PmPeers) <= ReadCursorsCap =>
    unread >= Cardinality({e.id : e \in {x \in Entries : Incoming(x)}} \ opened)

(* The thread never shows more messages delivered to a peer than that peer  *)
(* acknowledged, however often an acknowledgement is repeated and whatever  *)
(* the ring evicted in between. (pm_inbox.rs:235-270)                       *)
DeliveredWereAcked ==
    \A p \in PmPeers :
        Cardinality({e \in Entries : e.dir = "out" /\ e.peer = p /\ e.delivery = "delivered"})
            <= Cardinality({h \in acked : written[h] = p})

(* What the inbox tells its user is true: the unread count of the main      *)
(* screen and the delivery marks of the threads, both above.                *)
InboxIsTruthful == BadgeCoversUnopened /\ DeliveredWereAcked

(* A message marked delivered is one whose own acknowledgement arrived      *)
(* (meshcore.rs:1783-1787: "Stamp the matching outgoing PmEntry").          *)
AckMarksItsMessage ==
    \A e \in Entries : e.dir = "out" /\ e.delivery = "delivered" => e.id \in acked
=============================================================================
