----------------------------- MODULE MeshChannels -----------------------------
(***************************************************************************)
(* Channels and channel messages of the badge: the slots of the key-value  *)
(* store and what boot makes of them (src/fw/mesh/channels.rs), the table  *)
(* the radio listener loads from them and its loop (meshcore.rs), the ring *)
(* of messages and the channel browser (channel_browser.rs), and the       *)
(* suppression of copies and of the echoes of own messages.                *)
(*                                                                         *)
(* A channel is its name, and its key and hash with it.  A message's text, *)
(* timestamp and content hash are its number.                              *)
(***************************************************************************)
EXTENDS Naturals, Sequences, SequencesExt, FiniteSets

CONSTANTS
    NumChannels, \* slots, 40 in the badge
    Defaults,    \* names seeded into the first slots, three in the badge
    ShdwSlot,    \* SHDW_SLOT, 3 in the badge
    AppNames,    \* names the companion app writes into a slot
    SeenCap,     \* capacity of MSG_SEEN, 50 in the badge
    RingSize,    \* CHANNEL_MSG_RING_SIZE, 32 in the badge
    ChanTxCap,   \* capacity of TX_CHANNEL, 16 in the badge
    MaxRepeats,  \* the largest repeat count, 9 in the badge
    BodyLines,   \* lines of the channel view, 8 in the badge
    ListRows,    \* rows of the channel list, 9 in the badge
    LinesOfMsg,  \* message -> lines it takes, its header included
    MaxSets, MaxChanMsgs, MaxHeard, MaxCuts \* bounds: writes of the app; messages
                                            \* and receptions per boot; losses of power

ASSUME ChannelConstants ==
    /\ ShdwSlot \in 0..NumChannels - 1 /\ Len(Defaults) \in 1..ShdwSlot
    /\ {NumChannels, SeenCap, RingSize, ChanTxCap, BodyLines, ListRows} \subseteq Nat \ {0}
    /\ MaxChanMsgs \in Nat /\ \A m \in 1..MaxChanMsgs : LinesOfMsg[m] \in Nat

ChannelSlots == 0..NumChannels - 1
Missing == "missing"
NoChannel == "empty"

VARIABLES
    store,     \* the "ch" namespace
    boot,      \* [stage, i, found]: where boot is
    table,     \* loaded_channels of the listener
    changed,   \* CHANNELS_CHANGED_SIGNAL
    loopAt,    \* the listener: "top", "drain" or "rx"
    chanTx,    \* channel messages of TX_CHANNEL
    seen,      \* MSG_SEEN
    ring,      \* CHANNEL_MSG_RING, oldest first
    toApp,     \* messages pushed to the companion queue since boot
    ownSent,   \* own messages transmitted since boot
    browser,   \* [at: a slot or TheList, cursor, anchor], anchor 0 = pinned to the newest
    bleOn,     \* BLE_CONNECTED
    touched,   \* slots the app ever wrote, and those written since boot
    msgs,      \* message -> [slot, name, own]
    sets, heardCount, cuts

chanVars == <<store, boot, table, changed, loopAt, chanTx, seen, ring, toApp, ownSent,
              browser, bleOn, touched, msgs, sets, heardCount, cuts>>
history == <<touched, msgs, sets, heardCount, cuts>>

TheList == NumChannels
ListView == [at |-> TheList, cursor |-> 0, anchor |-> 0]
BootStart == [stage |-> "init", i |-> 0, found |-> 0]

ChanInit ==
    /\ store = [s \in ChannelSlots |-> Missing] /\ boot = BootStart
    /\ table = << >> /\ changed = FALSE /\ loopAt = "off" /\ chanTx = << >> /\ seen = << >>
    /\ ring = << >> /\ toApp = << >> /\ ownSent = {}
    /\ browser = ListView /\ bleOn = FALSE
    /\ touched = [ever |-> {}, now |-> {}] /\ msgs = << >>
    /\ sets = 0 /\ heardCount = 0 /\ cuts = 0

Up == boot.stage = "up"

-----------------------------------------------------------------------------
(* Boot: every slot gets a key, the defaults are seeded if none had one,    *)
(* slot SHDW_SLOT is made sure of; one write at a time.                     *)
Stored(s, v) == store' = [store EXCEPT ![s] = v]

InitSlot ==
    /\ boot.stage = "init" /\ boot.i < NumChannels
    /\ IF store[boot.i] = Missing
       THEN Stored(boot.i, NoChannel) /\ boot' = [boot EXCEPT !.i = @ + 1]
       ELSE UNCHANGED store /\ boot' = [boot EXCEPT !.i = @ + 1, !.found = @ + 1]

InitDone ==
    /\ boot.stage = "init" /\ boot.i = NumChannels /\ UNCHANGED store
    /\ boot' = [boot EXCEPT !.i = 0, !.stage = IF boot.found = 0 THEN "seed" ELSE "shdw"]

SeedDefault ==
    /\ boot.stage = "seed"
    /\ Stored(boot.i, Defaults[boot.i + 1])
    /\ boot' = IF boot.i + 1 = Len(Defaults) THEN [boot EXCEPT !.stage = "shdw"]
               ELSE [boot EXCEPT !.i = @ + 1]

(* A plausible slip: the private channel is seeded like the defaults, once. *)
EnsureShdwOnce ==
    /\ boot.stage = "shdw" /\ boot' = [boot EXCEPT !.stage = "load"]
    /\ IF boot.found # 0 THEN UNCHANGED store ELSE Stored(ShdwSlot, "SHDW")
EnsureShdw ==
    /\ boot.stage = "shdw" /\ boot' = [boot EXCEPT !.stage = "load"]
    /\ IF store[ShdwSlot] = "SHDW" THEN UNCHANGED store ELSE Stored(ShdwSlot, "SHDW")

BootSteps == /\ InitSlot \/ InitDone \/ SeedDefault \/ EnsureShdw
             /\ UNCHANGED <<table, changed, loopAt, chanTx, seen, ring, toApp, ownSent,
                            browser, bleOn, history>>

(* load_channels: the slots in use, in order. *)
Loaded == SelectSeq([i \in 1..NumChannels |-> [slot |-> i - 1, name |-> store[i - 1]]],
                    LAMBDA c : c.name \notin {Missing, NoChannel})
(* update_cached_channels: what the browser may show of the table. *)
Cached == SelectSeq(table, LAMBDA c : c.slot # ShdwSlot)

ListenerStarts ==
    /\ boot.stage = "load" /\ boot' = [boot EXCEPT !.stage = "up"]
    /\ table' = Loaded /\ loopAt' = "top"
    /\ UNCHANGED <<store, changed, chanTx, seen, ring, toApp, ownSent, browser, bleOn, history>>

(* Reset from the menu: every slot emptied, defaults seeded, then a reset   *)
(* of the badge; a loss of power may come first.                            *)
ChannelReset ==
    /\ Up /\ loopAt = "top" /\ boot' = [stage |-> "clear", i |-> 0, found |-> 0]
    /\ loopAt' = "off"
    /\ UNCHANGED <<store, table, changed, chanTx, seen, ring, toApp, ownSent, browser, bleOn, history>>
ResetSlot ==
    /\ boot.stage = "clear" /\ boot.i < NumChannels
    /\ Stored(boot.i, NoChannel) /\ boot' = [boot EXCEPT !.i = @ + 1]
    /\ UNCHANGED <<table, changed, loopAt, chanTx, seen, ring, toApp, ownSent, browser, bleOn, history>>
ResetSeeds ==
    /\ boot.stage = "clear" /\ boot.i \in NumChannels..NumChannels + Len(Defaults) - 1
    /\ \E d \in {boot.i - NumChannels} : Stored(d, Defaults[d + 1])
    /\ boot' = [boot EXCEPT !.i = @ + 1]
    /\ touched' = [touched EXCEPT !.ever = {}]
    /\ UNCHANGED <<table, changed, loopAt, chanTx, seen, ring, toApp, ownSent, browser, bleOn, msgs, sets, heardCount, cuts>>

(* The badge starts again: after a channel reset, or when power was lost.   *)
Boots ==
    /\ \/ boot.stage = "clear" /\ boot.i = NumChannels + Len(Defaults) /\ UNCHANGED cuts
       \/ cuts < MaxCuts /\ cuts' = cuts + 1
    /\ boot' = BootStart
    /\ table' = << >> /\ changed' = FALSE /\ loopAt' = "off" /\ chanTx' = << >> /\ seen' = << >>
    /\ ring' = << >> /\ toApp' = << >> /\ ownSent' = {}
    /\ browser' = ListView /\ bleOn' = FALSE
    /\ touched' = [touched EXCEPT !.now = {}] /\ msgs' = << >> /\ heardCount' = 0
    /\ UNCHANGED <<store, sets>>

-----------------------------------------------------------------------------
(* The companion app and the keyboard. *)

SetChannel(s, n) ==
    /\ Up /\ bleOn /\ sets < MaxSets /\ sets' = sets + 1
    /\ Stored(s, n) /\ changed' = TRUE
    /\ touched' = [ever |-> touched.ever \union {s}, now |-> touched.now \union {s}]
    /\ UNCHANGED <<boot, table, loopAt, chanTx, seen, ring, toApp, ownSent, browser, bleOn, msgs, heardCount, cuts>>

Connection == /\ Up /\ bleOn' = ~bleOn
              /\ UNCHANGED <<store, boot, table, changed, loopAt, chanTx, seen, ring, toApp,
                             ownSent, browser, history>>

(* A message of one's own: from the app to any slot, or a reply from the    *)
(* channel view.  A full queue drops it.                                    *)
Submit(s) ==
    /\ Up /\ Len(msgs) < MaxChanMsgs
    /\ bleOn \/ browser.at = s
    /\ msgs' = Append(msgs, [slot |-> s, name |-> store[s], own |-> TRUE])
    /\ chanTx' = IF Len(chanTx) < ChanTxCap THEN Append(chanTx, Len(msgs) + 1) ELSE chanTx
    /\ UNCHANGED <<store, boot, table, changed, loopAt, seen, ring, toApp, ownSent, browser, bleOn, touched, sets, heardCount, cuts>>

-----------------------------------------------------------------------------
(* The listener: the table is reloaded at the top of the loop only, then    *)
(* the whole queue is drained, then it receives.                            *)
LoopTop ==
    /\ Up /\ loopAt = "top" /\ loopAt' = "drain" /\ changed' = FALSE
    /\ table' = IF changed THEN Loaded ELSE table
    /\ UNCHANGED <<store, boot, chanTx, seen, ring, toApp, ownSent, browser, bleOn, history>>

Pushed(s, x, cap) == Append(IF Len(s) = cap THEN Tail(s) ELSE s, x)
RingEntry(m, own) == [id |-> m, slot |-> msgs[m].slot, own |-> own, repeats |-> 0]

(* A plausible slip: the sender does not count its message as seen. *)
SendGrpTxtUnseen(m) ==
    /\ chanTx' = Tail(chanTx)
    /\ IF \E i \in DOMAIN table : table[i].slot = msgs[m].slot
       THEN /\ ring' = Pushed(ring, RingEntry(m, TRUE), RingSize)
            /\ ownSent' = ownSent \union {m} /\ UNCHANGED seen
       ELSE UNCHANGED <<seen, ring, ownSent>>
    /\ UNCHANGED <<store, boot, table, changed, toApp, browser, bleOn, history>>
(* send_grp_txt: dropped if its slot is not in the table; once on the air   *)
(* it is known as seen and stands in the ring.                              *)
SendGrpTxt(m) ==
    /\ chanTx' = Tail(chanTx)
    /\ IF \E i \in DOMAIN table : table[i].slot = msgs[m].slot
       THEN /\ seen' = Pushed(seen, m, SeenCap) /\ ring' = Pushed(ring, RingEntry(m, TRUE), RingSize)
            /\ ownSent' = ownSent \union {m}
       ELSE UNCHANGED <<seen, ring, ownSent>>
    /\ UNCHANGED <<store, boot, table, changed, toApp, browser, bleOn, history>>

Drain == /\ Up /\ loopAt = "drain"
         /\ IF chanTx # << >> THEN SendGrpTxt(Head(chanTx)) /\ UNCHANGED loopAt
            ELSE /\ loopAt' = "rx"
                 /\ UNCHANGED <<store, boot, table, changed, chanTx, seen, ring, toApp,
                                ownSent, browser, bleOn, history>>

(* A reception ends with nothing for us, or a new request interrupts it.    *)
RxEnds == /\ Up /\ loopAt = "rx" /\ loopAt' = "top"
          /\ UNCHANGED <<store, boot, table, changed, chanTx, seen, ring, toApp, ownSent,
                         browser, bleOn, history>>

(* push_grp_txt: the first slot of the table with the message's channel;    *)
(* copies are suppressed, an echo of an own message is counted.             *)
TakeGrpTxt(m, name) ==
    /\ loopAt' = "top"
    /\ IF \A i \in DOMAIN table : table[i].name # name
       THEN UNCHANGED <<seen, ring, toApp>>
       ELSE IF m \in ToSet(seen)
       THEN /\ ring' = [i \in DOMAIN ring |->
                           IF ring[i].id = m /\ ring[i].own /\ ring[i].repeats < MaxRepeats
                           THEN [ring[i] EXCEPT !.repeats = @ + 1] ELSE ring[i]]
            /\ UNCHANGED <<seen, toApp>>
       ELSE /\ seen' = Pushed(seen, m, SeenCap)
            /\ \E i \in DOMAIN table :
                  /\ table[i].name = name /\ \A j \in 1..i - 1 : table[j].name # name
                  /\ ring' = Pushed(ring, [id |-> m, slot |-> table[i].slot, own |-> FALSE,
                                           repeats |-> 0], RingSize)
            /\ toApp' = Append(toApp, m)
    /\ UNCHANGED <<store, boot, table, changed, chanTx, ownSent, browser, bleOn,
                   touched, sets, cuts>>

ReceiveNew(name) ==
    /\ Up /\ loopAt = "rx" /\ heardCount < MaxHeard /\ heardCount' = heardCount + 1
    /\ Len(msgs) < MaxChanMsgs
    /\ msgs' = Append(msgs, [slot |-> 0, name |-> name, own |-> FALSE])
    /\ TakeGrpTxt(Len(msgs) + 1, name)
(* A repeater plays a message again, one of our own among them. *)
ReceiveCopy(m) ==
    /\ Up /\ loopAt = "rx" /\ heardCount < MaxHeard /\ heardCount' = heardCount + 1
    /\ m \in DOMAIN msgs /\ (msgs[m].own => m \in ownSent)
    /\ UNCHANGED msgs /\ TakeGrpTxt(m, msgs[m].name)

-----------------------------------------------------------------------------
(* The channel browser. *)

(* The places of the ring that hold the channel's messages, oldest first.   *)
InView(s) == {i \in DOMAIN ring : ring[i].slot = s}
Lowest(S) == CHOOSE x \in S : \A y \in S : x <= y
Highest(S) == CHOOSE x \in S : \A y \in S : x >= y
(* resolve_anchor: the newest message, the anchor, or the oldest one left.  *)
AnchorAt(view, anchor) ==
    IF anchor = 0 THEN Highest(view)
    ELSE IF \E i \in view : ring[i].id = anchor
    THEN Lowest({i \in view : ring[i].id = anchor})
    ELSE Lowest(view)

Scroll(btn) ==
    LET view == InView(browser.at)
        older == {i \in view : i < AnchorAt(view, browser.anchor)}
        newer == {i \in view : i > AnchorAt(view, browser.anchor)}
    IN  \/ btn = "Up" /\ older # {}
           /\ browser' = [browser EXCEPT !.anchor = ring[Highest(older)].id]
        \/ btn = "Down" /\ newer # {}
           /\ browser' = [browser EXCEPT !.anchor =
                             IF Lowest(newer) = Highest(view) THEN 0 ELSE ring[Lowest(newer)].id]
        \/ btn = "Cancel" /\ browser' = ListView

InList(btn) ==
    LET n == Len(Cached)  c == browser.cursor
    IN  \/ btn = "Up" /\ (c > 0 \/ n > 0)
           /\ browser' = [browser EXCEPT !.cursor = IF c > 0 THEN c - 1 ELSE n - 1]
        \/ btn = "Down" /\ n > 0
           /\ browser' = [browser EXCEPT !.cursor = IF c + 1 < n THEN c + 1 ELSE 0]
        \/ btn = "Fire" /\ c < n
           /\ browser' = [at |-> Cached[c + 1].slot, cursor |-> 0, anchor |-> 0]

(* While the app is connected the screen only lets itself be left. *)
BrowserPress(btn) ==
    /\ Up /\ ~bleOn
    /\ IF browser.at = TheList THEN InList(btn) ELSE Scroll(btn)
    /\ UNCHANGED <<store, boot, table, changed, loopAt, chanTx, seen, ring, toApp, ownSent,
                   bleOn, history>>

(* draw_channel_view: from the anchor backward while older messages fit,    *)
(* then forward while newer ones do.                                        *)
LinesAt(view, i) == IF i \in view THEN LinesOfMsg[ring[i].id] ELSE 0
Height(view, a, b) ==
    LET LinesTo[i \in 0..Len(ring)] == IF i = 0 THEN 0 ELSE LinesTo[i - 1] + LinesAt(view, i)
    IN  LinesTo[b] - LinesTo[a - 1]
FirstVisible(view, at) ==
    Lowest({a \in view : a <= at /\ \A x \in view :
                             a <= x /\ x < at => Height(view, x, at) <= BodyLines})
(* A plausible slip: what fits below the anchor is not added. *)
LastIsAnchor(view, at) == at
LastVisible(view, at) ==
    Highest({b \in view : b >= at /\ \A x \in view :
                at < x /\ x <= b => Height(view, FirstVisible(view, at), x) <= BodyLines})

ChanNext ==
    \/ BootSteps \/ ListenerStarts \/ ChannelReset \/ ResetSlot \/ ResetSeeds \/ Boots
    \/ \E s \in ChannelSlots, n \in AppNames : SetChannel(s, n)
    \/ Connection \/ \E s \in ChannelSlots : Submit(s)
    \/ LoopTop \/ Drain \/ RxEnds
    \/ \E n \in ToSet(Defaults) : ReceiveNew(n)
    \/ \E m \in 1..MaxChanMsgs : ReceiveCopy(m)
    \/ \E btn \in {"Up", "Down", "Fire", "Cancel"} : BrowserPress(btn)

ChanSpec == ChanInit /\ [][ChanNext]_chanVars

-----------------------------------------------------------------------------
(* Properties. *)

(* However often the mesh repeats a message, the companion app is given it  *)
(* once, and never a message of one's own sent since boot - as long as the  *)
(* ring of what was seen has not wrapped (meshcore.rs:607-635, 1520-1530).  *)
NoEchoReachesTheApp ==
    Len(msgs) <= SeenCap =>
        /\ IsInjective(toApp)
        /\ ToSet(toApp) \intersect ownSent = {}

(* The channel view shows the message the reader is at and as many of its   *)
(* neighbours as fit, whichever messages the ring has pushed out            *)
(* (channel_browser.rs:181-216, 385-440).                                   *)
ViewIsFull ==
    browser.at # TheList /\ InView(browser.at) # {} =>
        LET view == InView(browser.at)
            at == AnchorAt(view, browser.anchor)
            a == FirstVisible(view, at)
            b == LastVisible(view, at)
        IN  /\ at \in view /\ at \in a..b
            /\ Height(view, a, b) <= BodyLines \/ a = b
            /\ \A x \in view : x < a => Height(view, x, b) > BodyLines
            /\ \A x \in view : x > b => Height(view, a, x) > BodyLines

(* Every badge that has booted is on the private game channel, whatever a   *)
(* loss of power or a reset of the channels interrupted, until the app      *)
(* writes that slot (channels.rs:165-188).                                  *)
OnTheGameChannel == Up /\ ShdwSlot \notin touched.now => store[ShdwSlot] = "SHDW"

(* The channels as their user meets them: no echo of one's own messages in  *)
(* the app, no half-empty view, the game always on its channel.             *)
ChannelsAreSound == NoEchoReachesTheApp /\ ViewIsFull /\ OnTheGameChannel

(* A badge whose first slots nobody changed is on the public channel        *)
(* (channels.rs:67-70, "If no keys were found at all (first boot), slot 0   *)
(* is seeded with the public channel").                                     *)
OnThePublicChannel == Up /\ 0 \notin touched.ever => store[0] = Defaults[1]

(* A message for a slot that holds a channel is not dropped (meshcore.rs:   *)
(* 1396-1398, "with a direct KV fallback for channels set after the last    *)
(* reload").                                                                *)
ChannelIsFound ==
    [][ chanTx # << >> /\ chanTx' = Tail(chanTx) /\ store[msgs[Head(chanTx)].slot] \notin {Missing, NoChannel}
          => ownSent' # ownSent ]_chanVars
=============================================================================
