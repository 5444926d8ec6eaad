------------------------------ MODULE Friends ------------------------------
(***************************************************************************)
(* Badges that meet and fight over the private SHDW channel                *)
(* (src/src/game/friends.rs, game/battle.rs and push_grp_data() of         *)
(* fw/mesh/meshcore.rs).  Whom the owner fights is open here; BattlePicker *)
(* has the screen.                                                         *)
(*                                                                         *)
(* A badge broadcasts beacons and the results of its battles; every badge  *)
(* in range may get a copy, late, twice or not at all.  The envelope of a  *)
(* packet is a function of what it says (grp_data::encrypt() is given the  *)
(* key, the type and the data, no time and no nonce), so two packets that  *)
(* say the same are the same packet to the ring of seen hashes.            *)
(*                                                                         *)
(* Abstractions: what a beacon says of the pet is a member of Snaps and is *)
(* not kept in the record; the fight is an outcome out of Outcomes (its    *)
(* seed is the uptime); first_seen_tick, which is never above              *)
(* last_seen_tick, is left out.  Strangers are badges of which only the    *)
(* beacons matter.  Every badge has a pet.                                 *)
(***************************************************************************)
EXTENDS Integers, Sequences, FiniteSets

CONSTANTS
    Badges,          \* the badges whose state is modelled
    Strangers,       \* badges that are only heard
    Hears,           \* badge -> the strangers in its range
    Saves,           \* badge -> the lists it may have booted with
    Players,         \* the badges whose owner fights
    Snaps,           \* what a beacon may say of a pet
    Outcomes,        \* how a battle may end: records [won, hp] of the challenger
    FRIENDS_MAX,     \* 20 in the code
    SEEN,            \* hashes GRP_DATA_SEEN holds, 50 in the code
    FRIEND_BOOST_COOLDOWN_TICKS,
    MaxPackets,      \* bound: packets sent, and beacons of strangers heard
    MaxTime,         \* bound: the clock
    MaxUpsets        \* bound: copies lost and repeated, restarts and resets together

ASSUME FriendsAssumption ==
    /\ FRIENDS_MAX \in Nat \ {0} /\ SEEN \in Nat \ {0}
    /\ FRIEND_BOOST_COOLDOWN_TICKS \in Nat
    /\ {MaxPackets, MaxTime, MaxUpsets} \subseteq Nat
    /\ Badges \cap Strangers = {} /\ Players \subseteq Badges
    /\ Hears \in [Badges -> SUBSET Strangers]
    /\ \A o \in Outcomes : o.won \in BOOLEAN

(* init() rebases what it loads to the uptime, 0: every tick is 0 then.    *)
Ids == Badges \cup Strangers
FriendRecord == [id : Ids, boost : Nat, seen : Nat, wins : Nat, losses : Nat]
ASSUME SavesAssumption ==
    \A b \in Badges : \A list \in Saves[b] :
        /\ list \in Seq(FriendRecord) /\ Len(list) <= FRIENDS_MAX
        /\ \A i \in 1 .. Len(list) :
              /\ list[i].id # b /\ list[i].seen = 0 /\ list[i].boost = 0
              /\ \A j \in 1 .. i - 1 : list[j].id # list[i].id

VARIABLES
    friends,         \* FRIENDS of each badge: records, the last seen first
    FRIENDS_DIRTY,
    flash,           \* the key "list" of each badge
    GRP_DATA_SEEN,   \* the packets each badge remembers, oldest first
    ready,           \* cooldown_battle is over
    clock, boot,     \* time in units of the battle cooldown; that of each boot
    air,             \* copies on their way: [n, to, repeated, p]
    packets, upsets,  \* counts, for the bounds
    said,            \* history: the results sent so far
    handled,         \* history: packets each badge handled since its boot, and
                     \* those it handled in its life: [log, ever]
    boosts,          \* history: when each friend last boosted, and the parity
                     \* of the number of times: [at, odd]
    excused          \* history: the pairs whose tallies may differ, see Excuse

lists == <<friends, FRIENDS_DIRTY, flash>>
counts == <<packets, upsets>>
ghosts == <<said, handled, boosts, excused>>
vars == <<lists, GRP_DATA_SEEN, ready, clock, boot, air, counts, ghosts>>

Never == -1

Beacon(b, snap) == [kind |-> "beacon", from |-> b, snap |-> snap]
Result(b, t, o) == [kind |-> "result", from |-> b, target |-> t, won |-> o.won, hp |-> o.hp]

now_tick(b) == clock - boot[b]

--------------------------------------------------------------------------
(* FriendsList *)

Known(list, id) == \E i \in 1 .. Len(list) : list[i].id = id
FindIndex(list, id) == CHOOSE i \in 1 .. Len(list) : list[i].id = id
NewFriend(id, now) == [id |-> id, boost |-> now, seen |-> now, wins |-> 0, losses |-> 0]

\* push(): newest first, dropping the oldest if full.
\* Mutated form of Push: nothing is dropped.
GrowingPush(list, f) == <<f>> \o list
Push(list, f) ==
    [i \in 1 .. IF Len(list) < FRIENDS_MAX THEN Len(list) + 1 ELSE FRIENDS_MAX |->
        IF i = 1 THEN f ELSE list[i - 1]]

\* move_to_front() of a friend that was refreshed: those before it move down.
Refreshed(list, f) ==
    [i \in 1 .. Len(list) |->
        IF i = 1 THEN f ELSE IF i <= FindIndex(list, f.id) THEN list[i - 1] ELSE list[i]]

\* record_battle_vs(): nothing for somebody who is not in the list.
WithResult(f, won) == IF won THEN [f EXCEPT !.wins = @ + 1] ELSE [f EXCEPT !.losses = @ + 1]
Tallied(list, id, won) ==
    IF Known(list, id) THEN [list EXCEPT ![FindIndex(list, id)] = WithResult(@, won)] ELSE list

Later(a, b) == IF a < b THEN b ELSE a
Stored(list) == {list[i].seen : i \in 1 .. Len(list)} \cup {list[i].boost : i \in 1 .. Len(list)}

\* rebase_after_reboot() at uptime 0: the latest tick becomes the present one.
\* Mutated form of Rebased: the ticks are taken over as they were written.
Unrebased(list) == list
Rebased(list) ==
    IF list = <<>> THEN list
    ELSE LET latest == CHOOSE t \in Stored(list) : \A u \in Stored(list) : u <= t
         IN  [i \in 1 .. Len(list) |->
                [list[i] EXCEPT !.seen = Later(0, @ - latest), !.boost = Later(0, @ - latest)]]


(* Two badges that know each other keep the same tally of their battles,   *)
(* the one's wins the other's losses, unless the radio, a power loss or a  *)
(* full list took something away; Init and each action say when it may.    *)
Tally(list, id) ==
    IF Known(list, id)
    THEN <<list[FindIndex(list, id)].wins, list[FindIndex(list, id)].losses>>
    ELSE <<0, 0>>
Unequal(b, id) == Tally(friends[b], id)[1] # Tally(friends[id], b)[2]
Differing(b, old, new) == {{b, id} : id \in {i \in Ids : Tally(old, i) # Tally(new, i)}}

--------------------------------------------------------------------------
Init ==
    /\ friends \in [Badges -> UNION {Saves[b] : b \in Badges}]
    /\ \A b \in Badges : friends[b] \in Saves[b]
    /\ FRIENDS_DIRTY = [b \in Badges |-> FALSE]
    /\ flash = friends
    /\ GRP_DATA_SEEN = [b \in Badges |-> <<>>]
    /\ ready = [b \in Badges |-> TRUE]
    /\ clock = 0 /\ boot = [b \in Badges |-> 0]
    /\ air = {}
    /\ packets = 0 /\ upsets = 0
    /\ said = {}
    /\ handled = [b \in Badges |-> [log |-> <<>>, ever |-> {}]]
    /\ boosts = [b \in Badges |-> [i \in Ids |->
                    [at |-> IF Known(friends[b], i) THEN 0 ELSE Never, odd |-> FALSE]]]
    /\ excused = UNION {{{b, id} : id \in {i \in Badges : Unequal(b, i)}} : b \in Badges}

Upset == upsets < MaxUpsets /\ upsets' = upsets + 1

--------------------------------------------------------------------------
(* Sending. *)

\* tx_send(), the transmission and the air: a copy for every other badge.
Transmit(b, p) ==
    /\ packets < MaxPackets
    /\ packets' = packets + 1
    /\ air' = air \cup {[n |-> packets, to |-> t, repeated |-> FALSE, p |-> p] : t \in Badges \ {b}}

\* pet_beacon_ticker_task(), every 15 minutes.
SendBeacon(b, snap) ==
    /\ Transmit(b, Beacon(b, snap))
    /\ UNCHANGED <<lists, GRP_DATA_SEEN, ready, clock, boot, upsets,
                   ghosts>>

\* try_challenge() and challenge(): the fight is decided here and now, counted
\* on this badge and broadcast.  A result that says what an earlier one said
\* may be taken for a copy of it.
Challenge(b, id, o) ==
    /\ b \in Players /\ ready[b] /\ Known(friends[b], id)
    /\ Transmit(b, Result(b, id, o))
    /\ friends' = [friends EXCEPT ![b] = Tallied(@, id, o.won)]
    /\ said' = said \cup {Result(b, id, o)}
    /\ excused' = excused \cup (IF Result(b, id, o) \in said THEN {{b, id}} ELSE {})
    /\ FRIENDS_DIRTY' = [FRIENDS_DIRTY EXCEPT ![b] = TRUE]
    /\ ready' = [ready EXCEPT ![b] = FALSE]
    /\ UNCHANGED <<flash, GRP_DATA_SEEN, clock, boot, upsets, handled, boosts>>

--------------------------------------------------------------------------
(* Receiving. *)

LastSeen(log) == SubSeq(log, IF Len(log) > SEEN THEN Len(log) - SEEN + 1 ELSE 1, Len(log))
Elements(s) == {s[i] : i \in 1 .. Len(s)}

\* The check of push_grp_data(): a packet in the ring is not handled again.
\* Mutated form of Admit: the packet is remembered only if it was queued.
ForgetfulAdmit(b, p) ==
    /\ p \notin Elements(GRP_DATA_SEEN[b])
    /\ UNCHANGED GRP_DATA_SEEN
    /\ handled' = [handled EXCEPT ![b] = [log |-> Append(@.log, p), ever |-> @.ever \cup {p}]]
Admit(b, p) ==
    /\ p \notin Elements(GRP_DATA_SEEN[b])
    /\ GRP_DATA_SEEN' = [GRP_DATA_SEEN EXCEPT ![b] = LastSeen(Append(@, p))]
    /\ handled' = [handled EXCEPT ![b] = [log |-> Append(@.log, p), ever |-> @.ever \cup {p}]]

\* on_pet_beacon(): a known friend is refreshed, and boosts if the last boost
\* is long enough ago; a new one always does.
\* Mutated form of BoostDue: every sighting is worth a boost.
AlwaysDue(f, now) == TRUE
BoostDue(f, now) == now - f.boost >= FRIEND_BOOST_COOLDOWN_TICKS
Boosted(b, id) == [boosts EXCEPT ![b][id] = [at |-> clock, odd |-> ~@.odd]]
\* The friend a new one displaces is forgotten, with its boosts.
Displaced(list) == IF Len(list) = FRIENDS_MAX THEN {list[FRIENDS_MAX].id} ELSE {}

OnPetBeacon(b, id) ==
    \/ /\ id = b
       /\ UNCHANGED <<lists, boosts, excused>>
    \/ /\ id # b /\ Known(friends[b], id)
       /\ \E f \in {friends[b][FindIndex(friends[b], id)]}, now \in {now_tick(b)} :
            /\ friends' = [friends EXCEPT ![b] = Refreshed(@,
                  [f EXCEPT !.seen = now, !.boost = IF BoostDue(f, now) THEN now ELSE @])]
            /\ boosts' = IF BoostDue(f, now) THEN Boosted(b, id) ELSE boosts
       /\ FRIENDS_DIRTY' = [FRIENDS_DIRTY EXCEPT ![b] = TRUE]
       /\ UNCHANGED <<flash, excused>>
    \/ /\ id # b /\ ~Known(friends[b], id)
       /\ friends' = [friends EXCEPT ![b] = Push(@, NewFriend(id, now_tick(b)))]
       /\ boosts' = [boosts EXCEPT ![b] = [i \in Ids |->
              IF i \in Displaced(friends[b]) THEN [@[i] EXCEPT !.at = Never]
              ELSE IF i = id THEN [at |-> clock, odd |-> ~@[i].odd]
              ELSE @[i]]]
       /\ excused' = excused \cup Differing(b, friends[b], friends'[b])
       /\ FRIENDS_DIRTY' = [FRIENDS_DIRTY EXCEPT ![b] = TRUE]
       /\ UNCHANGED flash

\* on_battle_result(): the target counts the battle, inverted; a challenger it
\* does not know, or a packet the ring has forgotten, spoils the tally.
OnBattleResult(b, p) ==
    \/ /\ p.target = b /\ p.from # b
       /\ friends' = [friends EXCEPT ![b] = Tallied(@, p.from, ~p.won)]
       /\ FRIENDS_DIRTY' = [FRIENDS_DIRTY EXCEPT ![b] = @ \/ Known(friends[b], p.from)]
       /\ ready' = [ready EXCEPT ![b] = FALSE]
       /\ excused' = IF \/ ~Known(friends[b], p.from)
                        \/ p \in handled[b].ever /\ p \notin Elements(LastSeen(handled[b].log))
                     THEN excused \cup {{b, p.from}} ELSE excused
       /\ UNCHANGED <<flash, boosts>>
    \/ /\ p.target # b \/ p.from = b
       /\ UNCHANGED <<lists, ready, boosts, excused>>

Dispatch(b, p) ==
    \/ p.kind = "beacon" /\ OnPetBeacon(b, p.from) /\ UNCHANGED ready
    \/ p.kind = "result" /\ OnBattleResult(b, p)

\* A copy arrives.
Receive(c) ==
    /\ air' = air \ {c}
    /\ \/ Admit(c.to, c.p) /\ Dispatch(c.to, c.p)
       \/ /\ c.p \in Elements(GRP_DATA_SEEN[c.to])
          /\ UNCHANGED <<lists, GRP_DATA_SEEN, ready, handled, boosts, excused>>
    /\ UNCHANGED <<clock, boot, counts, said>>

\* A stranger's beacon is heard.
HearStranger(b, s, snap) ==
    /\ packets < MaxPackets
    /\ packets' = packets + 1
    /\ Admit(b, Beacon(s, snap)) /\ OnPetBeacon(b, s)
    /\ UNCHANGED <<ready, clock, boot, air, upsets, said>>

\* (external) A copy is lost, or is repeated, for the sender too.
Lose(c) ==
    /\ Upset
    /\ air' = air \ {c}
    /\ excused' = IF c.p.kind = "result" THEN excused \cup {{c.p.from, c.p.target}} ELSE excused
    /\ UNCHANGED <<lists, GRP_DATA_SEEN, ready, clock, boot, packets, said,
                   handled, boosts>>
Repeat(c, t) ==
    /\ Upset
    /\ air' = air \cup {[c EXCEPT !.to = t, !.repeated = TRUE]}
    /\ UNCHANGED <<lists, GRP_DATA_SEEN, ready, clock, boot, packets, ghosts>>

--------------------------------------------------------------------------
Tick ==
    /\ clock < MaxTime
    /\ clock' = clock + 1
    /\ ready' = [b \in Badges |-> TRUE]
    /\ UNCHANGED <<lists, GRP_DATA_SEEN, boot, air, counts, ghosts>>

\* friends::save_if_needed(); PetLife has the interleavings of the write.
Save(b) ==
    /\ FRIENDS_DIRTY[b]
    /\ flash' = [flash EXCEPT ![b] = friends[b]]
    /\ FRIENDS_DIRTY' = [FRIENDS_DIRTY EXCEPT ![b] = FALSE]
    /\ UNCHANGED <<friends, GRP_DATA_SEEN, ready, clock, boot, air, counts, ghosts>>

\* reset_all_battle_records(), from the debug menu.
ResetRecords(b) ==
    /\ Upset
    /\ friends' = [friends EXCEPT ![b] = [i \in 1 .. Len(@) |-> [@[i] EXCEPT !.wins = 0, !.losses = 0]]]
    /\ FRIENDS_DIRTY' = [FRIENDS_DIRTY EXCEPT ![b] = TRUE]
    /\ excused' = excused \cup Differing(b, friends[b], friends'[b])
    /\ UNCHANGED <<flash, GRP_DATA_SEEN, ready, clock, boot, air, packets, said,
                   handled, boosts>>

\* Power is lost; init() loads the list and rebases it.  What was not saved is
\* forgotten, the boosts since the save too.  The pet's cooldown may be saved.
Restart(b) ==
    /\ Upset
    /\ boot' = [boot EXCEPT ![b] = clock]
    /\ friends' = [friends EXCEPT ![b] = Rebased(flash[b])]
    /\ FRIENDS_DIRTY' = [FRIENDS_DIRTY EXCEPT ![b] = FALSE]
    /\ GRP_DATA_SEEN' = [GRP_DATA_SEEN EXCEPT ![b] = <<>>]
    /\ ready' \in {ready, [ready EXCEPT ![b] = TRUE]}
    /\ handled' = [handled EXCEPT ![b].log = <<>>]
    /\ boosts' = IF FRIENDS_DIRTY[b]
                 THEN [boosts EXCEPT ![b] = [i \in Ids |-> [@[i] EXCEPT !.at = Never]]]
                 ELSE boosts
    /\ excused' = excused \cup Differing(b, friends[b], friends'[b])
    /\ UNCHANGED <<flash, clock, air, packets, said>>

\* Everything but a challenge and a restart of b.
Others ==
    \/ \E b \in Badges :
        \/ \E snap \in Snaps : SendBeacon(b, snap)
        \/ \E s \in Hears[b], snap \in Snaps : HearStranger(b, s, snap)
        \/ Save(b) \/ ResetRecords(b)
    \/ \E c \in air : Receive(c) \/ Lose(c) \/ \E t \in Badges : Repeat(c, t)
    \/ Tick

Next ==
    \/ Others
    \/ \E b \in Badges : Restart(b) \/ \E id \in Ids, o \in Outcomes : Challenge(b, id, o)

Spec == Init /\ [][Next]_vars

--------------------------------------------------------------------------
(* Properties. *)

\* friends.rs:368-369: the list is ordered by last_seen_tick, newest first, and
\* holds everybody once and never the badge itself; no tick lies in the
\* future: through refreshes, a full list, saves, power losses and rebasing.
NewestFirst ==
    \A b \in Badges : \A i \in 1 .. Len(friends[b]) :
        /\ friends[b][i].id # b
        /\ friends[b][i].boost <= friends[b][i].seen /\ friends[b][i].seen <= now_tick(b)
        /\ \A j \in 1 .. i - 1 : /\ friends[b][j].id # friends[b][i].id
                                 /\ friends[b][j].seen >= friends[b][i].seen

\* Two boosts from one friend lie at least the cooldown apart, over reboots
\* whose list was saved as well, until the friend is dropped from the list
\* and met anew (friends.rs:80-84, 286-303, 505-511).
BoostsApart ==
    [][\A b \in Badges, i \in Ids :
        boosts'[b][i].odd # boosts[b][i].odd /\ boosts[b][i].at # Never
        => clock - boosts[b][i].at >= FRIEND_BOOST_COOLDOWN_TICKS]_vars

\* "Updated on both badges for every battle between them ... so the tally reads
\* the same from either side" (friends.rs:127-129): once no result is on its
\* way, for a pair that know each other and lost nothing (see `excused').
InFlight(a, b) == \E c \in air : c.p.kind = "result" /\ {c.p.from, c.p.target} = {a, b}
TalliesAgree ==
    \A a, b \in Badges :
        /\ a # b /\ {a, b} \notin excused /\ ~InFlight(a, b)
        /\ Known(friends[a], b) /\ Known(friends[b], a)
        => friends[a][FindIndex(friends[a], b)].wins = friends[b][FindIndex(friends[b], a)].losses
=============================================================================
