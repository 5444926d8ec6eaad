------------------------------ MODULE PetLife ------------------------------
(***************************************************************************)
(* The life of the pet across power cycles: what is in RAM, what is in     *)
(* flash, and the flags that say what still has to be written              *)
(* (game/lifecycle.rs, game/friends.rs, the flags of game/engine/mod.rs).  *)
(*                                                                         *)
(* The engine runs in RAM and is abstracted to the steps that set a flag   *)
(* (PetEngine has the rest).  save_if_needed() runs at the end of every    *)
(* drawing of the Game screen and awaits up to four key-value writes; at   *)
(* each of them the buttons, the mesh and the other screens go on changing *)
(* the pet.  A write is atomic in the key-value store, the save is not.    *)
(***************************************************************************)
EXTENDS Integers, Sequences

CONSTANTS
    REALM_MAX_PETS,  \* past pets the Unicorn Realm holds
    MaxEggs,         \* bound: eggs ever laid
    MaxChanges,      \* bound: changes of the pet, its name and the friends list
    MaxFaults        \* bound: failed writes, reboots and power losses together

VARIABLES
    pet,          \* GAME
    name,         \* PET_NAME: the egg it was given to, or 0 while empty
    realm,        \* REALM: past pets, newest first
    REALM_DIRTY,
    friends,      \* FRIENDS, as the number of times it changed
    FRIENDS_DIRTY,
    screen,       \* the Game screen is the one drawn
    asking,       \* the text entry asks for the pet's name
    saver,        \* the write save_if_needed() awaits: [at, buf]
    flash,        \* the keys state, name, realm and list
    past,         \* history: pets that left or were reset since the boot, in order
    raced,        \* history: a change fell into the writing of the state ("now")
                  \* and that write has succeeded without it ("missed")
    eggs, changes, failures, restarts   \* counts, for the bounds

ram == <<pet, name, realm, REALM_DIRTY, friends, FRIENDS_DIRTY>>
ghosts == <<past, raced, eggs, changes, failures, restarts>>
vars == <<ram, screen, asking, saver, flash, ghosts>>

ASSUME RoomInRealm == REALM_MAX_PETS \in Nat \ {0}
ASSUME BoundsAssumption == MaxEggs \in Nat /\ MaxChanges \in Nat /\ MaxFaults \in Nat

Phases == {"Hatching", "Active", "Leaving", "Gone"}
Pet == [id : 1 .. MaxEggs, phase : Phases, money : 0 .. MaxChanges,
        save_pending : BOOLEAN, realm_pending : BOOLEAN, naming_pending : BOOLEAN]
NoPet == [id |-> 0]

Saved == [id : 1 .. MaxEggs, phase : Phases, money : 0 .. MaxChanges]
Record == [id : 1 .. MaxEggs, name : 0 .. MaxEggs]

\* to_bytes(): the flags are not part of the save.
ToBytes(p) == [id |-> p.id, phase |-> p.phase, money |-> p.money]
FromBytes(s) ==
    IF s = NoPet THEN NoPet
    ELSE [id |-> s.id, phase |-> s.phase, money |-> s.money, save_pending |-> FALSE,
          realm_pending |-> FALSE, naming_pending |-> FALSE]

Egg(id) ==
    [id |-> id, phase |-> "Hatching", money |-> 0, save_pending |-> TRUE,
     realm_pending |-> FALSE, naming_pending |-> FALSE]

FromGameState(p) == [id |-> p.id, name |-> name]
\* Mutated form of Push: nothing is dropped from a full realm.
GrowingPush(records, r) == <<r>> \o records
Push(records, r) ==
    SubSeq(<<r>> \o records, 1, IF Len(records) < REALM_MAX_PETS
                                THEN Len(records) + 1 ELSE REALM_MAX_PETS)

Idle == [at |-> "idle", buf |-> 0]

Init ==
    /\ pet = NoPet /\ name = 0 /\ realm = <<>> /\ friends = 0
    /\ REALM_DIRTY = FALSE /\ FRIENDS_DIRTY = FALSE
    /\ screen = FALSE /\ asking = FALSE /\ saver = Idle
    /\ flash = [state |-> NoPet, name |-> 0, realm |-> <<>>, friends |-> 0]
    /\ past = <<>> /\ raced = "no"
    /\ eggs = 0 /\ changes = 0 /\ failures = 0 /\ restarts = 0

--------------------------------------------------------------------------
(* The pet changes in RAM, and flags itself.  A change that falls into the *)
(* writing of its state is noted in `raced'.                               *)

Change == changes < MaxChanges /\ changes' = changes + 1
Changed(p) ==
    /\ Change
    /\ pet' = p
    /\ raced' = IF saver.at = "state" THEN "now" ELSE raced

\* Mutated form of Flagged: the change waits for the periodic save.
LazyFlagged(p) == p
Flagged(p) == [p EXCEPT !.save_pending = TRUE]

Started == pet # NoPet

StartNewGame ==
    /\ ~Started /\ eggs < MaxEggs
    /\ eggs' = eggs + 1
    /\ Changed(Egg(eggs'))
    /\ UNCHANGED <<name, realm, REALM_DIRTY, friends, FRIENDS_DIRTY, screen, asking,
                   saver, flash, past, failures, restarts>>

\* update(): the egg hatches; the leaving countdown starts, is called off, or
\* ends (one long update may go all the way).
Evolve(phase) ==
    /\ Started
    /\ phase \in CASE pet.phase = "Hatching" -> {"Active"}
                   [] pet.phase = "Active" -> {"Leaving", "Gone"}
                   [] pet.phase = "Leaving" -> {"Active", "Gone"}
                   [] pet.phase = "Gone" -> {}
    /\ Changed([Flagged(pet) EXCEPT
                    !.phase = phase,
                    !.naming_pending = @ \/ pet.phase = "Hatching",
                    !.realm_pending = @ \/ phase = "Gone"])
    /\ past' = IF phase = "Gone" THEN Append(past, pet.id) ELSE past
    /\ UNCHANGED <<name, realm, REALM_DIRTY, friends, FRIENDS_DIRTY, screen, asking,
                   saver, flash, eggs, failures, restarts>>

\* add_money(): a battle, a mini-game or Only pets pays.
AddMoney ==
    /\ Started
    /\ Changed([Flagged(pet) EXCEPT !.money = @ + 1])
    /\ UNCHANGED <<name, realm, REALM_DIRTY, friends, FRIENDS_DIRTY, screen, asking,
                   saver, flash, past, eggs, failures, restarts>>

\* Who is recorded when the player takes a new egg: not an egg, a pet that
\* left only if the save has not recorded it yet, a living pet always.
\* Mutated form of ShouldRecord: a pet that left is recorded anyway.
EagerShouldRecord(p) == p.phase # "Hatching"
ShouldRecord(p) ==
    CASE p.phase = "Hatching" -> FALSE
      [] p.phase = "Gone" -> p.realm_pending
      [] OTHER -> TRUE

NewGeneration ==
    /\ Started /\ eggs < MaxEggs
    /\ eggs' = eggs + 1
    /\ Changed(Egg(eggs'))
    /\ realm' = IF ShouldRecord(pet) THEN Push(realm, FromGameState(pet)) ELSE realm
    /\ REALM_DIRTY' = (REALM_DIRTY \/ ShouldRecord(pet))
    /\ past' = IF pet.phase \in {"Active", "Leaving"} THEN Append(past, pet.id) ELSE past
    /\ UNCHANGED <<name, friends, FRIENDS_DIRTY, screen, asking, saver, flash,
                   failures, restarts>>

\* set_pet_name(), from the text entry; or the entry is cancelled.
SetPetName ==
    /\ asking
    /\ asking' = FALSE
    /\ name' = pet.id
    /\ Changed(Flagged(pet))
    /\ UNCHANGED <<realm, REALM_DIRTY, friends, FRIENDS_DIRTY, screen, saver, flash,
                   past, eggs, failures, restarts>>
CancelNaming ==
    /\ asking
    /\ asking' = FALSE
    /\ UNCHANGED <<ram, screen, saver, flash, ghosts>>

\* A beacon or a battle changes the friends list.
FriendsChange ==
    /\ Change
    /\ friends' = friends + 1
    /\ FRIENDS_DIRTY' = TRUE
    /\ UNCHANGED <<pet, name, realm, REALM_DIRTY, screen, asking, saver, flash, past,
                   raced, eggs, failures, restarts>>

SwitchScreen ==
    /\ screen' = ~screen
    /\ UNCHANGED <<ram, asking, saver, flash, ghosts>>

--------------------------------------------------------------------------
(* render() and save_if_needed(). *)

\* render() looks for a naming prompt before it draws.
TakeNamingPending ==
    /\ screen /\ saver = Idle /\ Started
    /\ pet.naming_pending
    /\ pet' = [pet EXCEPT !.naming_pending = FALSE]
    /\ asking' = TRUE
    /\ UNCHANGED <<name, realm, REALM_DIRTY, friends, FRIENDS_DIRTY, screen, saver,
                   flash, ghosts>>

\* The save from the pet's state on; `p' is the pet as the save found it.
\* `due' says that the 15 minutes since the last save are over, which they
\* cannot become for a pet that left, for it does not age.
SaveState(p) ==
    \E due \in BOOLEAN :
        /\ due => p.phase # "Gone"
        /\ IF p.save_pending \/ due
           THEN saver' = [at |-> "state", buf |-> ToBytes(p)]
           ELSE saver' = Idle

\* The save from the realm on: a pet that left by itself is recorded here,
\* and a realm that changed is written first.
\* Mutated form of SaveRealm: the realm is written for a death only.
DeathOnlySaveRealm ==
    LET p == [pet EXCEPT !.realm_pending = FALSE]
        records == IF pet.realm_pending THEN Push(realm, FromGameState(pet)) ELSE realm
    IN  /\ pet' = p
        /\ realm' = records
        /\ IF pet.realm_pending
           THEN REALM_DIRTY' = FALSE /\ saver' = [at |-> "realm", buf |-> records]
           ELSE UNCHANGED REALM_DIRTY /\ SaveState(p)
SaveRealm ==
    LET p == [pet EXCEPT !.realm_pending = FALSE]
        records == IF pet.realm_pending THEN Push(realm, FromGameState(pet)) ELSE realm
    IN  /\ pet' = p
        /\ realm' = records
        /\ REALM_DIRTY' = FALSE
        /\ IF REALM_DIRTY \/ pet.realm_pending
           THEN saver' = [at |-> "realm", buf |-> records]
           ELSE SaveState(p)

SaveIfNeeded ==
    /\ screen /\ saver = Idle /\ Started
    /\ FRIENDS_DIRTY' = FALSE
    /\ IF FRIENDS_DIRTY
       THEN /\ saver' = [at |-> "friends", buf |-> friends]
            /\ UNCHANGED <<pet, realm, REALM_DIRTY>>
       ELSE SaveRealm
    /\ UNCHANGED <<name, friends, screen, asking, flash, past, raced, eggs, changes, failures, restarts>>

\* A write succeeds, or fails and leaves the key as it was.
Wrote(key, ok) ==
    /\ saver.at = key
    /\ ok \/ failures + restarts < MaxFaults
    /\ failures' = IF ok THEN failures ELSE failures + 1
    /\ flash' = IF ok THEN [flash EXCEPT ![key] = saver.buf] ELSE flash

\* Mutated form of FriendsDone: the flag is cleared after the write.
LateFriendsDone(ok) ==
    /\ Wrote("friends", ok)
    /\ FRIENDS_DIRTY' = ~ok
    /\ SaveRealm
    /\ UNCHANGED <<name, friends, screen, asking, past, raced, eggs, changes, restarts>>
FriendsDone(ok) ==
    /\ Wrote("friends", ok)
    /\ FRIENDS_DIRTY' = (FRIENDS_DIRTY \/ ~ok)
    /\ SaveRealm
    /\ UNCHANGED <<name, friends, screen, asking, past, raced, eggs, changes, restarts>>

RealmDone(ok) ==
    /\ Wrote("realm", ok)
    /\ REALM_DIRTY' = (REALM_DIRTY \/ ~ok)
    /\ SaveState(pet)
    /\ UNCHANGED <<pet, name, realm, friends, FRIENDS_DIRTY, screen, asking, past,
                   raced, eggs, changes, restarts>>

\* mark_saved() clears the flag of whatever pet is there by now; the name
\* follows in a write of its own.
StateDone(ok) ==
    /\ Wrote("state", ok)
    /\ pet' = IF ok THEN [pet EXCEPT !.save_pending = FALSE] ELSE pet
    /\ saver' = IF ok THEN [at |-> "name", buf |-> name] ELSE Idle
    /\ raced' = IF raced = (IF ok THEN "now" ELSE "missed") THEN "missed" ELSE "no"
    /\ UNCHANGED <<name, realm, REALM_DIRTY, friends, FRIENDS_DIRTY, screen, asking,
                   past, eggs, changes, restarts>>
NameDone(ok) ==
    /\ Wrote("name", ok)
    /\ saver' = Idle
    /\ UNCHANGED <<ram, screen, asking, past, raced, eggs, changes, restarts>>

\* Power loss or reset at any point, and init() from flash: the naming prompt
\* comes back only for an Active pet and an empty name.
Restart ==
    /\ failures + restarts < MaxFaults
    /\ restarts' = restarts + 1
    /\ name' = flash.name
    /\ pet' = IF flash.state = NoPet THEN NoPet
              ELSE [FromBytes(flash.state) EXCEPT
                        !.naming_pending = flash.name = 0 /\ flash.state.phase = "Active"]
    /\ realm' = flash.realm /\ REALM_DIRTY' = FALSE
    /\ friends' = flash.friends /\ FRIENDS_DIRTY' = FALSE
    /\ screen' = FALSE /\ asking' = FALSE /\ saver' = Idle
    /\ raced' = "no" /\ past' = <<>>
    /\ UNCHANGED <<flash, eggs, changes, failures>>

Next ==
    \/ StartNewGame
    \/ \E phase \in Phases : Evolve(phase)
    \/ AddMoney
    \/ NewGeneration
    \/ SetPetName
    \/ CancelNaming
    \/ FriendsChange
    \/ SwitchScreen
    \/ TakeNamingPending
    \/ SaveIfNeeded
    \/ \E ok \in BOOLEAN : FriendsDone(ok)
    \/ \E ok \in BOOLEAN : RealmDone(ok)
    \/ \E ok \in BOOLEAN : StateDone(ok)
    \/ \E ok \in BOOLEAN : NameDone(ok)
    \/ Restart

Spec == Init /\ [][Next]_vars

\* The display loop draws the Game screen, and with it saves, again and again
\* while that screen is the active one; a flash write returns.
Fairness ==
    /\ SF_vars(SaveIfNeeded)
    /\ WF_vars(\E ok \in BOOLEAN : FriendsDone(ok))
    /\ WF_vars(\E ok \in BOOLEAN : RealmDone(ok))
    /\ WF_vars(\E ok \in BOOLEAN : StateDone(ok))
    /\ WF_vars(\E ok \in BOOLEAN : NameDone(ok))
FairSpec == Spec /\ Fairness

--------------------------------------------------------------------------
(* Properties. *)

TypeOK ==
    /\ pet \in Pet \cup {NoPet}
    /\ name \in 0 .. MaxEggs
    /\ realm \in Seq(Record) /\ Len(realm) <= REALM_MAX_PETS
    /\ friends \in 0 .. MaxChanges
    /\ {REALM_DIRTY, FRIENDS_DIRTY, screen, asking} \subseteq BOOLEAN
    /\ raced \in {"no", "now", "missed"}
    /\ saver.at \in {"idle", "friends", "realm", "state", "name"}
    /\ saver.buf \in CASE saver.at = "idle" -> {0}
                       [] saver.at = "friends" -> 0 .. MaxChanges
                       [] saver.at = "realm" -> Seq(Record)
                       [] saver.at = "state" -> Saved
                       [] saver.at = "name" -> 0 .. MaxEggs
    /\ flash \in [state : Saved \cup {NoPet}, name : 0 .. MaxEggs,
                  realm : Seq(Record), friends : 0 .. MaxChanges]
    /\ Len(flash.realm) <= REALM_MAX_PETS

\* The realm and the friends list are in flash as soon as no flag says they
\* are not and no write of them is under way: a change that falls into the
\* write, a failed write and a power loss included.
ListsReachFlash ==
    /\ ~REALM_DIRTY /\ saver.at # "realm" => flash.realm = realm
    /\ ~FRIENDS_DIRTY /\ saver.at # "friends" => flash.friends = friends

\* The same of the pet, but for a change that fell into the writing of it; and
\* of its name, as long as no write failed.
PetReachesFlash ==
    Started /\ ~pet.save_pending /\ saver.at # "state" =>
        /\ raced = "no" => flash.state = ToBytes(pet)
        /\ saver = Idle /\ failures = 0 => flash.name = name

\* Whatever the order of deaths, resets and saves, a badge that stayed on has
\* in its realm exactly the pets that left or were reset, each once, the
\* newest first, up to its size; only a death waits for the next save.
RealmIsHistory ==
    LET recorded == Len(past) - (IF Started /\ pet.realm_pending THEN 1 ELSE 0)
    IN  restarts = 0 =>
        /\ Len(realm) = IF recorded < REALM_MAX_PETS THEN recorded ELSE REALM_MAX_PETS
        /\ \A i \in 1 .. Len(realm) : realm[i].id = past[recorded + 1 - i]

\* If the Game screen of a started game keeps being shown, the realm and the
\* friends list are in flash in the end, failed writes notwithstanding.
ListsSettle ==
    []<>(screen /\ Started) => <>[](flash.realm = realm /\ flash.friends = friends)

\* engine/mod.rs:1865-1869 says of add_money: "Immediately flags the state for
\* save ... since a HAX balance is worth protecting from an unlucky reboot
\* right after being earned".  So a balance that is not in flash is flagged,
\* or is just being written.
EarnedIsFlagged ==
    Started /\ flash.state # NoPet /\ pet.id = flash.state.id
    /\ pet.money > flash.state.money
    => pet.save_pending \/ saver.at = "state"

=============================================================================
