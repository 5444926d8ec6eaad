--------------------------- MODULE PetLifeProofs ---------------------------
(***************************************************************************)
(* Theorems about PetLife, for every size of the realm and every bound.    *)
(***************************************************************************)
EXTENDS PetLife, TLAPS

(***************************************************************************)
(* The inductive invariant.  Counts bounds what the bounds of the model    *)
(* bound; the other parts say, for each key, where its newest contents are *)
(* while a write of it is under way.                                       *)
(***************************************************************************)
Counts ==
    /\ eggs \in 0 .. MaxEggs /\ changes \in 0 .. MaxChanges
    /\ failures \in Nat /\ restarts \in Nat
    /\ friends <= changes /\ flash.friends <= changes
    /\ saver.at = "friends" => saver.buf <= changes
    /\ Started => pet.money <= changes
    /\ flash.state # NoPet => flash.state.money <= changes
    /\ saver.at = "state" => saver.buf.money <= changes
    /\ saver.at = "idle" => saver = Idle
    /\ saver.at = "realm" => Len(saver.buf) <= REALM_MAX_PETS
    /\ asking \/ saver.at # "idle" => Started

\* A list no flag speaks of is in flash, or on its way.
ListsInv ==
    /\ ~REALM_DIRTY => IF saver.at = "realm" THEN saver.buf = realm ELSE flash.realm = realm
    /\ ~FRIENDS_DIRTY =>
           IF saver.at = "friends" THEN saver.buf = friends ELSE flash.friends = friends

\* So is the pet, unless it raced; what raced is flagged until the write is
\* over.
StateInv ==
    /\ Started /\ ~pet.save_pending /\ raced = "no" => flash.state = ToBytes(pet)
    /\ saver.at = "state" /\ raced # "now" => saver.buf = ToBytes(pet)
    /\ raced = "now" => saver.at = "state" /\ pet.save_pending

NameInv ==
    Started /\ ~pet.save_pending /\ saver.at # "state" /\ failures = 0 =>
        IF saver.at = "name" THEN saver.buf = name ELSE flash.name = name

\* A pet that waits for its record is the last one that left.
HistoryInv ==
    /\ past \in Seq(1 .. MaxEggs)
    /\ Started /\ pet.realm_pending =>
           /\ pet.phase = "Gone"
           /\ restarts = 0 => Len(past) > 0 /\ past[Len(past)] = pet.id

IInv == TypeOK /\ Counts /\ ListsInv /\ StateInv /\ NameInv /\ HistoryInv /\ RealmIsHistory

-----------------------------------------------------------------------------
(* The data. *)

LEMMA NoPetIsNone == NoPet \notin Pet /\ NoPet \notin Saved
BY DEF NoPet, Pet, Saved

LEMMA StartedType == TypeOK /\ Started => pet \in Pet
BY DEF TypeOK, Started

\* What is written of a pet has its type and its money.
LEMMA ToBytesType ==
    ASSUME NEW p \in Pet
    PROVE  ToBytes(p) \in Saved /\ ToBytes(p).money = p.money /\ ToBytes(p) # NoPet
BY DEF Pet, Saved, ToBytes, NoPet

\* A loaded pet is the saved one, without flags.
LEMMA FromBytesType ==
    ASSUME NEW s \in Saved
    PROVE  /\ FromBytes(s) \in Pet /\ ToBytes(FromBytes(s)) = s
           /\ FromBytes(s).money = s.money
           /\ ~FromBytes(s).realm_pending
BY NoPetIsNone DEF Pet, Saved, ToBytes, FromBytes

LEMMA FlaggedType ==
    ASSUME NEW p \in Pet
    PROVE  /\ Flagged(p) \in Pet /\ Flagged(p).save_pending
           /\ Flagged(p).money = p.money /\ Flagged(p).realm_pending = p.realm_pending
           /\ Flagged(p).id = p.id /\ Flagged(p).phase = p.phase
           /\ Flagged(p).naming_pending = p.naming_pending
BY DEF Flagged, Pet

\* The fields update() sets.
LEMMA PetFields ==
    ASSUME NEW p \in Pet, NEW phase \in Phases, NEW n \in BOOLEAN, NEW r \in BOOLEAN
    PROVE  LET q == [p EXCEPT !.phase = phase, !.naming_pending = n, !.realm_pending = r]
           IN  q \in Pet /\ q.phase = phase /\ (q.realm_pending <=> r) /\ q.id = p.id
BY DEF Pet

LEMMA EggType ==
    ASSUME NEW id \in 1 .. MaxEggs
    PROVE  /\ Egg(id) \in Pet /\ Egg(id).save_pending /\ ~Egg(id).realm_pending
           /\ Egg(id).money = 0 /\ Egg(id).phase = "Hatching" /\ Egg(id).id = id
BY BoundsAssumption DEF Egg, Pet, Phases

\* Push puts a record in front and keeps as many of the others as fit.
LEMMA PushFacts ==
    ASSUME NEW records \in Seq(Record), Len(records) <= REALM_MAX_PETS, NEW r \in Record
    PROVE  /\ Push(records, r) \in Seq(Record)
           /\ Len(Push(records, r)) = IF Len(records) < REALM_MAX_PETS
                                      THEN Len(records) + 1 ELSE REALM_MAX_PETS
           /\ \A i \in 1 .. Len(Push(records, r)) :
                  Push(records, r)[i] = IF i = 1 THEN r ELSE records[i - 1]
<1> DEFINE all == <<r>> \o records
           n == IF Len(records) < REALM_MAX_PETS THEN Len(records) + 1 ELSE REALM_MAX_PETS
<1>1. /\ all \in Seq(Record) /\ Len(all) = Len(records) + 1
      /\ \A i \in 1 .. Len(all) : all[i] = IF i = 1 THEN r ELSE records[i - 1]
  OBVIOUS
<1>2. n \in 1 .. Len(all)
  BY <1>1, RoomInRealm
<1> HIDE DEF all, n
<1>3. SubSeq(all, 1, n) \in Seq(Record) /\ Len(SubSeq(all, 1, n)) = n
      /\ \A i \in 1 .. n : SubSeq(all, 1, n)[i] = all[i]
  BY <1>1, <1>2
<1>4. Push(records, r) = SubSeq(all, 1, n)
  BY DEF Push, all, n
<1> QED
  BY <1>1, <1>2, <1>3, <1>4 DEF n

-----------------------------------------------------------------------------
(* The tail of a save, from the realm on and from the pet's state on. *)

LEMMA SaveStateFacts ==
    ASSUME NEW p, SaveState(p)
    PROVE  \/ saver' = [at |-> "state", buf |-> ToBytes(p)]
           \/ saver' = Idle
BY DEF SaveState

\* What SaveRealm leaves: the pet but for its realm flag, and a realm that is
\* the old one or the old one with the pet in front.
LEMMA SaveRealmFacts ==
    ASSUME TypeOK, Started, SaveRealm
    PROVE  /\ pet' = [pet EXCEPT !.realm_pending = FALSE]
           /\ pet' \in Pet /\ ToBytes(pet') = ToBytes(pet) /\ ToBytes(pet) \in Saved
           /\ FromGameState(pet) \in Record
           /\ realm' = IF pet.realm_pending THEN Push(realm, FromGameState(pet)) ELSE realm
           /\ REALM_DIRTY' = FALSE
           /\ \/ saver' = [at |-> "realm", buf |-> realm']
              \/ /\ ~REALM_DIRTY /\ realm' = realm
                 /\ \/ saver' = [at |-> "state", buf |-> ToBytes(pet)]
                    \/ saver' = Idle
<1>1. pet \in Pet /\ name \in 0 .. MaxEggs
  BY StartedType DEF TypeOK
<1> DEFINE p == [pet EXCEPT !.realm_pending = FALSE]
<1>2. p \in Pet /\ ToBytes(p) = ToBytes(pet) /\ ToBytes(pet) \in Saved
  BY <1>1, ToBytesType DEF Pet, ToBytes
<1>3. FromGameState(pet) \in Record
  BY <1>1 DEF Pet, Record, FromGameState
<1>4. REALM_DIRTY \in BOOLEAN /\ pet.realm_pending \in BOOLEAN
  BY <1>1 DEF TypeOK, Pet
<1>5. CASE REALM_DIRTY \/ pet.realm_pending
  BY <1>2, <1>3, <1>5 DEF SaveRealm
<1>6. CASE ~(REALM_DIRTY \/ pet.realm_pending)
  <2>1. SaveState(p) /\ pet' = p /\ realm' = realm /\ REALM_DIRTY' = FALSE
    BY <1>6 DEF SaveRealm
  <2> QED
    BY <1>2, <1>3, <1>6, <2>1, SaveStateFacts
<1> QED
  BY <1>5, <1>6

-----------------------------------------------------------------------------
(* The beginning. *)

LEMMA InitInv == Init => IInv
<1> SUFFICES ASSUME Init PROVE IInv
  OBVIOUS
<1>1. TypeOK
  <2>1. saver.at = "idle" /\ saver.buf = 0 /\ <<>> \in Seq(Record) /\ Len(<<>>) = 0
    BY DEF Init, Idle
  <2>2. saver.buf \in {0} /\ 0 \in 0 .. MaxEggs /\ 0 \in 0 .. MaxChanges
    BY <2>1, BoundsAssumption
  <2>3. {REALM_DIRTY, FRIENDS_DIRTY, screen, asking} \subseteq BOOLEAN
    BY DEF Init
  <2>4. /\ pet \in Pet \cup {NoPet} /\ name \in 0 .. MaxEggs /\ friends \in 0 .. MaxChanges
        /\ realm \in Seq(Record) /\ Len(realm) <= REALM_MAX_PETS
    BY <2>1, <2>2, RoomInRealm DEF Init
  <2>5. /\ flash \in [state : Saved \cup {NoPet}, name : 0 .. MaxEggs,
                      realm : Seq(Record), friends : 0 .. MaxChanges]
        /\ Len(flash.realm) <= REALM_MAX_PETS
    BY <2>1, <2>2, RoomInRealm DEF Init
  <2> QED
    BY <2>1, <2>2, <2>3, <2>4, <2>5 DEF Init, TypeOK
<1>2. Counts
  BY BoundsAssumption DEF Init, Counts, Started, Idle
<1>3. ListsInv /\ StateInv /\ NameInv
  BY DEF Init, ListsInv, StateInv, NameInv, Started, Idle
<1>4. HistoryInv /\ RealmIsHistory
  BY RoomInRealm DEF Init, HistoryInv, RealmIsHistory, Started
<1> QED
  BY <1>1, <1>2, <1>3, <1>4 DEF IInv

-----------------------------------------------------------------------------
(* The lists.  A change raises the flag; a save lowers it when it copies   *)
(* the list, before it writes; a failed write raises it again.             *)

LEMMA ListsStep == IInv /\ [Next]_vars => ListsInv'
<1> SUFFICES ASSUME IInv, [Next]_vars PROVE ListsInv'
  OBVIOUS
<1> USE DEF ListsInv, Idle
<1>0. TypeOK /\ Counts /\ ListsInv
  BY DEF IInv
<1>1. CASE StartNewGame
  BY <1>0, <1>1 DEF StartNewGame
<1>2. ASSUME NEW phase \in Phases, Evolve(phase) PROVE ListsInv'
  BY <1>0, <1>2 DEF Evolve
<1>3. CASE AddMoney
  BY <1>0, <1>3 DEF AddMoney
<1>4. CASE NewGeneration
  BY <1>0, <1>4 DEF NewGeneration, TypeOK
<1>5. CASE SetPetName \/ CancelNaming \/ SwitchScreen \/ TakeNamingPending
  BY <1>0, <1>5 DEF SetPetName, CancelNaming, SwitchScreen, TakeNamingPending, ram, ghosts
<1>6. CASE FriendsChange
  BY <1>0, <1>6 DEF FriendsChange
<1>7. CASE SaveIfNeeded
  <2>1. CASE FRIENDS_DIRTY
    BY <1>0, <1>7, <2>1 DEF SaveIfNeeded
  <2>2. CASE ~FRIENDS_DIRTY
    BY <1>0, <1>7, <2>2, SaveRealmFacts DEF SaveIfNeeded
  <2> QED BY <2>1, <2>2
<1>8. ASSUME NEW ok \in BOOLEAN, FriendsDone(ok) PROVE ListsInv'
  <2>1. Started /\ saver.at = "friends" /\ TypeOK
    BY <1>0, <1>8 DEF FriendsDone, Wrote, Counts
  <2>2. flash' = IF ok THEN [flash EXCEPT !.friends = saver.buf] ELSE flash
    BY <1>8 DEF FriendsDone, Wrote
  <2>3. flash'.realm = flash.realm /\ flash'.friends = IF ok THEN saver.buf ELSE flash.friends
    BY <2>1, <2>2 DEF TypeOK
  <2>4. ~FRIENDS_DIRTY' => ~FRIENDS_DIRTY /\ ok
    BY <1>8 DEF FriendsDone
  <2>5. saver'.at # "friends" /\ friends' = friends
    BY <1>8, <2>1, SaveRealmFacts DEF FriendsDone
  <2>6. ~REALM_DIRTY' => IF saver'.at = "realm" THEN saver'.buf = realm' ELSE flash'.realm = realm'
    BY <1>0, <1>8, <2>1, <2>3, SaveRealmFacts DEF FriendsDone
  <2> QED
    BY <1>0, <2>1, <2>3, <2>4, <2>5, <2>6
<1>9. ASSUME NEW ok \in BOOLEAN, RealmDone(ok) PROVE ListsInv'
  <2>1. saver.at = "realm" /\ SaveState(pet)
    BY <1>9 DEF RealmDone, Wrote
  <2>2. flash' = IF ok THEN [flash EXCEPT !.realm = saver.buf] ELSE flash
    BY <1>9 DEF RealmDone, Wrote
  <2>3. flash'.friends = flash.friends /\ flash'.realm = IF ok THEN saver.buf ELSE flash.realm
    BY <1>0, <2>2 DEF TypeOK
  <2>4. ~REALM_DIRTY' => ~REALM_DIRTY /\ ok
    BY <1>9 DEF RealmDone
  <2>5. saver'.at \notin {"realm", "friends"}
    BY <2>1, SaveStateFacts
  <2> QED
    BY <1>0, <1>9, <2>1, <2>3, <2>4, <2>5 DEF RealmDone
<1>10. ASSUME NEW ok \in BOOLEAN, StateDone(ok) \/ NameDone(ok) PROVE ListsInv'
  <2>1. flash'.friends = flash.friends /\ flash'.realm = flash.realm
    BY <1>0, <1>10 DEF StateDone, NameDone, Wrote, TypeOK
  <2>2. saver.at \in {"state", "name"} /\ saver'.at \in {"idle", "name"}
    BY <1>10 DEF StateDone, NameDone, Wrote
  <2> QED
    BY <1>0, <1>10, <2>1, <2>2 DEF StateDone, NameDone, ram
<1>11. CASE Restart
  BY <1>11 DEF Restart
<1>12. CASE UNCHANGED vars
  BY <1>0, <1>12 DEF vars, ram, ghosts
<1> QED
  BY <1>1, <1>2, <1>3, <1>4, <1>5, <1>6, <1>7, <1>8, <1>9, <1>10, <1>11, <1>12 DEF Next

-----------------------------------------------------------------------------
(* Types and counts. *)

\* A change of the pet adds at most one to its money and to the changes.
LEMMA ChangedFacts ==
    ASSUME Counts, NEW p, Changed(p)
    PROVE  /\ pet' = p /\ changes' = changes + 1 /\ changes' \in 0 .. MaxChanges
           /\ raced' = IF saver.at = "state" THEN "now" ELSE raced
BY BoundsAssumption DEF Changed, Change, Counts

\* TypeOK, in the parts a step may disturb.
RamOK ==
    /\ pet \in Pet \cup {NoPet} /\ name \in 0 .. MaxEggs
    /\ realm \in Seq(Record) /\ Len(realm) <= REALM_MAX_PETS
    /\ friends \in 0 .. MaxChanges
    /\ {REALM_DIRTY, FRIENDS_DIRTY, screen, asking} \subseteq BOOLEAN
    /\ raced \in {"no", "now", "missed"}
SaverOK ==
    /\ saver.at \in {"idle", "friends", "realm", "state", "name"}
    /\ saver.buf \in CASE saver.at = "idle" -> {0}
                       [] saver.at = "friends" -> 0 .. MaxChanges
                       [] saver.at = "realm" -> Seq(Record)
                       [] saver.at = "state" -> Saved
                       [] saver.at = "name" -> 0 .. MaxEggs
FlashOK ==
    /\ flash \in [state : Saved \cup {NoPet}, name : 0 .. MaxEggs,
                  realm : Seq(Record), friends : 0 .. MaxChanges]
    /\ Len(flash.realm) <= REALM_MAX_PETS

LEMMA TypeParts == TypeOK <=> RamOK /\ SaverOK /\ FlashOK
BY DEF TypeOK, RamOK, SaverOK, FlashOK

\* What is counted is a number, wherever it is kept.
LEMMA Amounts ==
    ASSUME TypeOK
    PROVE  /\ friends \in Nat /\ flash.friends \in Nat
           /\ saver.at = "friends" => saver.buf \in Nat
           /\ Started => pet \in Pet /\ pet.money \in Nat
           /\ flash.state # NoPet => flash.state \in Saved /\ flash.state.money \in Nat
           /\ saver.at = "state" => saver.buf \in Saved /\ saver.buf.money \in Nat
<1>1. SaverOK /\ FlashOK
  BY TypeParts
<1>2. \A p \in Pet : p.money \in Nat
  BY DEF Pet
<1>3. \A p \in Saved : p.money \in Nat
  BY DEF Saved
<1>4. saver.at = "friends" => saver.buf \in Nat
  BY <1>1 DEF SaverOK
<1>5. saver.at = "state" => saver.buf \in Saved
  BY <1>1 DEF SaverOK
<1>6. friends \in Nat /\ flash.friends \in Nat
  BY DEF TypeOK
<1>7. flash.state # NoPet => flash.state \in Saved
  BY <1>1 DEF FlashOK
<1> QED
  BY <1>2, <1>3, <1>4, <1>5, <1>6, <1>7, StartedType

\* A step that changes the pet in RAM and leaves the save alone.
LEMMA ChangedType ==
    ASSUME TypeOK, Counts, NEW p \in Pet, Changed(p),
           p.money \in 0 .. changes + 1,
           name' \in 0 .. MaxEggs, eggs' \in 0 .. MaxEggs,
           realm' \in Seq(Record), Len(realm') <= REALM_MAX_PETS,
           {REALM_DIRTY', asking'} \subseteq BOOLEAN,
           saver.at # "idle" => Started,
           UNCHANGED <<friends, FRIENDS_DIRTY, screen, saver, flash, failures, restarts>>
    PROVE  TypeOK' /\ Counts'
<1>1. /\ pet' = p /\ pet' \in Pet /\ changes' = changes + 1 /\ changes' \in 0 .. MaxChanges
      /\ raced' \in {"no", "now", "missed"} /\ pet' # NoPet
  BY ChangedFacts, NoPetIsNone DEF TypeOK
<1>2. RamOK'
  BY <1>1 DEF TypeOK, RamOK
<1>3. SaverOK' /\ FlashOK'
  <2>1. SaverOK /\ FlashOK
    BY TypeParts
  <2>2. saver' = saver /\ flash' = flash
    OBVIOUS
  <2> QED BY <2>1, <2>2 DEF SaverOK, FlashOK
<1>4. TypeOK'
  BY <1>2, <1>3 DEF TypeOK, RamOK, SaverOK, FlashOK
<1>5. \A m \in Nat : m <= changes => m <= changes'
  BY <1>1 DEF Counts
<1>6. /\ friends' <= changes' /\ flash'.friends <= changes'
      /\ saver'.at = "friends" => saver'.buf <= changes'
      /\ flash'.state # NoPet => flash'.state.money <= changes'
      /\ saver'.at = "state" => saver'.buf.money <= changes'
  BY <1>5, Amounts DEF Counts
<1>7. pet'.money <= changes'
  BY <1>1
<1> QED
  BY <1>1, <1>4, <1>6, <1>7 DEF Counts, Started

\* The end of a write: the key has its old contents or the buffer.
LEMMA WroteType ==
    ASSUME TypeOK, Counts, NEW key, NEW ok \in BOOLEAN, Wrote(key, ok),
           key \in {"friends", "realm", "state", "name"}
    PROVE  /\ FlashOK' /\ Started /\ saver.at = key /\ failures' \in Nat
           /\ flash'.friends <= changes
           /\ flash'.state # NoPet => flash'.state.money <= changes
<1>1. saver.at = key /\ flash' = IF ok THEN [flash EXCEPT ![key] = saver.buf] ELSE flash
  BY DEF Wrote
<1>2. SaverOK /\ FlashOK
  BY TypeParts
<1>3. FlashOK'
  <2>1. CASE ~ok
    BY <1>1, <1>2, <2>1 DEF FlashOK
  <2>2. CASE ok /\ key = "friends"
    BY <1>1, <1>2, <2>2 DEF FlashOK, SaverOK
  <2>3. CASE ok /\ key = "realm"
    BY <1>1, <1>2, <2>3 DEF FlashOK, SaverOK, Counts
  <2>4. CASE ok /\ key = "state"
    BY <1>1, <1>2, <2>4 DEF FlashOK, SaverOK
  <2>5. CASE ok /\ key = "name"
    BY <1>1, <1>2, <2>5 DEF FlashOK, SaverOK
  <2> QED BY <2>1, <2>2, <2>3, <2>4, <2>5
<1>4. Started
  BY <1>1 DEF Counts
<1>5. failures' \in Nat
  BY DEF Wrote, Counts
<1>6. /\ flash'.friends = IF ok /\ key = "friends" THEN saver.buf ELSE flash.friends
      /\ flash'.state = IF ok /\ key = "state" THEN saver.buf ELSE flash.state
  BY <1>1, <1>2 DEF FlashOK
<1> QED
  BY <1>1, <1>3, <1>4, <1>5, <1>6 DEF Counts

\* The tail of a save keeps the types, whatever was written before it.
LEMMA SaveRealmType ==
    ASSUME TypeOK, Counts, Started, SaveRealm, FlashOK', failures' \in Nat,
           FRIENDS_DIRTY' \in BOOLEAN,
           flash'.friends <= changes,
           flash'.state # NoPet => flash'.state.money <= changes,
           UNCHANGED <<name, friends, screen, asking, raced, eggs, changes, restarts>>
    PROVE  TypeOK' /\ Counts'
<1>1. /\ pet' \in Pet /\ pet' # NoPet /\ pet'.money = pet.money
      /\ ToBytes(pet) \in Saved /\ ToBytes(pet).money = pet.money
  <2>1. pet \in Pet
    BY StartedType
  <2>2. pet' = [pet EXCEPT !.realm_pending = FALSE] /\ pet' \in Pet
    BY SaveRealmFacts
  <2>3. pet'.money = pet.money
    BY <2>1, <2>2 DEF Pet
  <2> QED BY <2>1, <2>2, <2>3, ToBytesType, NoPetIsNone
<1>2. realm' \in Seq(Record) /\ Len(realm') <= REALM_MAX_PETS
  <2>1. realm \in Seq(Record) /\ Len(realm) <= REALM_MAX_PETS
    BY DEF TypeOK
  <2>2. /\ FromGameState(pet) \in Record
        /\ realm' = IF pet.realm_pending THEN Push(realm, FromGameState(pet)) ELSE realm
    BY SaveRealmFacts
  <2>3. /\ Push(realm, FromGameState(pet)) \in Seq(Record)
        /\ Len(Push(realm, FromGameState(pet))) <= REALM_MAX_PETS
    BY <2>1, <2>2, PushFacts, RoomInRealm
  <2> QED BY <2>1, <2>2, <2>3
<1>3. \/ saver' = [at |-> "realm", buf |-> realm']
      \/ saver' = [at |-> "state", buf |-> ToBytes(pet)]
      \/ saver' = Idle
  BY SaveRealmFacts
<1>4. REALM_DIRTY' \in BOOLEAN /\ screen' \in BOOLEAN /\ asking' \in BOOLEAN
  BY SaveRealmFacts DEF TypeOK
<1>5. RamOK'
  BY <1>1, <1>2, <1>4 DEF TypeOK, RamOK
<1>6. SaverOK'
  BY <1>1, <1>2, <1>3 DEF SaverOK, Idle
<1>7. Counts'
  BY <1>1, <1>2, <1>3 DEF Counts, Started, Idle
<1> QED
  BY <1>5, <1>6, <1>7 DEF TypeOK, RamOK, SaverOK, FlashOK

LEMMA TypeStep == IInv /\ [Next]_vars => TypeOK' /\ Counts'
<1> SUFFICES ASSUME IInv, [Next]_vars PROVE TypeOK' /\ Counts'
  OBVIOUS
<1>0. TypeOK /\ Counts
  BY DEF IInv
<1>a. REALM_DIRTY \in BOOLEAN /\ asking \in BOOLEAN /\ FRIENDS_DIRTY \in BOOLEAN /\ screen \in BOOLEAN
  BY <1>0 DEF TypeOK
<1>b. /\ changes \in Nat /\ name \in 0 .. MaxEggs /\ realm \in Seq(Record)
      /\ Len(realm) <= REALM_MAX_PETS /\ eggs \in 0 .. MaxEggs
      /\ saver.at # "idle" => Started
  BY <1>0 DEF TypeOK, Counts
<1>c. Started => /\ pet \in Pet /\ pet.money \in 0 .. changes
                 /\ FromGameState(pet) \in Record
  BY <1>0, <1>b, StartedType, Amounts DEF Counts, Pet, Record, FromGameState
<1>1. CASE StartNewGame
  <2>1. eggs' \in 1 .. MaxEggs
    BY <1>1, <1>b, BoundsAssumption DEF StartNewGame
  <2>2. Egg(eggs') \in Pet /\ Egg(eggs').money \in 0 .. changes + 1 /\ Changed(Egg(eggs'))
    BY <1>1, <1>b, <2>1, EggType DEF StartNewGame
  <2> QED
    BY <1>0, <1>1, <1>a, <1>b, <2>1, <2>2, ChangedType DEF StartNewGame
<1>2. ASSUME NEW phase \in Phases, Evolve(phase) PROVE TypeOK' /\ Counts'
  <2> DEFINE p == [Flagged(pet) EXCEPT !.phase = phase,
                      !.naming_pending = @ \/ pet.phase = "Hatching",
                      !.realm_pending = @ \/ phase = "Gone"]
  <2>1. Started /\ Changed(p)
    BY <1>2 DEF Evolve
  <2>2. p \in Pet /\ p.money \in 0 .. changes + 1
    <3>1. Flagged(pet) \in Pet /\ Flagged(pet).money \in 0 .. changes
      BY <1>c, <2>1, FlaggedType
    <3> DEFINE n == Flagged(pet).naming_pending \/ pet.phase = "Hatching"
               r == Flagged(pet).realm_pending \/ phase = "Gone"
    <3>a. n \in BOOLEAN /\ r \in BOOLEAN
      OBVIOUS
    <3>b. p = [Flagged(pet) EXCEPT !.phase = phase, !.naming_pending = n, !.realm_pending = r]
      BY Zenon
    <3>2. p \in Pet
      <4> HIDE DEF n, r, p
      <4> QED BY <3>1, <3>a, <3>b, PetFields
    <3>3. p.money = Flagged(pet).money
      BY <3>1 DEF Pet
    <3> QED BY <1>b, <3>1, <3>2, <3>3
  <2>3. UNCHANGED <<name, realm, REALM_DIRTY, friends, FRIENDS_DIRTY, screen, asking,
                    saver, flash, eggs, failures, restarts>>
    BY <1>2 DEF Evolve
  <2> HIDE DEF p
  <2> QED
    BY <1>0, <1>a, <1>b, <2>1, <2>2, <2>3, ChangedType
<1>3. CASE AddMoney
  <2> DEFINE p == [Flagged(pet) EXCEPT !.money = @ + 1]
  <2>1. Started /\ Changed(p)
    BY <1>3 DEF AddMoney
  <2>2. p \in Pet /\ p.money \in 0 .. changes + 1
    <3>1. Flagged(pet) \in Pet /\ Flagged(pet).money \in 0 .. changes
      BY <1>c, <2>1, FlaggedType
    <3>2. Flagged(pet).money + 1 \in 0 .. changes + 1 /\ changes + 1 <= MaxChanges
      BY <1>0, <1>b, <2>1, <3>1, ChangedFacts, BoundsAssumption
    <3>3. p \in Pet
      BY <1>b, <3>1, <3>2, BoundsAssumption DEF Pet
    <3>4. p.money = Flagged(pet).money + 1
      BY <3>1 DEF Pet
    <3> QED BY <3>2, <3>3, <3>4
  <2>3. UNCHANGED <<name, realm, REALM_DIRTY, friends, FRIENDS_DIRTY, screen, asking,
                    saver, flash, eggs, failures, restarts>>
    BY <1>3 DEF AddMoney
  <2> HIDE DEF p
  <2> QED
    BY <1>0, <1>a, <1>b, <2>1, <2>2, <2>3, ChangedType
<1>4. CASE NewGeneration
  <2>1. Started /\ eggs' \in 1 .. MaxEggs
    BY <1>4, <1>b, BoundsAssumption DEF NewGeneration
  <2>2. Egg(eggs') \in Pet /\ Egg(eggs').money \in 0 .. changes + 1 /\ Changed(Egg(eggs'))
    BY <1>4, <1>b, <2>1, EggType DEF NewGeneration
  <2>3. realm' \in Seq(Record) /\ Len(realm') <= REALM_MAX_PETS
    BY <1>4, <1>b, <1>c, <2>1, PushFacts, RoomInRealm DEF NewGeneration
  <2>4. REALM_DIRTY' \in BOOLEAN
    BY <1>4 DEF NewGeneration
  <2> QED
    BY <1>0, <1>4, <1>a, <1>b, <2>1, <2>2, <2>3, <2>4, ChangedType DEF NewGeneration
<1>5. CASE SetPetName
  <2>1. Started /\ Changed(Flagged(pet))
    BY <1>0, <1>5 DEF SetPetName, Counts
  <2>2. Flagged(pet) \in Pet /\ Flagged(pet).money \in 0 .. changes + 1 /\ pet.id \in 0 .. MaxEggs
    <3>1. Flagged(pet) \in Pet /\ Flagged(pet).money \in 0 .. changes
      BY <1>c, <2>1, FlaggedType
    <3>2. pet.id \in 1 .. MaxEggs
      BY <1>c, <2>1 DEF Pet
    <3> QED BY <1>b, <3>1, <3>2, BoundsAssumption
  <2>3. name' \in 0 .. MaxEggs /\ asking' \in BOOLEAN
    BY <1>5, <2>2 DEF SetPetName
  <2> QED
    BY <1>0, <1>5, <1>a, <1>b, <2>1, <2>2, <2>3, ChangedType DEF SetPetName
<1>6. CASE CancelNaming \/ SwitchScreen
  <2>1. RamOK'
    BY <1>0, <1>6, <1>a DEF CancelNaming, SwitchScreen, ram, ghosts, TypeOK, RamOK
  <2>2. SaverOK' /\ FlashOK'
    BY <1>0, <1>6, TypeParts DEF CancelNaming, SwitchScreen, SaverOK, FlashOK
  <2>3. Counts'
    BY <1>0, <1>6 DEF CancelNaming, SwitchScreen, ram, ghosts, Counts, Started
  <2> QED BY <2>1, <2>2, <2>3 DEF TypeOK, RamOK, SaverOK, FlashOK
<1>7. CASE FriendsChange
  <2>1. /\ friends' = friends + 1 /\ changes' = changes + 1 /\ friends' <= changes'
        /\ changes' \in 0 .. MaxChanges /\ friends' \in 0 .. MaxChanges
    BY <1>0, <1>7, Amounts, BoundsAssumption DEF FriendsChange, Change, Counts
  <2>2. RamOK'
    BY <1>0, <1>7, <1>a, <2>1 DEF FriendsChange, TypeOK, RamOK
  <2>3. SaverOK' /\ FlashOK'
    BY <1>0, <1>7, TypeParts DEF FriendsChange, SaverOK, FlashOK
  <2>4. \A m \in Nat : m <= changes => m <= changes'
    BY <1>b, <2>1
  <2>5. Counts'
    BY <1>0, <1>7, <2>1, <2>4, Amounts DEF FriendsChange, Counts, Started
  <2> QED BY <2>2, <2>3, <2>5 DEF TypeOK, RamOK, SaverOK, FlashOK
<1>8. CASE TakeNamingPending
  <2>1. Started /\ pet' = [pet EXCEPT !.naming_pending = FALSE] /\ asking' = TRUE
    BY <1>8 DEF TakeNamingPending
  <2>2. pet' \in Pet /\ pet'.money = pet.money /\ pet' # NoPet
    BY <1>c, <2>1, NoPetIsNone DEF Pet
  <2>3. RamOK'
    <3>1. UNCHANGED <<name, realm, REALM_DIRTY, friends, FRIENDS_DIRTY, screen, raced>>
      BY <1>8 DEF TakeNamingPending, ghosts
    <3>2. {REALM_DIRTY', FRIENDS_DIRTY', screen', asking'} \subseteq BOOLEAN
      BY <1>a, <2>1, <3>1
    <3> QED BY <1>0, <2>2, <3>1, <3>2 DEF TypeOK, RamOK
  <2>4. SaverOK' /\ FlashOK'
    BY <1>0, <1>8, TypeParts DEF TakeNamingPending, SaverOK, FlashOK
  <2>5. Counts'
    <3>1. UNCHANGED <<eggs, changes, failures, restarts, friends, flash, saver>>
      BY <1>8 DEF TakeNamingPending, ghosts
    <3> QED BY <1>0, <2>1, <2>2, <3>1 DEF Counts, Started
  <2> QED BY <2>3, <2>4, <2>5 DEF TypeOK, RamOK, SaverOK, FlashOK
<1>9. CASE SaveIfNeeded
  <2>1. Started /\ UNCHANGED <<name, friends, screen, asking, flash, raced, eggs, changes, failures, restarts>>
    BY <1>9 DEF SaveIfNeeded
  <2>2. FRIENDS_DIRTY' \in BOOLEAN
    BY <1>9 DEF SaveIfNeeded
  <2>3. FlashOK'
    BY <1>0, <2>1, TypeParts DEF FlashOK
  <2>4. CASE FRIENDS_DIRTY
    <3>1. saver' = [at |-> "friends", buf |-> friends] /\ UNCHANGED <<pet, realm, REALM_DIRTY>>
      BY <1>9, <2>4 DEF SaveIfNeeded
    <3>2. RamOK'
      BY <1>0, <1>a, <2>1, <2>2, <3>1 DEF TypeOK, RamOK
    <3>3. SaverOK'
      BY <1>0, <3>1 DEF TypeOK, SaverOK
    <3>4. Counts'
      BY <1>0, <2>1, <3>1 DEF Counts, Started
    <3> QED BY <2>3, <3>2, <3>3, <3>4 DEF TypeOK, RamOK, SaverOK, FlashOK
  <2>5. CASE ~FRIENDS_DIRTY
    <3>1. SaveRealm
      BY <1>9, <2>5 DEF SaveIfNeeded
    <3> QED BY <1>0, <1>a, <2>1, <2>2, <2>3, <3>1, SaveRealmType, Amounts DEF Counts
  <2> QED BY <2>4, <2>5
<1>10. ASSUME NEW ok \in BOOLEAN, FriendsDone(ok) PROVE TypeOK' /\ Counts'
  <2>1. Wrote("friends", ok) /\ SaveRealm /\ FRIENDS_DIRTY' \in BOOLEAN
    BY <1>10 DEF FriendsDone
  <2>2. UNCHANGED <<name, friends, screen, asking, raced, eggs, changes, restarts>>
    BY <1>10 DEF FriendsDone
  <2> QED
    BY <1>0, <2>1, <2>2, WroteType, SaveRealmType
<1>11. ASSUME NEW ok \in BOOLEAN, RealmDone(ok) PROVE TypeOK' /\ Counts'
  <2>1. Wrote("realm", ok) /\ SaveState(pet) /\ REALM_DIRTY' \in BOOLEAN
    BY <1>11 DEF RealmDone
  <2>2. UNCHANGED <<pet, name, realm, friends, FRIENDS_DIRTY, screen, asking, raced, eggs, changes, restarts>>
    BY <1>11 DEF RealmDone
  <2>3. /\ FlashOK' /\ Started /\ failures' \in Nat
        /\ flash'.friends <= changes
        /\ flash'.state # NoPet => flash'.state.money <= changes
    BY <1>0, <2>1, WroteType
  <2>4. RamOK'
    BY <1>0, <1>a, <2>1, <2>2 DEF TypeOK, RamOK
  <2>5. ToBytes(pet) \in Saved /\ ToBytes(pet).money = pet.money
    BY <1>c, <2>3, ToBytesType
  <2>6. SaverOK'
    BY <2>1, <2>5, SaveStateFacts DEF SaverOK, Idle
  <2>7. \/ saver' = [at |-> "state", buf |-> ToBytes(pet)]
        \/ saver' = Idle
    BY <2>1, SaveStateFacts
  <2>8. Counts'
    <3>1. /\ saver'.at \in {"state", "idle"}
          /\ saver'.at = "state" => saver'.buf.money = pet.money
          /\ saver'.at = "idle" => saver' = Idle
      BY <2>5, <2>7 DEF Idle
    <3>2. pet.money <= changes /\ pet' = pet /\ changes' = changes
      BY <1>c, <2>2, <2>3 DEF Counts
    <3> QED BY <1>0, <2>2, <2>3, <3>1, <3>2 DEF Counts, Started
  <2> QED BY <2>3, <2>4, <2>6, <2>8 DEF TypeOK, RamOK, SaverOK, FlashOK
<1>12. ASSUME NEW ok \in BOOLEAN, StateDone(ok) PROVE TypeOK' /\ Counts'
  <2>1. /\ Wrote("state", ok) /\ pet' = IF ok THEN [pet EXCEPT !.save_pending = FALSE] ELSE pet
        /\ saver' = IF ok THEN [at |-> "name", buf |-> name] ELSE Idle
        /\ raced' \in {"no", "missed"}
    BY <1>12 DEF StateDone
  <2>2. UNCHANGED <<name, realm, REALM_DIRTY, friends, FRIENDS_DIRTY, screen, asking, eggs, changes, restarts>>
    BY <1>12 DEF StateDone
  <2>3. /\ FlashOK' /\ Started /\ failures' \in Nat
        /\ flash'.friends <= changes
        /\ flash'.state # NoPet => flash'.state.money <= changes
    BY <1>0, <2>1, WroteType
  <2>4. pet' \in Pet /\ pet'.money = pet.money /\ pet' # NoPet
    BY <1>c, <2>1, <2>3, NoPetIsNone DEF Pet
  <2>5. RamOK'
    BY <1>0, <2>1, <2>2, <2>4 DEF TypeOK, RamOK
  <2>6. SaverOK'
    BY <1>b, <2>1 DEF SaverOK, Idle
  <2>7. Counts'
    <3>1. /\ saver'.at \in {"name", "idle"}
          /\ saver'.at = "idle" => saver' = Idle
      BY <2>1 DEF Idle
    <3> QED BY <1>0, <2>2, <2>3, <2>4, <3>1 DEF Counts, Started
  <2> QED BY <2>3, <2>5, <2>6, <2>7 DEF TypeOK, RamOK, SaverOK, FlashOK
<1>13. ASSUME NEW ok \in BOOLEAN, NameDone(ok) PROVE TypeOK' /\ Counts'
  <2>1. Wrote("name", ok) /\ saver' = Idle
    BY <1>13 DEF NameDone
  <2>2. UNCHANGED <<pet, name, realm, REALM_DIRTY, friends, FRIENDS_DIRTY, screen, asking, raced, eggs, changes, restarts>>
    BY <1>13 DEF NameDone, ram
  <2>3. /\ FlashOK' /\ Started /\ failures' \in Nat
        /\ flash'.friends <= changes
        /\ flash'.state # NoPet => flash'.state.money <= changes
    BY <1>0, <2>1, WroteType
  <2>4. RamOK' /\ SaverOK'
    BY <1>0, <2>1, <2>2 DEF TypeOK, RamOK, SaverOK, Idle
  <2>5. Counts'
    BY <1>0, <2>1, <2>2, <2>3 DEF Counts, Started, Idle
  <2> QED BY <2>3, <2>4, <2>5 DEF TypeOK, RamOK, SaverOK, FlashOK
<1>14. CASE Restart
  <2>1. /\ name' = flash.name /\ realm' = flash.realm /\ friends' = flash.friends
        /\ REALM_DIRTY' = FALSE /\ FRIENDS_DIRTY' = FALSE /\ screen' = FALSE /\ asking' = FALSE
        /\ raced' = "no" /\ saver' = Idle /\ restarts' = restarts + 1
        /\ UNCHANGED <<flash, eggs, changes, failures>>
    BY <1>14 DEF Restart
  <2>2. SaverOK' /\ FlashOK' /\ FlashOK
    BY <1>0, <2>1, TypeParts DEF SaverOK, FlashOK, Idle
  <2>3. /\ pet' \in Pet \cup {NoPet}
        /\ pet' # NoPet => flash.state # NoPet /\ pet'.money = flash.state.money
    <3>1. CASE flash.state = NoPet
      BY <1>14, <3>1 DEF Restart
    <3>2. CASE flash.state # NoPet
      <4> DEFINE n == flash.name = 0 /\ flash.state.phase = "Active"
                 p == FromBytes(flash.state)
      <4>1. flash.state \in Saved /\ n \in BOOLEAN
        BY <2>2, <3>2 DEF FlashOK
      <4>2. p \in Pet /\ p.money = flash.state.money
        BY <4>1, FromBytesType
      <4>3. pet' = [p EXCEPT !.naming_pending = n]
        BY <1>14, <3>2 DEF Restart
      <4> HIDE DEF n, p
      <4> QED BY <3>2, <4>1, <4>2, <4>3 DEF Pet
    <3> QED BY <3>1, <3>2
  <2>4. RamOK'
    BY <2>1, <2>2, <2>3 DEF RamOK, FlashOK
  <2>5. Counts'
    BY <1>0, <2>1, <2>3 DEF Counts, Started, Idle
  <2> QED BY <2>2, <2>4, <2>5 DEF TypeOK, RamOK, SaverOK, FlashOK
<1>15. CASE UNCHANGED vars
  <2>1. RamOK' /\ SaverOK' /\ FlashOK'
    BY <1>0, <1>15, TypeParts DEF vars, ram, ghosts, RamOK, SaverOK, FlashOK
  <2>2. Counts'
    BY <1>0, <1>15 DEF vars, ram, ghosts, Counts, Started
  <2> QED BY <2>1, <2>2 DEF TypeOK, RamOK, SaverOK, FlashOK
<1> QED
  BY <1>1, <1>2, <1>3, <1>4, <1>5, <1>6, <1>7, <1>8, <1>9, <1>10, <1>11, <1>12, <1>13,
     <1>14, <1>15 DEF Next

-----------------------------------------------------------------------------
(* The pet and its name.  A change flags the pet; one that falls into the  *)
(* writing of the state also says so in `raced'.                           *)

LEMMA ChangedState ==
    ASSUME Counts, StateInv, NameInv, NEW p, Changed(p), p.save_pending, UNCHANGED <<saver, flash>>
    PROVE  StateInv' /\ NameInv'
<1>1. /\ pet' = p /\ raced' = IF saver.at = "state" THEN "now" ELSE raced
      /\ saver' = saver /\ flash' = flash
  BY ChangedFacts
<1>2. StateInv'
  BY <1>1 DEF StateInv
<1>3. NameInv'
  BY <1>1 DEF NameInv
<1> QED BY <1>2, <1>3

\* The tail of a save starts no write but of the pet as it is.
LEMMA SaveRealmState ==
    ASSUME TypeOK, Counts, StateInv, NameInv, Started, SaveRealm,
           saver.at \notin {"state", "name"},
           UNCHANGED <<raced, name>>, failures' = 0 => failures = 0,
           flash'.state = flash.state, flash'.name = flash.name
    PROVE  StateInv' /\ NameInv'
<1>1. /\ ToBytes(pet') = ToBytes(pet) /\ pet'.save_pending = pet.save_pending
      /\ Started' => Started
  BY SaveRealmFacts, StartedType DEF Pet
<1>2. /\ saver'.at \in {"realm", "state", "idle"}
      /\ saver'.at = "state" => saver'.buf = ToBytes(pet')
  BY <1>1, SaveRealmFacts DEF Idle
<1>3. raced' = raced /\ raced # "now"
  BY DEF StateInv
<1>4. StateInv'
  BY <1>1, <1>2, <1>3 DEF StateInv
<1>5. NameInv'
  BY <1>1, <1>2 DEF NameInv
<1> QED BY <1>4, <1>5

LEMMA StateStep == IInv /\ [Next]_vars => StateInv' /\ NameInv'
<1> SUFFICES ASSUME IInv, [Next]_vars PROVE StateInv' /\ NameInv'
  OBVIOUS
<1>0. TypeOK /\ Counts /\ StateInv /\ NameInv
  BY DEF IInv
<1>a. /\ eggs \in 0 .. MaxEggs /\ failures \in Nat
      /\ Started => pet \in Pet
  BY <1>0, StartedType DEF Counts
<1>1. CASE StartNewGame \/ NewGeneration
  <2>1. eggs' \in 1 .. MaxEggs
    BY <1>1, <1>a, BoundsAssumption DEF StartNewGame, NewGeneration
  <2>2. Egg(eggs').save_pending /\ Changed(Egg(eggs')) /\ UNCHANGED <<saver, flash>>
    BY <1>1, <2>1, EggType DEF StartNewGame, NewGeneration
  <2> QED BY <1>0, <2>2, ChangedState
<1>2. ASSUME NEW phase \in Phases, Evolve(phase) PROVE StateInv' /\ NameInv'
  <2> DEFINE p == [Flagged(pet) EXCEPT !.phase = phase,
                      !.naming_pending = @ \/ pet.phase = "Hatching",
                      !.realm_pending = @ \/ phase = "Gone"]
  <2>1. Started /\ Changed(p) /\ UNCHANGED <<saver, flash>>
    BY <1>2 DEF Evolve
  <2>2. p.save_pending
    BY <1>a, <2>1, FlaggedType DEF Pet
  <2> HIDE DEF p
  <2> QED BY <1>0, <2>1, <2>2, ChangedState
<1>3. CASE AddMoney
  <2> DEFINE p == [Flagged(pet) EXCEPT !.money = @ + 1]
  <2>1. Started /\ Changed(p) /\ UNCHANGED <<saver, flash>>
    BY <1>3 DEF AddMoney
  <2>2. p.save_pending
    BY <1>a, <2>1, FlaggedType DEF Pet
  <2> HIDE DEF p
  <2> QED BY <1>0, <2>1, <2>2, ChangedState
<1>4. CASE SetPetName
  <2>1. Started /\ Changed(Flagged(pet)) /\ UNCHANGED <<saver, flash>>
    BY <1>0, <1>4 DEF SetPetName, Counts
  <2>2. Flagged(pet).save_pending
    BY <1>a, <2>1, FlaggedType
  <2> QED BY <1>0, <2>1, <2>2, ChangedState
<1>5. CASE CancelNaming \/ SwitchScreen \/ FriendsChange
  <2>1. UNCHANGED <<pet, name, saver, flash, raced, failures>>
    BY <1>5 DEF CancelNaming, SwitchScreen, FriendsChange, ram, ghosts
  <2> QED BY <1>0, <2>1 DEF StateInv, NameInv, Started, ToBytes
<1>6. CASE TakeNamingPending
  <2>1. /\ Started /\ pet' = [pet EXCEPT !.naming_pending = FALSE]
        /\ UNCHANGED <<name, saver, flash, raced, failures>>
    BY <1>6 DEF TakeNamingPending, ghosts
  <2>2. ToBytes(pet') = ToBytes(pet) /\ pet'.save_pending = pet.save_pending
    BY <1>a, <2>1 DEF Pet, ToBytes
  <2> QED BY <1>0, <2>1, <2>2 DEF StateInv, NameInv, Started
<1>7. CASE SaveIfNeeded
  <2>1. /\ Started /\ saver = Idle /\ flash' = flash
        /\ UNCHANGED <<raced, name, failures>>
    BY <1>7 DEF SaveIfNeeded
  <2>2. CASE FRIENDS_DIRTY
    <3>1. saver'.at = "friends" /\ pet' = pet
      BY <1>7, <2>2 DEF SaveIfNeeded
    <3> QED BY <1>0, <2>1, <3>1 DEF StateInv, NameInv, Started, Idle, ToBytes
  <2>3. CASE ~FRIENDS_DIRTY
    BY <1>0, <1>7, <2>1, <2>3, SaveRealmState DEF SaveIfNeeded, Idle
  <2> QED BY <2>2, <2>3
<1>8. ASSUME NEW ok \in BOOLEAN, FriendsDone(ok) PROVE StateInv' /\ NameInv'
  <2>1. /\ Wrote("friends", ok) /\ SaveRealm /\ UNCHANGED <<raced, name>>
        /\ saver.at = "friends" /\ Started
    BY <1>0, <1>8 DEF FriendsDone, Wrote, Counts
  <2>2. flash'.state = flash.state /\ flash'.name = flash.name
    BY <1>0, <2>1 DEF Wrote, TypeOK
  <2>3. failures' = 0 => failures = 0
    BY <1>a, <2>1 DEF Wrote
  <2> QED BY <1>0, <2>1, <2>2, <2>3, SaveRealmState
<1>9. ASSUME NEW ok \in BOOLEAN, RealmDone(ok) PROVE StateInv' /\ NameInv'
  <2>1. /\ Wrote("realm", ok) /\ SaveState(pet) /\ UNCHANGED <<pet, raced, name>>
        /\ saver.at = "realm"
    BY <1>9 DEF RealmDone, Wrote
  <2>2. flash'.state = flash.state /\ flash'.name = flash.name
    BY <1>0, <2>1 DEF Wrote, TypeOK
  <2>3. failures' = 0 => failures = 0
    BY <1>a, <2>1 DEF Wrote
  <2>4. \/ saver' = [at |-> "state", buf |-> ToBytes(pet)]
        \/ saver' = Idle
    BY <2>1, SaveStateFacts
  <2>5. /\ saver'.at \in {"state", "idle"} /\ ToBytes(pet') = ToBytes(pet)
        /\ saver'.at = "state" => saver'.buf = ToBytes(pet)
    BY <2>1, <2>4 DEF Idle
  <2>6. StateInv'
    BY <1>0, <2>1, <2>2, <2>5 DEF StateInv, Started
  <2>7. NameInv'
    BY <1>0, <2>1, <2>2, <2>3, <2>5 DEF NameInv, Started
  <2> QED BY <2>6, <2>7
<1>10. ASSUME NEW ok \in BOOLEAN, StateDone(ok) PROVE StateInv' /\ NameInv'
  <2>1. /\ Wrote("state", ok) /\ saver.at = "state" /\ Started /\ name' = name
        /\ pet' = IF ok THEN [pet EXCEPT !.save_pending = FALSE] ELSE pet
        /\ saver' = IF ok THEN [at |-> "name", buf |-> name] ELSE Idle
        /\ raced' = IF raced = (IF ok THEN "now" ELSE "missed") THEN "missed" ELSE "no"
    BY <1>0, <1>10 DEF StateDone, Wrote, Counts
  <2>2. ToBytes(pet') = ToBytes(pet)
    BY <1>a, <2>1 DEF Pet, ToBytes
  <2>3. CASE ok
    <3>1. flash'.state = saver.buf /\ saver'.at = "name" /\ saver'.buf = name'
      BY <1>0, <2>1, <2>3 DEF Wrote, TypeOK
    <3> QED BY <1>0, <2>1, <2>2, <2>3, <3>1 DEF StateInv, NameInv
  <2>4. CASE ~ok
    <3>1. /\ flash'.state = flash.state /\ saver'.at = "idle" /\ failures' # 0
          /\ pet' = pet /\ raced' = IF raced = "missed" THEN "missed" ELSE "no"
      BY <1>a, <2>1, <2>4 DEF Wrote, Idle
    <3>2. raced' = "no" /\ ~pet'.save_pending => raced = "no"
      BY <1>0, <3>1 DEF StateInv, TypeOK
    <3> QED BY <1>0, <2>1, <2>2, <3>1, <3>2 DEF StateInv, NameInv
  <2> QED BY <2>3, <2>4
<1>11. ASSUME NEW ok \in BOOLEAN, NameDone(ok) PROVE StateInv' /\ NameInv'
  <2>1. /\ Wrote("name", ok) /\ saver.at = "name" /\ saver' = Idle
        /\ UNCHANGED <<pet, name, raced>>
    BY <1>11 DEF NameDone, Wrote, ram
  <2>2. failures' = 0 => failures = 0 /\ ok
    BY <1>a, <2>1 DEF Wrote
  <2>3. flash'.state = flash.state /\ (ok => flash'.name = saver.buf)
    BY <1>0, <2>1 DEF Wrote, TypeOK
  <2> QED BY <1>0, <2>1, <2>2, <2>3 DEF StateInv, NameInv, Started, Idle, ToBytes
<1>12. CASE Restart
  <2>1. /\ name' = flash.name /\ flash' = flash /\ raced' = "no" /\ saver'.at = "idle"
    BY <1>12 DEF Restart, Idle
  <2>2. pet' # NoPet => ToBytes(pet') = flash.state
    <3>1. CASE flash.state = NoPet
      BY <1>12, <3>1 DEF Restart
    <3>2. CASE flash.state # NoPet
      <4>1. flash.state \in Saved
        BY <1>0, <3>2 DEF TypeOK
      <4> DEFINE n == flash.name = 0 /\ flash.state.phase = "Active"
                 p == FromBytes(flash.state)
      <4>2. p \in Pet /\ ToBytes(p) = flash.state
        BY <4>1, FromBytesType
      <4>3. pet' = [p EXCEPT !.naming_pending = n]
        BY <1>12, <3>2 DEF Restart
      <4> HIDE DEF n, p
      <4> QED BY <4>2, <4>3 DEF Pet, ToBytes
    <3> QED BY <3>1, <3>2
  <2> QED BY <2>1, <2>2 DEF StateInv, NameInv, Started
<1>13. CASE UNCHANGED vars
  BY <1>0, <1>13 DEF vars, ram, ghosts, StateInv, NameInv, Started, ToBytes
<1> QED
  BY <1>1, <1>2, <1>3, <1>4, <1>5, <1>6, <1>7, <1>8, <1>9, <1>10, <1>11, <1>12, <1>13 DEF Next

-----------------------------------------------------------------------------
(* The realm and the history of departures.  `records' are the last of the *)
(* n first departures in `ids', newest first.                              *)

Chronicle(records, n, ids) ==
    /\ Len(records) = IF n < REALM_MAX_PETS THEN n ELSE REALM_MAX_PETS
    /\ \A i \in 1 .. Len(records) : records[i].id = ids[n + 1 - i]

Waiting == IF Started /\ pet.realm_pending THEN 1 ELSE 0

LEMMA RealmIsChronicle ==
    RealmIsHistory <=> (restarts = 0 => Chronicle(realm, Len(past) - Waiting, past))
BY DEF RealmIsHistory, Chronicle, Waiting

\* One more departure, and its record in front.
LEMMA ChroniclePush ==
    ASSUME NEW records \in Seq(Record), Len(records) <= REALM_MAX_PETS, NEW n \in Nat,
           NEW ids, NEW ids2, NEW r \in Record, Chronicle(records, n, ids),
           \A k \in 1 .. n : ids2[k] = ids[k], ids2[n + 1] = r.id
    PROVE  Chronicle(Push(records, r), n + 1, ids2)
<1> DEFINE new == Push(records, r)
<1>1. /\ Len(new) = IF Len(records) < REALM_MAX_PETS THEN Len(records) + 1 ELSE REALM_MAX_PETS
      /\ \A i \in 1 .. Len(new) : new[i] = IF i = 1 THEN r ELSE records[i - 1]
  BY PushFacts
<1> HIDE DEF new
<1>2. Len(new) = IF n + 1 < REALM_MAX_PETS THEN n + 1 ELSE REALM_MAX_PETS
  BY <1>1, RoomInRealm DEF Chronicle
<1>3. ASSUME NEW i \in 1 .. Len(new) PROVE new[i].id = ids2[(n + 1) + 1 - i]
  <2>1. CASE i = 1
    BY <1>1, <1>2, <2>1
  <2>2. CASE i # 1
    <3>1. i - 1 \in 1 .. Len(records) /\ i - 1 <= n
      BY <1>1, <1>2, <2>2, RoomInRealm DEF Chronicle
    <3>2. records[i - 1].id = ids[n + 1 - (i - 1)]
      BY <3>1 DEF Chronicle
    <3>3. i \in Int /\ n + 1 - (i - 1) = (n + 1) + 1 - i
      BY <3>1, <1>1
    <3>4. (n + 1) + 1 - i \in 1 .. n
      BY <3>1, <3>3, <2>2
    <3> QED BY <1>1, <2>2, <3>2, <3>3, <3>4
  <2> QED BY <2>1, <2>2
<1> QED BY <1>2, <1>3 DEF Chronicle, new

\* More departures that are not recorded yet change nothing.
LEMMA ChronicleAppend ==
    ASSUME NEW records, NEW n \in Nat, NEW ids \in Seq(1 .. MaxEggs), n <= Len(ids),
           NEW id, Len(records) \in Nat, Len(records) <= n, Chronicle(records, n, ids)
    PROVE  Chronicle(records, n, Append(ids, id))
BY DEF Chronicle

\* The tail of a save records the pet that waits.
LEMMA SaveRealmHistory ==
    ASSUME TypeOK, HistoryInv, RealmIsHistory, Started, SaveRealm,
           UNCHANGED <<past, restarts>>
    PROVE  HistoryInv' /\ RealmIsHistory'
<1>1. /\ pet \in Pet /\ pet' = [pet EXCEPT !.realm_pending = FALSE] /\ pet' \in Pet
      /\ FromGameState(pet) \in Record
      /\ realm' = IF pet.realm_pending THEN Push(realm, FromGameState(pet)) ELSE realm
  BY StartedType, SaveRealmFacts
<1>2. ~pet'.realm_pending /\ past \in Seq(1 .. MaxEggs) /\ Len(past) \in Nat
  BY <1>1 DEF Pet, HistoryInv
<1>3. HistoryInv'
  BY <1>2 DEF HistoryInv
<1>4. Waiting' = 0
  BY <1>2 DEF Waiting
<1>5. ASSUME restarts = 0 PROVE Chronicle(realm', Len(past), past)
  <2>1. Chronicle(realm, Len(past) - Waiting, past)
    BY <1>5, RealmIsChronicle
  <2>2. CASE ~pet.realm_pending
    BY <1>1, <1>2, <2>1, <2>2 DEF Waiting
  <2>3. CASE pet.realm_pending
    <3>1. Waiting = 1 /\ Len(past) > 0 /\ past[Len(past)] = FromGameState(pet).id
      BY <1>5, <2>3 DEF Waiting, HistoryInv, FromGameState
    <3>2. Len(past) - 1 \in Nat /\ (Len(past) - 1) + 1 = Len(past)
      BY <1>2, <3>1
    <3>3. realm \in Seq(Record) /\ Len(realm) <= REALM_MAX_PETS
      BY DEF TypeOK
    <3>4. Chronicle(Push(realm, FromGameState(pet)), (Len(past) - 1) + 1, past)
      BY <1>1, <2>1, <3>1, <3>2, <3>3, ChroniclePush
    <3> QED BY <1>1, <2>3, <3>2, <3>4
  <2> QED BY <2>2, <2>3
<1>6. RealmIsHistory' <=> (restarts' = 0 => Chronicle(realm', Len(past') - Waiting', past'))
  BY DEF RealmIsHistory, Chronicle, Waiting
<1> QED BY <1>2, <1>3, <1>4, <1>5, <1>6

LEMMA HistoryStep == IInv /\ [Next]_vars => HistoryInv' /\ RealmIsHistory'
<1> SUFFICES ASSUME IInv, [Next]_vars PROVE HistoryInv' /\ RealmIsHistory'
  OBVIOUS
<1>0. TypeOK /\ Counts /\ HistoryInv /\ RealmIsHistory
  BY DEF IInv
<1>a. /\ past \in Seq(1 .. MaxEggs) /\ Len(past) \in Nat /\ eggs \in 0 .. MaxEggs
      /\ realm \in Seq(Record) /\ Len(realm) \in Nat /\ Len(realm) <= REALM_MAX_PETS
      /\ restarts \in Nat
      /\ Started => pet \in Pet /\ pet.id \in 1 .. MaxEggs
  BY <1>0, StartedType DEF HistoryInv, TypeOK, Counts, Pet
<1>b. RealmIsHistory' <=> (restarts' = 0 => Chronicle(realm', Len(past') - Waiting', past'))
  BY DEF RealmIsHistory, Chronicle, Waiting
<1>c. restarts = 0 => Chronicle(realm, Len(past) - Waiting, past)
  BY <1>0, RealmIsChronicle
\* A step that leaves the realm, the past and the waiting pet alone.
<1>d. ASSUME UNCHANGED <<realm, past, restarts>>,
             Started' /\ pet'.realm_pending <=> Started /\ pet.realm_pending,
             Started /\ pet.realm_pending => pet'.id = pet.id /\ pet'.phase = pet.phase
      PROVE  HistoryInv' /\ RealmIsHistory'
  <2>1. Waiting' = Waiting
    BY <1>d DEF Waiting
  <2>2. HistoryInv'
    BY <1>0, <1>d DEF HistoryInv
  <2> QED BY <1>b, <1>c, <1>d, <2>1, <2>2
<1>1. CASE StartNewGame
  <2>1. eggs' \in 1 .. MaxEggs /\ ~Started
    BY <1>1, <1>a, BoundsAssumption DEF StartNewGame
  <2>2. ~pet'.realm_pending
    BY <1>1, <2>1, EggType DEF StartNewGame, Changed
  <2> QED BY <1>1, <1>d, <2>1, <2>2 DEF StartNewGame
<1>2. ASSUME NEW phase \in Phases, Evolve(phase) PROVE HistoryInv' /\ RealmIsHistory'
  <2> DEFINE r == Flagged(pet).realm_pending \/ phase = "Gone"
  <2>1. /\ Started /\ pet.phase # "Gone" /\ UNCHANGED <<realm, restarts>>
        /\ past' = IF phase = "Gone" THEN Append(past, pet.id) ELSE past
    BY <1>2 DEF Evolve
  <2>2. ~pet.realm_pending
    BY <1>0, <2>1 DEF HistoryInv
  <2>3. /\ Flagged(pet) \in Pet /\ Flagged(pet).realm_pending = pet.realm_pending
        /\ Flagged(pet).id = pet.id
    BY <1>a, <2>1, FlaggedType
  <2>4. /\ pet' # NoPet /\ (pet'.realm_pending <=> r) /\ pet'.id = pet.id /\ pet'.phase = phase
    <3>1. pet' = [Flagged(pet) EXCEPT !.phase = phase,
                      !.naming_pending = @ \/ pet.phase = "Hatching",
                      !.realm_pending = @ \/ phase = "Gone"]
      BY <1>2 DEF Evolve, Changed
    <3> DEFINE n == Flagged(pet).naming_pending \/ pet.phase = "Hatching"
    <3>2. pet' = [Flagged(pet) EXCEPT !.phase = phase, !.naming_pending = n, !.realm_pending = r]
      BY <3>1, Zenon
    <3>3. n \in BOOLEAN /\ r \in BOOLEAN
      OBVIOUS
    <3> DEFINE p == Flagged(pet)
               q == [p EXCEPT !.phase = phase, !.naming_pending = n, !.realm_pending = r]
    <3> HIDE DEF n, r, p
    <3>4. q \in Pet /\ q.phase = phase /\ (q.realm_pending <=> r) /\ q.id = p.id
      <4>1. p \in Pet
        BY <2>3 DEF p
      <4>2. q \in Pet
        BY <3>3, <4>1 DEF Pet
      <4>3. q.phase = phase /\ q.id = p.id
        BY <4>1 DEF Pet
      <4>4. q.realm_pending <=> r
        BY <4>1 DEF Pet
      <4> QED BY <4>2, <4>3, <4>4
    <3>5. pet' = q /\ p.id = pet.id
      BY <2>3, <3>2 DEF p
    <3> HIDE DEF q
    <3> QED BY <3>4, <3>5, NoPetIsNone
  <2>5. Waiting = 0
    BY <2>2 DEF Waiting
  <2>6. CASE phase = "Gone"
    <3>0. Started' /\ pet'.realm_pending
      BY <2>4, <2>6, Zenon DEF Started
    <3>1. Waiting' = 1 /\ Len(past') = Len(past) + 1 /\ past' = Append(past, pet.id)
      BY <1>a, <2>1, <2>6, <3>0 DEF Waiting
    <3>2. past' \in Seq(1 .. MaxEggs) /\ past'[Len(past')] = pet.id
      <4>1. pet.id \in 1 .. MaxEggs
        BY <1>a, <2>1
      <4>2. /\ Append(past, pet.id) \in Seq(1 .. MaxEggs)
            /\ Append(past, pet.id)[Len(past) + 1] = pet.id
        BY <1>a, <4>1
      <4> QED BY <3>1, <4>2
    <3>3. HistoryInv'
      BY <1>a, <2>4, <2>6, <3>1, <3>2 DEF HistoryInv
    <3>4. ASSUME restarts = 0 PROVE Chronicle(realm, Len(past), Append(past, pet.id))
      <4>1. Chronicle(realm, Len(past), past)
        BY <1>a, <1>c, <2>5, <3>4
      <4>2. Len(realm) <= Len(past)
        BY <1>a, <4>1, RoomInRealm DEF Chronicle
      <4> QED BY <1>a, <4>1, <4>2, ChronicleAppend
    <3>5. Len(past') - Waiting' = Len(past)
      BY <1>a, <3>1
    <3> QED BY <1>b, <2>1, <3>1, <3>3, <3>4, <3>5
  <2>7. CASE phase # "Gone"
    <3>1. past' = past /\ ~pet'.realm_pending
      BY <2>1, <2>2, <2>3, <2>4, <2>7
    <3> QED BY <1>d, <2>1, <2>2, <3>1
  <2> QED BY <2>6, <2>7
<1>3. CASE AddMoney
  <2>1. Started /\ pet' = [Flagged(pet) EXCEPT !.money = @ + 1] /\ UNCHANGED <<realm, past, restarts>>
    BY <1>3 DEF AddMoney, Changed
  <2>2. /\ pet' # NoPet /\ pet'.realm_pending = pet.realm_pending /\ pet'.id = pet.id
        /\ pet'.phase = pet.phase
    BY <1>a, <2>1, FlaggedType DEF Pet, NoPet
  <2> QED BY <1>d, <2>1, <2>2 DEF Started
<1>4. CASE NewGeneration
  <2>1. /\ Started /\ eggs' \in 1 .. MaxEggs /\ pet' = Egg(eggs') /\ UNCHANGED restarts
        /\ realm' = IF ShouldRecord(pet) THEN Push(realm, FromGameState(pet)) ELSE realm
        /\ past' = IF pet.phase \in {"Active", "Leaving"} THEN Append(past, pet.id) ELSE past
    BY <1>4, <1>a, BoundsAssumption DEF NewGeneration, Changed
  <2>2. ~pet'.realm_pending /\ Waiting' = 0 /\ pet.phase \in Phases
    BY <1>a, <2>1, EggType DEF Waiting, Pet
  <2>3. FromGameState(pet) \in Record /\ FromGameState(pet).id = pet.id
    BY <1>0, <1>a, <2>1 DEF FromGameState, Record, TypeOK
  <2>4. HistoryInv'
    <3>1. past' \in Seq(1 .. MaxEggs)
      <4>1. Append(past, pet.id) \in Seq(1 .. MaxEggs)
        BY <1>a, <2>1
      <4> QED BY <1>a, <2>1, <4>1
    <3> QED BY <2>2, <3>1 DEF HistoryInv
  <2>5. ASSUME restarts = 0 PROVE Chronicle(realm', Len(past'), past')
    <3>1. CASE pet.phase \in {"Active", "Leaving"}
      <4>1. Waiting = 0 /\ ShouldRecord(pet)
        BY <1>0, <3>1 DEF HistoryInv, Waiting, ShouldRecord
      <4>2. Chronicle(realm, Len(past), past)
        BY <1>a, <1>c, <2>5, <4>1
      <4>3. /\ past' = Append(past, pet.id) /\ Len(past') = Len(past) + 1
            /\ \A k \in 1 .. Len(past) : past'[k] = past[k]
            /\ past'[Len(past) + 1] = FromGameState(pet).id
        BY <1>a, <2>1, <2>3, <3>1
      <4>4. Chronicle(Push(realm, FromGameState(pet)), Len(past) + 1, past')
        BY <1>a, <2>3, <4>2, <4>3, ChroniclePush
      <4> QED BY <2>1, <4>1, <4>3, <4>4
    <3>2. CASE pet.phase = "Gone" /\ pet.realm_pending
      <4>1. /\ Waiting = 1 /\ ShouldRecord(pet) /\ past' = past
            /\ Len(past) > 0 /\ past[Len(past)] = FromGameState(pet).id
        BY <1>0, <2>1, <2>3, <2>5, <3>2 DEF HistoryInv, Waiting, ShouldRecord
      <4>2. Len(past) - 1 \in Nat /\ (Len(past) - 1) + 1 = Len(past)
        BY <1>a, <4>1
      <4>3. Chronicle(realm, Len(past) - 1, past)
        BY <1>c, <2>5, <4>1
      <4>4. Chronicle(Push(realm, FromGameState(pet)), (Len(past) - 1) + 1, past)
        BY <1>a, <2>3, <4>1, <4>2, <4>3, ChroniclePush
      <4> QED BY <2>1, <4>1, <4>2, <4>4
    <3>3. CASE pet.phase = "Hatching" \/ (pet.phase = "Gone" /\ ~pet.realm_pending)
      <4>1. Waiting = 0 /\ ~ShouldRecord(pet) /\ past' = past /\ realm' = realm
        BY <1>0, <2>1, <3>3 DEF HistoryInv, Waiting, ShouldRecord
      <4> QED BY <1>a, <1>c, <2>5, <4>1
    <3> QED BY <2>2, <3>1, <3>2, <3>3 DEF Phases
  <2>6. Len(past') \in Nat
    BY <2>4 DEF HistoryInv
  <2>7. Len(past') - Waiting' = Len(past')
    BY <2>2, <2>6
  <2> QED BY <1>b, <2>1, <2>4, <2>5, <2>7
<1>5. CASE SetPetName
  <2>1. Started /\ pet' = Flagged(pet) /\ UNCHANGED <<realm, past, restarts>>
    BY <1>0, <1>5 DEF SetPetName, Changed, Counts
  <2>2. Flagged(pet) # NoPet
    BY <1>a, <2>1, FlaggedType, NoPetIsNone
  <2> QED BY <1>a, <1>d, <2>1, <2>2, FlaggedType DEF Started
<1>6. CASE CancelNaming \/ SwitchScreen \/ FriendsChange
  <2>1. UNCHANGED <<pet, realm, past, restarts>>
    BY <1>6 DEF CancelNaming, SwitchScreen, FriendsChange, ram, ghosts
  <2> QED BY <1>d, <2>1 DEF Started
<1>7. CASE TakeNamingPending
  <2>1. /\ Started /\ pet' = [pet EXCEPT !.naming_pending = FALSE]
        /\ UNCHANGED <<realm, past, restarts>>
    BY <1>7 DEF TakeNamingPending, ghosts
  <2>2. /\ pet' # NoPet /\ pet'.realm_pending = pet.realm_pending /\ pet'.id = pet.id
        /\ pet'.phase = pet.phase
    BY <1>a, <2>1 DEF Pet, NoPet
  <2> QED BY <1>d, <2>1, <2>2 DEF Started
<1>8. CASE SaveIfNeeded
  <2>1. Started /\ UNCHANGED <<past, restarts>>
    BY <1>8 DEF SaveIfNeeded
  <2>2. CASE FRIENDS_DIRTY
    BY <1>8, <1>d, <2>1, <2>2 DEF SaveIfNeeded, Started
  <2>3. CASE ~FRIENDS_DIRTY
    BY <1>0, <1>8, <2>1, <2>3, SaveRealmHistory DEF SaveIfNeeded
  <2> QED BY <2>2, <2>3
<1>9. ASSUME NEW ok \in BOOLEAN, FriendsDone(ok) PROVE HistoryInv' /\ RealmIsHistory'
  <2>1. Started /\ SaveRealm /\ UNCHANGED <<past, restarts>>
    BY <1>0, <1>9 DEF FriendsDone, Wrote, Counts
  <2> QED BY <1>0, <2>1, SaveRealmHistory
<1>10. ASSUME NEW ok \in BOOLEAN, RealmDone(ok) \/ NameDone(ok) PROVE HistoryInv' /\ RealmIsHistory'
  <2>1. UNCHANGED <<pet, realm, past, restarts>>
    BY <1>10 DEF RealmDone, NameDone, ram
  <2> QED BY <1>d, <2>1 DEF Started
<1>11. ASSUME NEW ok \in BOOLEAN, StateDone(ok) PROVE HistoryInv' /\ RealmIsHistory'
  <2>1. /\ pet' = IF ok THEN [pet EXCEPT !.save_pending = FALSE] ELSE pet
        /\ Started /\ UNCHANGED <<realm, past, restarts>>
    BY <1>0, <1>11 DEF StateDone, Wrote, Counts
  <2>2. /\ pet' # NoPet /\ pet'.realm_pending = pet.realm_pending /\ pet'.id = pet.id
        /\ pet'.phase = pet.phase
    BY <1>a, <2>1, NoPetIsNone DEF Pet, Started
  <2> QED BY <1>d, <2>1, <2>2 DEF Started
<1>12. CASE Restart
  <2>1. restarts' = restarts + 1 /\ past' = <<>>
    BY <1>12 DEF Restart
  <2>2. restarts' # 0
    BY <1>a, <2>1
  <2>3. Started' => ~pet'.realm_pending
    <3>1. CASE flash.state = NoPet
      BY <1>12, <3>1 DEF Restart, Started
    <3>2. CASE flash.state # NoPet
      <4>1. flash.state \in Saved
        BY <1>0, <3>2 DEF TypeOK
      <4> DEFINE n == flash.name = 0 /\ flash.state.phase = "Active"
                 p == FromBytes(flash.state)
      <4>2. p \in Pet /\ ~p.realm_pending
        BY <4>1, FromBytesType
      <4>3. pet' = [p EXCEPT !.naming_pending = n]
        BY <1>12, <3>2 DEF Restart
      <4> HIDE DEF n, p
      <4> QED BY <4>2, <4>3 DEF Pet
    <3> QED BY <3>1, <3>2
  <2> QED BY <1>b, <2>1, <2>2, <2>3 DEF HistoryInv
<1>13. CASE UNCHANGED vars
  BY <1>13, <1>d DEF vars, ram, ghosts, Started
<1> QED
  BY <1>1, <1>2, <1>3, <1>4, <1>5, <1>6, <1>7, <1>8, <1>9, <1>10, <1>11, <1>12, <1>13 DEF Next

-----------------------------------------------------------------------------
(* The theorems. *)

THEOREM Invariance == Spec => []IInv
<1>1. IInv /\ [Next]_vars => IInv'
  BY TypeStep, ListsStep, StateStep, HistoryStep DEF IInv
<1> QED
  BY InitInv, <1>1, PTL DEF Spec

\* Every variable keeps its type: the realm never outgrows its size, and the
\* buffer of a write is of the kind of its key.
THEOREM TypeCorrect == Spec => []TypeOK
<1>1. IInv => TypeOK
  BY DEF IInv
<1> QED
  BY Invariance, <1>1, PTL

\* save_if_needed() lowers REALM_DIRTY and FRIENDS_DIRTY before it writes and
\* raises them again if the write fails, so that a lowered flag means flash.
THEOREM ListsAreSafe == Spec => []ListsReachFlash
<1>1. IInv => ListsReachFlash
  BY DEF IInv, ListsInv, ListsReachFlash
<1> QED
  BY Invariance, <1>1, PTL

\* mark_saved() is right whenever the pet did not change during the write.
THEOREM PetIsSafe == Spec => []PetReachesFlash
<1>1. IInv => PetReachesFlash
  BY DEF IInv, StateInv, NameInv, PetReachesFlash, Idle
<1> QED
  BY Invariance, <1>1, PTL

\* The save and the new generation between them record every departed pet
\* exactly once, for every size of the realm.
THEOREM RealmIsFaithful == Spec => []RealmIsHistory
<1>1. IInv => RealmIsHistory
  BY DEF IInv
<1> QED
  BY Invariance, <1>1, PTL

=============================================================================
