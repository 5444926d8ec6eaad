----------------------------- MODULE PetEngine -----------------------------
(***************************************************************************)
(* The virtual pet's engine (src/src/game/engine/mod.rs) with the code     *)
(* that drives it: the modal that turns a menu item into an action         *)
(* (game/modal.rs), the render cycle (game/lifecycle.rs) and the mesh and  *)
(* mini-game rewards.                                                      *)
(*                                                                         *)
(* Nothing ticks.  Time is an uptime counter, `now' (10 s per unit), and   *)
(* the pet is brought up to date by Update when somebody looks at it: the  *)
(* display loop when the Game screen is drawn, the modal before every      *)
(* item.  Rewards from the mesh and from a finished mini-game are applied  *)
(* to the pet as it was last left.  The persistence flags (save_pending,   *)
(* realm_pending, naming_pending, last_save_tick), which the engine sets   *)
(* and never reads, belong to PetLife.                                     *)
(***************************************************************************)
EXTENDS Integers, Sequences, FiniteSets, FiniteSetsExt

CONSTANTS
    T,          \* the active Thresholds: one field per tunable value
    Foods,      \* food  -> [relief, gain, price : hard_mode -> HAX]
    Drinks,     \* drink -> [drunk, gain, price]
    MiniGames,  \* the mini-games that carry a reward
    Traits,     \* the rolled traits: records [vitality, curiosity]
    Saves,      \* pets a save may hold when the badge boots
    Gaps,       \* the lengths of time that may pass between two steps
    MaxSteps    \* bound: steps explored, redraws not counted

VARIABLES
    pet,      \* GAME: the GameState
    now,      \* now_tick(): uptime
    game,     \* the mini-game on screen, or "none"
    tapped,   \* LAST_FOOD, LAST_DRUGS, LAST_REST: last use of each station
    steps     \* steps taken, for the bound MaxSteps

vars == <<pet, now, game, tapped, steps>>

Primary == {"hunger", "tired", "sick"}
Actions == {"feed", "heal", "play", "exercise", "medicate", "ozempic",
            "drink", "rehab", "onlypets"}
Timers == Actions \cup MiniGames \cup {"battle"}
Phases == {"Hatching", "Active", "Leaving", "Gone"}
None == "none"
Never == -1

(* BORNPETS.CFG may change many of them, within their unsigned types; what *)
(* the code divides by is at least 1 in the presets and kept so by the     *)
(* parser.                                                                 *)
ASSUME ThresholdsSound ==
    /\ {T.HUNGER_RATE, T.HUNGER_MISERABLE_BOOST, T.TIRED_RATE, T.TIRED_MISERABLE_BOOST,
        T.TIRED_PASSIVE_RECOVERY, T.SLEEP_HUNGER_COST, T.SICK_RATE, T.SICK_CONDITION_RATE,
        T.SICK_CONDITION_MISERABLE_RATE, T.DIABETES_SICK_RATE, T.DIABETES_SICK_MISERABLE_RATE,
        T.ALCOHOLIC_SICK_RATE, T.ALCOHOLIC_SICK_MISERABLE_RATE, T.WEIGHT_RATE,
        T.DRUNK_SOBER_RATE, T.HAPPINESS_STEP, T.HEAL_SICK_RELIEF, T.PLAY_HUNGER_COST,
        T.PLAY_TIRED_COST, T.EXERCISE_WEIGHT_RELIEF, T.EXERCISE_TIRED_COST,
        T.EXERCISE_HUNGER_COST, T.OZEMPIC_WEIGHT_RELIEF, T.OZEMPIC_HUNGER_RELIEF,
        T.MINIGAME_HUNGER_COST, T.MINIGAME_COOLDOWN, T.BATTLE_COOLDOWN, T.HATCHING_TICKS,
        T.MAX_SLEEP_TICKS, T.MISERABLE_INTERVAL_BASE, T.MISERABLE_INTERVAL_PER_STAT,
        T.MISERABLE_BOOST_THRESHOLD, T.MISERABLE_STAT_THRESHOLD, T.SICK_TRIGGER_HUNGER,
        T.SICK_TRIGGER_TIRED, T.SLEEP_TIER_SLOW, T.SLEEP_TIER_MEDIUM, T.OVERWEIGHT_TRIGGER,
        T.DRUNK_TRIGGER, T.DIABETES_ONSET_TICKS, T.ALCOHOLIC_ONSET_TICKS} \subseteq Nat
    /\ {T.STAT_MAX, T.TIRED_PASSIVE_INTERVAL, T.MISERABLE_INTERVAL_MIN, T.MISERABLE_AMOUNT,
        T.SLEEP_RECOVERY_SLOW, T.SLEEP_RECOVERY_MEDIUM, T.SLEEP_RECOVERY_FAST}
         \subseteq Nat \ {0}
    /\ \A a \in Actions : T.DURATION[a] \in Nat \ {0} /\ T.COOLDOWN[a] \in Nat
    /\ T.LEAVING_THRESHOLDS \in Seq(Nat) /\ Len(T.LEAVING_THRESHOLDS) = 4
    /\ T.LEAVING_THRESHOLDS[3] <= T.LEAVING_THRESHOLDS[2]
    /\ T.LEAVING_THRESHOLDS[2] <= T.LEAVING_THRESHOLDS[1]

Stat == 0 .. T.STAT_MAX

GameState ==
    [hunger : Stat, tired : Stat, sick : Stat, miserable : Stat,
     weight : Stat, drunk : Stat,
     diabetic : BOOLEAN, overweight_ticks : Nat,
     alcoholic : BOOLEAN, drunk_ticks : Nat, curiosity : Stat,
     last_update_tick : Nat, age_ticks : Nat,
     phase : Phases, hatching_countdown : Nat, leaving_countdown : Nat,
     generation : Nat,
     money : Nat, money_enabled : BOOLEAN, hard_mode : BOOLEAN,
     active_action : Actions \cup {None},
     active_food : DOMAIN Foods \cup {None},
     active_drink : DOMAIN Drinks \cup {None},
     action_ticks_remaining : Nat, cooldown : [Timers -> Nat],
     miserable_interval_counter : Nat, tired_passive_counter : Nat,
     is_sleeping : BOOLEAN, hibernating : BOOLEAN, hibernate_ticks : Nat]

CountMaxed(p) == Cardinality({s \in Primary : p[s] = T.STAT_MAX})

(* The leaving countdown and the phase agree: no countdown runs behind the *)
(* back of an egg or an Active pet, a Leaving pet has time left by the     *)
(* mildest threshold, and a pet is Gone only with a maxed stat and that    *)
(* number of maxed stats' threshold used up.                               *)
CountdownAgrees(p) ==
    /\ p.phase \in {"Hatching", "Active"} => p.leaving_countdown = 0
    /\ p.phase = "Leaving" =>
           p.leaving_countdown \in 1 .. T.LEAVING_THRESHOLDS[1] - 1
    /\ p.phase = "Gone" =>
           /\ CountMaxed(p) > 0
           /\ p.leaving_countdown >= T.LEAVING_THRESHOLDS[CountMaxed(p)]

(* An action in progress has ticks left, and the longest afterglow of Only *)
(* pets is Play's.                                                         *)
ActionSound(p) ==
    /\ p.active_action # None => p.action_ticks_remaining > 0
    /\ p.cooldown["onlypets"] <= T.COOLDOWN["play"]

(* The tables, the traits of an egg, and what a badge with these           *)
(* thresholds can have saved.                                              *)
ASSUME InputsSound ==
    /\ MaxSteps \in Nat /\ Gaps \subseteq Nat \ {0}
    /\ Foods \in [DOMAIN Foods -> [relief : Nat, gain : Nat, price : [BOOLEAN -> Nat]]]
    /\ Drinks \in [DOMAIN Drinks -> [drunk : Nat, gain : Nat, price : Nat]]
    /\ "apple" \in DOMAIN Foods /\ "beer" \in DOMAIN Drinks
    /\ None \notin MiniGames /\ MiniGames \cap (Actions \cup {"battle"}) = {}
    /\ Traits \subseteq [vitality : Stat, curiosity : Stat]
    /\ Saves \subseteq GameState
    /\ \A p \in Saves : CountdownAgrees(p) /\ ActionSound(p)

--------------------------------------------------------------------------
(* HAX prices and rewards. *)

ONLYPETS_HOBBY_REWARD == 20
ONLYPETS_BROKE_REWARD == 100
MINIGAME_HAX_REWARD == 15
BATTLE_HAX_REWARD == 20
BROKE_THRESHOLD == 20
EGG_MONEY == 100

DRUG_HAX_COST == 15
MedicationPrice(hard) == IF hard THEN 3 * DRUG_HAX_COST ELSE DRUG_HAX_COST
RehabPrice(hard) == IF hard THEN 5 * DRUG_HAX_COST ELSE DRUG_HAX_COST

\* What the action costs when the money layer is on.
HaxPrice(p, action, item) ==
    CASE action = "feed" -> Foods[item].price[p.hard_mode]
      [] action = "drink" -> Drinks[item].price
      [] action = "heal" -> 1
      [] action = "play" -> 10
      [] action \in {"medicate", "ozempic"} -> MedicationPrice(p.hard_mode)
      [] action = "rehab" -> RehabPrice(p.hard_mode)
      [] OTHER -> 0

--------------------------------------------------------------------------
(* Arithmetic on stats. *)

SatAdd(val, delta) == Min({val + delta, T.STAT_MAX})
SatSub(val, delta) == Max({val - delta, 0})
MulDt(rate, dt) == Min({rate * dt, T.STAT_MAX})

CountAbove60(p) == Cardinality({s \in Primary : p[s] > T.MISERABLE_STAT_THRESHOLD})

SickTrigger(s) ==
    IF s = "hunger" THEN T.SICK_TRIGGER_HUNGER ELSE T.SICK_TRIGGER_TIRED
SickConditionActive(p) == \E s \in {"hunger", "tired"} : p[s] > SickTrigger(s)

MiserableHigh(p) == p.miserable >= T.MISERABLE_BOOST_THRESHOLD

\* An untreated permanent condition: the flag is set, the treatment's
\* cooldown (its protection window) is over and no dose is being given.
Untreated(p, flag, treatment) ==
    p[flag] /\ p.cooldown[treatment] = 0 /\ p.active_action # treatment

\* The rates at which the stats move now.
HungerRate(p) ==
    T.HUNGER_RATE + (IF MiserableHigh(p) THEN T.HUNGER_MISERABLE_BOOST ELSE 0)
TiredRate(p) ==
    T.TIRED_RATE + (IF MiserableHigh(p) THEN T.TIRED_MISERABLE_BOOST ELSE 0)
SickRate(p) ==
    LET rate(on, low, high) ==
            IF ~on THEN 0 ELSE IF MiserableHigh(p) THEN high ELSE low
    IN  T.SICK_RATE
        + rate(SickConditionActive(p), T.SICK_CONDITION_RATE,
               T.SICK_CONDITION_MISERABLE_RATE)
        + rate(Untreated(p, "diabetic", "medicate"), T.DIABETES_SICK_RATE,
               T.DIABETES_SICK_MISERABLE_RATE)
        + rate(Untreated(p, "alcoholic", "rehab"), T.ALCOHOLIC_SICK_RATE,
               T.ALCOHOLIC_SICK_MISERABLE_RATE)
SleepRecovery(p) ==
    IF p.tired >= T.SLEEP_TIER_SLOW THEN T.SLEEP_RECOVERY_SLOW
    ELSE IF p.tired >= T.SLEEP_TIER_MEDIUM THEN T.SLEEP_RECOVERY_MEDIUM
    ELSE T.SLEEP_RECOVERY_FAST
MiserableInterval(p) ==
    Max({T.MISERABLE_INTERVAL_BASE - T.MISERABLE_INTERVAL_PER_STAT * CountAbove60(p),
         T.MISERABLE_INTERVAL_MIN})

\* The running cooldowns among `timers', as the ticks each has left.
\* Mutated form of CooldownsLeft: the last tick is forgotten.
ShortCooldownsLeft(p, timers) ==
    {p.cooldown[c] : c \in {d \in timers : p.cooldown[d] > 1}}
CooldownsLeft(p, timers) ==
    {p.cooldown[c] : c \in {d \in timers : p.cooldown[d] > 0}}

--------------------------------------------------------------------------
(* One segment of update(): dt ticks at the rates of its start. *)

\* The lowest `miserable' the pet's state permits: 20 % for every primary
\* stat above its critical threshold (sick is held to tired's), or 50 % while
\* Leaving, whichever is higher.
MiserableFloor(p) ==
    LET critical == Cardinality({s \in Primary : p[s] > SickTrigger(s)})
    IN  Max({Min({critical * (T.STAT_MAX \div 5), T.STAT_MAX}),
             IF p.phase = "Leaving" THEN T.STAT_MAX \div 2 ELSE 0})
ApplyMiserableFloor(p) ==
    [p EXCEPT !.miserable = Max({@, MiserableFloor(p)})]

ConsumeCooldowns(p, dt) ==
    [p EXCEPT !.cooldown = [c \in Timers |-> SatSub(@[c], dt)]]

\* What the body pays whether awake or asleep.
Sicken(p, dt) ==
    IF p.cooldown["heal"] > 0 \/ (~p.is_sleeping /\ p.active_action = "heal")
    THEN p
    ELSE [p EXCEPT !.sick = SatAdd(@, MulDt(SickRate(p), dt))]
Drift(p, dt) ==
    [p EXCEPT !.weight = SatAdd(@, MulDt(T.WEIGHT_RATE, dt)),
              !.drunk = SatSub(@, MulDt(T.DRUNK_SOBER_RATE, dt))]

\* Without a Play or its afterglow, misery grows once per interval.
Fret(p, dt) ==
    LET waited == p.miserable_interval_counter + dt
    IN  IF p.cooldown["play"] > 0 \/ p.active_action = "play" THEN p
        ELSE [p EXCEPT !.miserable_interval_counter = waited % MiserableInterval(p),
                       !.miserable = SatAdd(@, MulDt(T.MISERABLE_AMOUNT,
                                                waited \div MiserableInterval(p)))]

ApplyAwakeDecay(p, dt) ==
    LET hungry == IF p.cooldown["feed"] = 0 /\ p.active_action # "feed"
                  THEN SatAdd(p.hunger, MulDt(HungerRate(p), dt)) ELSE p.hunger
        rested == p.tired_passive_counter + dt
        tired == SatSub(SatAdd(p.tired, MulDt(TiredRate(p), dt)),
                        MulDt(T.TIRED_PASSIVE_RECOVERY,
                              rested \div T.TIRED_PASSIVE_INTERVAL))
    IN  Fret(Drift(Sicken([p EXCEPT !.hunger = hungry, !.tired = tired,
                                    !.tired_passive_counter =
                                        rested % T.TIRED_PASSIVE_INTERVAL],
                          dt), dt), dt)

\* A rested pet wakes up.
WakeRested(p) == [p EXCEPT !.is_sleeping = (p.tired > 0)]

ApplySleepDecay(p, dt) ==
    LET tired == SatSub(p.tired, MulDt(SleepRecovery(p), dt))
        hungry == IF p.cooldown["feed"] = 0
                  THEN SatAdd(p.hunger, MulDt(HungerRate(p) + T.SLEEP_HUNGER_COST, dt))
                  ELSE p.hunger
    IN  WakeRested(Drift(Sicken([p EXCEPT !.hunger = hungry, !.tired = tired], dt), dt))

\* Any maxed stat runs the countdown (the more, the sooner); none resets it.
\* Mutated form of CheckLeaving: the countdown is not reset.
LastingCheckLeaving(p, dt) ==
    LET maxed == CountMaxed(p)
        countdown == p.leaving_countdown + dt
    IN  IF maxed = 0
        THEN [p EXCEPT !.phase = IF @ = "Leaving" THEN "Active" ELSE @]
        ELSE [p EXCEPT !.leaving_countdown = countdown,
                       !.phase = IF countdown >= T.LEAVING_THRESHOLDS[maxed]
                                 THEN "Gone" ELSE "Leaving"]
CheckLeaving(p, dt) ==
    LET maxed == CountMaxed(p)
        countdown == p.leaving_countdown + dt
    IN  IF maxed = 0
        THEN [p EXCEPT !.leaving_countdown = 0,
                       !.phase = IF @ = "Leaving" THEN "Active" ELSE @]
        ELSE [p EXCEPT !.leaving_countdown = countdown,
                       !.phase = IF countdown >= T.LEAVING_THRESHOLDS[maxed]
                                 THEN "Gone" ELSE "Leaving"]

\* Sustained excess turns into a permanent condition.
Onset(p, flag, counter, excess, onset, dt) ==
    LET ticks == IF excess THEN p[counter] + dt ELSE 0
    IN  IF p[flag] THEN p
        ELSE [p EXCEPT ![counter] = ticks, ![flag] = ticks >= onset]
CheckDiabetes(p, dt) ==
    Onset(p, "diabetic", "overweight_ticks", p.weight > T.OVERWEIGHT_TRIGGER,
          T.DIABETES_ONSET_TICKS, dt)
CheckAlcoholism(p, dt) ==
    Onset(p, "alcoholic", "drunk_ticks", p.drunk > T.DRUNK_TRIGGER,
          T.ALCOHOLIC_ONSET_TICKS, dt)

ApplyDecay(p, dt) ==
    IF p.is_sleeping THEN ApplySleepDecay(p, dt) ELSE ApplyAwakeDecay(p, dt)

\* Mutated form of Segment: the floor is applied before the phase is known.
EarlyFloorSegment(p, dt) ==
    CheckAlcoholism(CheckDiabetes(CheckLeaving(ApplyMiserableFloor(
        ApplyDecay(ConsumeCooldowns(p, dt), dt)), dt), dt), dt)
Segment(p, dt) ==
    ApplyMiserableFloor(CheckAlcoholism(CheckDiabetes(CheckLeaving(
        ApplyDecay(ConsumeCooldowns(p, dt), dt), dt), dt), dt))

\* The ticks after which some rate may change, one element per boundary: each
\* stat reaching the thresholds above it, a cooldown ending, a sleep tier.
Boundaries(p) ==
    LET up(val, target, rate) ==
            IF val >= target \/ rate = 0 THEN {} ELSE {(target - val) \div rate}
        down(target, rate) ==
            IF p.tired <= target THEN {} ELSE {Max({(p.tired - target) \div rate, 1})}
        hunger == IF p.cooldown["feed"] > 0 THEN 0 ELSE HungerRate(p)
        sick == IF p.cooldown["heal"] > 0 \/ p.active_action = "heal"
                THEN 0 ELSE SickRate(p)
        fires == (T.MISERABLE_BOOST_THRESHOLD - p.miserable) \div T.MISERABLE_AMOUNT
    IN  UNION {
          UNION {up(p.hunger, t, hunger) :
                 t \in {T.MISERABLE_STAT_THRESHOLD, T.SICK_TRIGGER_HUNGER, T.STAT_MAX}},
          UNION {up(p.tired, t, TiredRate(p)) :
                 t \in {T.MISERABLE_STAT_THRESHOLD, T.SICK_TRIGGER_TIRED, T.STAT_MAX}},
          UNION {up(p.sick, t, sick) : t \in {T.MISERABLE_STAT_THRESHOLD, T.STAT_MAX}},
          IF MiserableHigh(p) \/ (p.cooldown["play"] > 0 /\ fires > 0) THEN {}
          ELSE {fires * MiserableInterval(p)},
          CooldownsLeft(p, Actions \ {"onlypets"}),
          IF ~p.is_sleeping THEN {}
          ELSE UNION {down(T.SLEEP_TIER_SLOW, T.SLEEP_RECOVERY_SLOW),
                      down(T.SLEEP_TIER_MEDIUM, T.SLEEP_RECOVERY_MEDIUM),
                      down(0, SleepRecovery(p))}}

--------------------------------------------------------------------------
(* update(): the action in progress first, then the segments. *)

\* What `n' ticks of the action in progress do to the pet.
ActionEffect(p, n) ==
    LET play(base) == MulDt((base * (10 - (p.curiosity * 10) \div T.STAT_MAX)) \div 10, n)
        food == Foods[IF p.active_food = None THEN "apple" ELSE p.active_food]
        drink == Drinks[IF p.active_drink = None THEN "beer" ELSE p.active_drink]
        add(stat, amount) == SatAdd(p[stat], amount)
        sub(stat, rate) == SatSub(p[stat], MulDt(rate, n))
    IN  CASE p.active_action = "feed" ->
               [p EXCEPT !.hunger = sub("hunger", food.relief),
                         !.weight = add("weight", MulDt(food.gain, n))]
          [] p.active_action = "heal" ->
               [p EXCEPT !.sick = sub("sick", T.HEAL_SICK_RELIEF)]
          [] p.active_action = "play" ->
               [p EXCEPT !.hunger = add("hunger", play(T.PLAY_HUNGER_COST)),
                         !.tired = add("tired", play(T.PLAY_TIRED_COST))]
          [] p.active_action = "exercise" ->
               [p EXCEPT !.weight = sub("weight", T.EXERCISE_WEIGHT_RELIEF),
                         !.tired = add("tired", MulDt(T.EXERCISE_TIRED_COST, n)),
                         !.hunger = add("hunger", MulDt(T.EXERCISE_HUNGER_COST, n))]
          [] p.active_action = "ozempic" ->
               [p EXCEPT !.weight = sub("weight", T.OZEMPIC_WEIGHT_RELIEF),
                         !.hunger = sub("hunger", T.OZEMPIC_HUNGER_RELIEF)]
          [] p.active_action = "drink" ->
               [p EXCEPT !.drunk = add("drunk", MulDt(drink.drunk, n)),
                         !.weight = add("weight", MulDt(drink.gain, n))]
          [] OTHER -> p

\* The action is over: its cooldown starts, Play and Only pets move happiness,
\* Only pets pays (more, and joylessly, when the pet is broke).
CompleteAction(p) ==
    LET action == p.active_action
        done == [p EXCEPT !.active_action = None, !.active_food = None,
                          !.cooldown[action] =
                              T.COOLDOWN[IF action = "onlypets" THEN "play" ELSE action]]
    IN  CASE action = "play" ->
               [done EXCEPT !.miserable = SatSub(@, T.HAPPINESS_STEP)]
          [] action = "onlypets" /\ p.money_enabled /\ p.money < BROKE_THRESHOLD ->
               [done EXCEPT !.money = @ + ONLYPETS_BROKE_REWARD,
                            !.miserable = SatAdd(@, T.HAPPINESS_STEP)]
          [] action = "onlypets" /\ p.money_enabled /\ p.money >= BROKE_THRESHOLD ->
               [done EXCEPT !.money = @ + ONLYPETS_HOBBY_REWARD,
                            !.miserable = SatSub(@, T.HAPPINESS_STEP)]
          [] OTHER -> done

ActionTicks(p, dt) ==
    IF p.active_action = None THEN 0 ELSE Min({dt, p.action_ticks_remaining})

ConsumeActionTicks(p, n) ==
    LET q == [ActionEffect(p, n) EXCEPT !.action_ticks_remaining = @ - n]
    IN  IF p.active_action = None THEN p
        ELSE IF q.action_ticks_remaining = 0 THEN CompleteAction(q) ELSE q

\* Advance to the next boundary, apply, repeat until the time is used up or
\* the pet is gone.
Charging == [pet : GameState, left : Nat]
Charged(s) == s.left = 0 \/ s.pet.phase = "Gone"
Advance(s) ==
    LET dt == Max({1, Min(Boundaries(s.pet) \cup {s.left})})
    IN  [pet |-> Segment(s.pet, dt), left |-> s.left - dt]
Charge[s \in Charging] == IF Charged(s) THEN s.pet ELSE Charge[Advance(s)]
Decay(p, dt) == Charge[[pet |-> p, left |-> dt]]

Hatch(p, dt) ==
    LET left == SatSub(p.hatching_countdown, dt)
    IN  [p EXCEPT !.hatching_countdown = left,
                  !.phase = IF left = 0 THEN "Active" ELSE "Hatching"]

Alive(p) == p.phase \in {"Active", "Leaving"}

\* Mutated form of Update: the ticks of the action are decayed as well.
TwiceCountedUpdate(p, tick) ==
    LET dt == Max({tick - p.last_update_tick, 0})
        seen == [p EXCEPT !.last_update_tick = tick]
        aged == [seen EXCEPT !.age_ticks = @ + dt]
    IN  IF dt = 0 THEN p
        ELSE IF p.hibernating THEN [seen EXCEPT !.hibernate_ticks = @ + dt]
        ELSE CASE p.phase = "Gone" -> seen
               [] p.phase = "Hatching" -> Hatch(aged, dt)
               [] OTHER -> Decay(ApplyMiserableFloor(
                               ConsumeActionTicks(aged, ActionTicks(aged, dt))), dt)
\* Mutated form of Update: a hibernating pet is not spared.
ThawedUpdate(p, tick) ==
    LET dt == Max({tick - p.last_update_tick, 0})
        seen == [p EXCEPT !.last_update_tick = tick]
        aged == [seen EXCEPT !.age_ticks = @ + dt]
        busy == ActionTicks(aged, dt)
    IN  IF dt = 0 THEN p
        ELSE CASE p.phase = "Gone" -> seen
               [] p.phase = "Hatching" -> Hatch(aged, dt)
               [] OTHER -> Decay(ApplyMiserableFloor(ConsumeActionTicks(aged, busy)),
                                 dt - busy)
Update(p, tick) ==
    LET dt == Max({tick - p.last_update_tick, 0})
        seen == [p EXCEPT !.last_update_tick = tick]
        aged == [seen EXCEPT !.age_ticks = @ + dt]
        busy == ActionTicks(aged, dt)
    IN  IF dt = 0 THEN p
        ELSE IF p.hibernating THEN [seen EXCEPT !.hibernate_ticks = @ + dt]
        ELSE CASE p.phase = "Gone" -> seen
               [] p.phase = "Hatching" -> Hatch(aged, dt)
               [] OTHER -> Decay(ApplyMiserableFloor(ConsumeActionTicks(aged, busy)),
                                 dt - busy)

--------------------------------------------------------------------------
(* next_wake_tick(): how long the display loop may sleep on a still image. *)

NextWake(p) ==
    LET away(s, rate) == IF p[s] >= SickTrigger(s) \/ rate = 0 THEN {}
                         ELSE {(SickTrigger(s) - p[s]) \div rate}
        maxed == CountMaxed(p)
        fires == (T.MISERABLE_BOOST_THRESHOLD - p.miserable) \div T.MISERABLE_AMOUNT
    IN  IF p.phase = "Hatching" THEN p.last_update_tick + p.hatching_countdown
        ELSE p.last_update_tick + Min(UNION {
          {T.MAX_SLEEP_TICKS},
          IF p.active_action = None THEN {} ELSE {p.action_ticks_remaining},
          CooldownsLeft(p, (Actions \ {"onlypets"}) \cup {"battle"}),
          IF p.cooldown["feed"] > 0 THEN {} ELSE away("hunger", HungerRate(p)),
          away("tired", TiredRate(p)),
          IF MiserableHigh(p) \/ p.cooldown["play"] > 0 THEN {}
          ELSE {fires * MiserableInterval(p)},
          IF p.phase # "Leaving" \/ maxed = 0 THEN {}
          ELSE {SatSub(T.LEAVING_THRESHOLDS[maxed], p.leaving_countdown)},
          IF ~p.is_sleeping \/ p.tired = 0 THEN {}
          ELSE {Max({p.tired \div SleepRecovery(p), 1})}})

--------------------------------------------------------------------------
(* Operations on the pet. *)

Egg(traits, enabled, hard, generation, tick) ==
    [hunger |-> 0, tired |-> 0, sick |-> (T.STAT_MAX - traits.vitality) \div 4,
     miserable |-> 0, weight |-> 0, drunk |-> 0,
     diabetic |-> FALSE, overweight_ticks |-> 0,
     alcoholic |-> FALSE, drunk_ticks |-> 0, curiosity |-> traits.curiosity,
     last_update_tick |-> tick, age_ticks |-> 0,
     phase |-> "Hatching", hatching_countdown |-> T.HATCHING_TICKS,
     leaving_countdown |-> 0, generation |-> generation,
     money |-> EGG_MONEY, money_enabled |-> enabled, hard_mode |-> hard,
     active_action |-> None, active_food |-> None, active_drink |-> None,
     action_ticks_remaining |-> 0, cooldown |-> [c \in Timers |-> 0],
     miserable_interval_counter |-> 0, tired_passive_counter |-> 0,
     is_sleeping |-> FALSE, hibernating |-> FALSE, hibernate_ticks |-> 0]

\* stats(): awake, idle and off this timer's cooldown.
\* Mutated form of Ready: the cooldown is not looked at.
EagerReady(p, timer) ==
    Alive(p) /\ ~p.is_sleeping /\ p.active_action = None
Ready(p, timer) ==
    Alive(p) /\ ~p.is_sleeping /\ p.active_action = None /\ p.cooldown[timer] = 0

\* Mutated form of Affordable: every action costs a flat fee.
FlatAffordable(p, action, item) ==
    p.money_enabled => p.money >= 10
Affordable(p, action, item) ==
    p.money_enabled => p.money >= HaxPrice(p, action, item)

\* Item::available and, behind it, the guards of feed(), heal(), ...
CanStart(p, action, item) ==
    /\ ~p.hibernating
    /\ Ready(p, action)
    /\ action = "medicate" => p.diabetic
    /\ action = "rehab" => p.alcoholic
    /\ Affordable(p, action, item)

Start(p, action, item) ==
    [p EXCEPT !.active_action = action,
              !.action_ticks_remaining = T.DURATION[action],
              !.active_food = IF action = "feed" THEN item ELSE @,
              !.active_drink = IF action = "drink" THEN item ELSE @,
              !.money = IF p.money_enabled THEN @ - HaxPrice(p, action, item) ELSE @]

Items(action) ==
    CASE action = "feed" -> DOMAIN Foods
      [] action = "drink" -> DOMAIN Drinks
      [] OTHER -> {None}

RecordBattle(p, won) ==
    [p EXCEPT !.cooldown["battle"] = T.BATTLE_COOLDOWN,
              !.money = IF won /\ p.money_enabled THEN @ + BATTLE_HAX_REWARD ELSE @]

AwardInspiration(p, g) ==
    IF p.phase # "Active" THEN p
    ELSE [p EXCEPT !.hunger = SatAdd(@, T.MINIGAME_HUNGER_COST),
                   !.cooldown[g] = T.MINIGAME_COOLDOWN,
                   !.money = IF p.money_enabled THEN @ + MINIGAME_HAX_REWARD ELSE @]

FriendBoost(p, big) ==
    [p EXCEPT !.miserable = SatSub(@, IF big THEN (T.STAT_MAX * 2) \div 5
                                      ELSE T.STAT_MAX \div 10)]

Cheat(p, kind) ==
    CASE kind = "overweight" -> [p EXCEPT !.weight = SatAdd(T.OVERWEIGHT_TRIGGER, 1)]
      [] kind = "diabetic" -> [p EXCEPT !.diabetic = TRUE]
      [] kind = "no diabetes" -> [p EXCEPT !.diabetic = FALSE, !.overweight_ticks = 0]
      [] kind = "drunk" -> [p EXCEPT !.drunk = SatAdd(T.DRUNK_TRIGGER, 1)]
      [] kind = "alcoholic" -> [p EXCEPT !.alcoholic = TRUE]
      [] kind = "sober" -> [p EXCEPT !.alcoholic = FALSE, !.drunk_ticks = 0]
      [] kind = "skip day" -> Update(p, p.last_update_tick + 8640)
      [] OTHER -> [p EXCEPT !.cooldown["battle"] = 0]
Cheats == {"overweight", "diabetic", "no diabetes", "drunk", "alcoholic",
           "sober", "skip day", "reset battles"}

--------------------------------------------------------------------------
(* The steps of the badge. *)

Step == steps < MaxSteps /\ steps' = steps + 1

Init ==
    /\ pet \in Saves
    /\ now = 0 /\ game = None /\ steps = 0
    /\ tapped = [s \in Primary |-> Never]

Elapse(dt) ==
    /\ Step
    /\ now' = now + dt
    /\ UNCHANGED <<pet, game, tapped>>

\* render() and every other caller of cycle() that only looks.
Cycle ==
    /\ pet' = Update(pet, now)
    /\ pet' # pet
    /\ UNCHANGED <<now, game, tapped, steps>>

\* modal::activate: bring the pet up to date, then do what the item says if
\* the fresh snapshot makes it available.  No modal opens over a mini-game.
Activate(op(_), available(_)) ==
    \E p \in {Update(pet, now)} :
        /\ Step
        /\ game = None
        /\ available(p)
        /\ pet' = op(p)
        /\ UNCHANGED <<now, tapped>>

StartAction(action, item) ==
    /\ Activate(LAMBDA p : Start(p, action, item),
                LAMBDA p : CanStart(p, action, item))
    /\ UNCHANGED game
Sleep ==
    /\ Activate(LAMBDA p : [p EXCEPT !.is_sleeping = TRUE],
                LAMBDA p : ~p.hibernating /\ Alive(p) /\ ~p.is_sleeping)
    /\ UNCHANGED game
Hibernate ==
    /\ Activate(LAMBDA p : [p EXCEPT !.hibernating = TRUE],
                LAMBDA p : ~p.hibernating /\ p.phase # "Gone")
    /\ UNCHANGED game
WakeFromHibernation ==
    /\ Activate(LAMBDA p : [p EXCEPT !.hibernating = FALSE],
                LAMBDA p : p.hibernating)
    /\ UNCHANGED game
Challenge(won) ==
    /\ Activate(LAMBDA p : RecordBattle(p, won),
                LAMBDA p : ~p.hibernating /\ Ready(p, "battle"))
    /\ UNCHANGED game
DebugCheat(kind) ==
    /\ Activate(LAMBDA p : Cheat(p, kind), LAMBDA p : ~p.hibernating)
    /\ UNCHANGED game
OpenGame(g) ==
    /\ Activate(LAMBDA p : p, LAMBDA p : ~p.hibernating /\ Ready(p, g))
    /\ game' = g

\* The mini-game closes; a won one is rewarded on the way out.
CloseGame(won) ==
    /\ Step
    /\ game # None
    /\ pet' = IF won THEN AwardInspiration(pet, game) ELSE pet
    /\ game' = None
    /\ UNCHANGED <<now, tapped>>

\* From the mesh: a challenger's result, a friend's beacon.
OnBattleResult(won) ==
    /\ Step
    /\ pet' = RecordBattle(pet, won)
    /\ UNCHANGED <<now, game, tapped>>
OnPetBeacon(big) ==
    /\ Step
    /\ pet' = FriendBoost(pet, big)
    /\ UNCHANGED <<now, game, tapped>>

\* A station phrase over NFC fills one stat, at most every 30 ticks each.
STATION_COOLDOWN_TICKS == 30
Station(stat) ==
    /\ Step
    /\ pet.phase # "Gone"
    /\ tapped[stat] # Never => now - tapped[stat] >= STATION_COOLDOWN_TICKS
    /\ tapped' = [tapped EXCEPT ![stat] = now]
    /\ pet' = [pet EXCEPT ![stat] = 0]
    /\ UNCHANGED <<now, game>>

\* pet_select: a new egg after the pet left, or a reset of a living one.
NewGeneration(traits, enabled, hard) ==
    /\ Step
    /\ game = None
    /\ hard => enabled
    /\ pet' = Egg(traits, enabled, hard, pet.generation + 1, now)
    /\ UNCHANGED <<now, game, tapped>>

Next ==
    \/ \E dt \in Gaps : Elapse(dt)
    \/ Cycle
    \/ \E action \in Actions : \E item \in Items(action) : StartAction(action, item)
    \/ Sleep
    \/ Hibernate
    \/ WakeFromHibernation
    \/ \E won \in BOOLEAN : Challenge(won)
    \/ \E kind \in Cheats : DebugCheat(kind)
    \/ \E g \in MiniGames : OpenGame(g)
    \/ \E won \in BOOLEAN : CloseGame(won)
    \/ \E won \in BOOLEAN : OnBattleResult(won)
    \/ \E big \in BOOLEAN : OnPetBeacon(big)
    \/ \E stat \in Primary : Station(stat)
    \/ \E traits \in Traits, enabled, hard \in BOOLEAN :
           NewGeneration(traits, enabled, hard)

Spec == Init /\ [][Next]_vars

--------------------------------------------------------------------------
(* Properties. *)

\* The leaving countdown and the phase agree whatever the length of the
\* update, and no pet leaves before it is due.
LeavesOnlyWhenDue == CountdownAgrees(pet)

\* How often somebody looks does not matter: the same span of time, in one
\* update or cut in two, leaves a grown pet that lives through it with the same
\* age, action, cooldowns, weight, drunkenness and money.  (An egg differs: the
\* update that hatches it drops the time beyond the hatching.)
Timekeeping(p) ==
    <<p.age_ticks, p.hibernate_ticks, p.active_action, p.action_ticks_remaining,
      p.cooldown, p.weight, p.drunk, p.money>>
LookingChangesNothing ==
    Alive(pet) => \A n \in Gaps : \A k \in {g \in Gaps : g < n} :
        LET at(t) == pet.last_update_tick + t
        IN  \A once \in {Update(pet, at(n))}, twice \in {Update(Update(pet, at(k)), at(n))} :
                once.phase # "Gone" /\ twice.phase # "Gone"
                => Timekeeping(once) = Timekeeping(twice)

\* The display loop, asleep until NextWake, does not oversleep: until the tick
\* before it no egg hatches, no action ends and no cooldown it counts expires.
WakesInTime ==
    pet.phase # "Gone" /\ ~pet.hibernating =>
        \A q \in {Update(pet, NextWake(pet) - 1)} :
            /\ pet.phase = "Hatching" => q.phase = "Hatching" \/ q = pet
            /\ q.active_action = pet.active_action
            /\ q.phase # "Gone" =>
                   \A c \in (Actions \ {"onlypets"}) \cup {"battle"} :
                       pet.cooldown[c] > 0 => q.cooldown[c] > 0

\* Only pets is the escape hatch of a broke pet: whatever it is busy with, an
\* awake pet that is still there once its action and the Only-pets cooldown
\* have run out can start it.
BrokeCanAlwaysWork ==
    Alive(pet) /\ ~pet.hibernating /\ ~pet.is_sleeping =>
        \A q \in {Update(pet, pet.last_update_tick + pet.action_ticks_remaining
                            + T.COOLDOWN["play"])} :
            q.phase = "Gone" \/ CanStart(q, "onlypets", None)

\* A mini-game on screen has not been rewarded since its cooldown ran out, so
\* closing it cannot pay twice within one cooldown.
OneRewardPerCooldown == game # None => pet.cooldown[game] = 0

\* Time stands still for a hibernating pet and for one that has left, through
\* the defrost itself: until the next egg nothing that only time or an action
\* moves changes, and no stat gets worse, whatever reward or result arrives.
Clockwork(p) ==
    <<p.age_ticks, p.phase, p.leaving_countdown, p.hatching_countdown,
      p.active_action, p.action_ticks_remaining, p.is_sleeping>>
FrozenStaysFrozen ==
    [][ (pet.hibernating \/ pet.phase = "Gone")
        /\ pet'.generation = pet.generation
        => /\ Clockwork(pet') = Clockwork(pet)
           /\ \A s \in Primary \cup {"miserable"} : pet'[s] <= pet[s] ]_vars

\* engine/mod.rs:281-284 says of cooldown_medicate: "while this is above 0 the
\* diabetes sick-penalty is suppressed".  So an update that spans exactly the
\* rest of the window charges at most the tick at which it closes.
ProtectionWindowHolds ==
    LET p == pet
        n == p.cooldown["medicate"]
        tick == p.last_update_tick + n
        healthy == [p EXCEPT !.diabetic = FALSE]
    IN  Alive(p) /\ ~p.hibernating /\ p.active_action = None /\ n > 0
        => Update(p, tick).sick
           <= Update(healthy, tick).sick + T.DIABETES_SICK_MISERABLE_RATE

=============================================================================
