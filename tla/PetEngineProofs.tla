-------------------------- MODULE PetEngineProofs --------------------------
(***************************************************************************)
(* Theorems about the pet (PetEngine) for every table of thresholds a      *)
(* BORNPETS.CFG can set, every save, every food, drink, mini-game and trait*)
(* and any number of steps.  An update is brought down to segments         *)
(* (SegmentStep), the segments to the recursion of update(), which is well *)
(* founded (ChargeEquation), and that to what n ticks do to a pet as one   *)
(* sum (Brought): the action in progress takes its ticks, the rest wears   *)
(* the pet.  The operations move stats and leave that time alone (Still),  *)
(* so what update() keeps (Sound) is kept by every step.                   *)
(***************************************************************************)
EXTENDS PetEngine, FiniteSetTheorems, SequenceTheorems, WellFoundedInduction, TLAPS

LEMMA LeastNatural ==
  ASSUME NEW S \in SUBSET Nat, S # {}
  PROVE  \E x \in S : \A y \in S : x <= y
<1>1. PICK m \in S : TRUE
  OBVIOUS
<1> DEFINE low == {x \in S : x <= m}
           down == {0 .. x : x \in low}
<1>2. IsWellFoundedOn(StrictSubsetOrdering(0 .. m), SUBSET (0 .. m))
  <2>1. IsFiniteSet(0 .. m)
    BY FS_Interval
  <2>2. FiniteSubsetsOf(0 .. m) = SUBSET (0 .. m)
    BY <2>1, FS_FiniteSubsetsOfFinite
  <2> QED
    BY <2>2, FS_StrictSubsetOrderingWellFounded, Zenon
<1>3. down \subseteq SUBSET (0 .. m) /\ down # {}
  BY <1>1
<1>4. PICK d \in down :
        \A e \in down : <<e, d>> \notin StrictSubsetOrdering(0 .. m)
  BY <1>2, <1>3, WFMin
<1>5. PICK x \in low : d = 0 .. x
  BY <1>4
<1>6. \A y \in low : ~(y < x)
  <2> SUFFICES ASSUME NEW y \in low, y < x PROVE FALSE
    OBVIOUS
  <2>1. 0 .. y \subseteq 0 .. x /\ x \notin 0 .. y /\ x \in 0 .. x
    OBVIOUS
  <2>2. 0 .. y \in down
    OBVIOUS
  <2>3. <<0 .. y, d>> \in StrictSubsetOrdering(0 .. m)
    BY <2>1, <2>2, <1>5, <1>3, <1>4 DEF StrictSubsetOrdering
  <2> QED
    BY <2>2, <2>3, <1>4
<1> QED
  BY <1>1, <1>6

(* Arithmetic.                                                             *)
LEMMA Products ==
  /\ \A a, b \in Nat : a * b \in Nat
  /\ \A a \in Nat, b \in Nat \ {0} : a \div b \in Nat /\ a % b \in Nat
  /\ \A a \in Nat, b \in Nat \ {0} : a <= b => (a * 10) \div b <= 10
<1>1. \A a, b \in Nat : a * b \in Nat
  OBVIOUS
<1>2. \A a \in Nat, b \in Nat \ {0} : a \div b \in Nat /\ a % b \in Nat
  OBVIOUS
<1>3. \A a \in Nat, b \in Nat \ {0} : a <= b => (a * 10) \div b <= 10
  OBVIOUS
<1> QED
  BY <1>1, <1>2, <1>3

LEMMA MinMax ==
  ASSUME NEW a \in Int, NEW b \in Int
  PROVE  /\ Min({a, b}) = IF a <= b THEN a ELSE b
         /\ Max({a, b}) = IF a >= b THEN a ELSE b
<1>1. \E x \in {a, b} : \A y \in {a, b} : x =< y
  OBVIOUS
<1>2. \E x \in {a, b} : \A y \in {a, b} : x >= y
  OBVIOUS
<1>3. Min({a, b}) \in {a, b} /\ \A y \in {a, b} : Min({a, b}) =< y
  BY <1>1 DEF Min
<1>4. Max({a, b}) \in {a, b} /\ \A y \in {a, b} : Max({a, b}) >= y
  BY <1>2 DEF Max
<1> QED
  BY <1>3, <1>4

LEMMA MinOf ==
  ASSUME NEW S \in SUBSET Nat, S # {}
  PROVE  Min(S) \in S /\ \A y \in S : Min(S) <= y
<1>1. \E x \in S : \A y \in S : x =< y
  BY LeastNatural
<1> QED
  BY <1>1 DEF Min

LEMMA Saturating ==
  ASSUME NEW v \in Stat, NEW d \in Nat
  PROVE  /\ SatAdd(v, d) \in Stat /\ SatAdd(v, d) = IF v + d <= T.STAT_MAX THEN v + d
              ELSE T.STAT_MAX
         /\ SatSub(v, d) \in Stat /\ SatSub(v, d) = IF v >= d THEN v - d ELSE 0
<1>0. T.STAT_MAX \in Nat
  BY ThresholdsSound
<1>1. v \in Nat /\ v <= T.STAT_MAX
  BY <1>0 DEF Stat
<1>2. SatAdd(v, d) = IF v + d <= T.STAT_MAX THEN v + d ELSE T.STAT_MAX
  BY <1>0, <1>1, MinMax DEF SatAdd
<1>3. SatSub(v, d) = IF v >= d THEN v - d ELSE 0
  BY <1>1, MinMax DEF SatSub
<1> QED
  BY <1>0, <1>1, <1>2, <1>3 DEF Stat

LEMMA SatSubNat ==
  ASSUME NEW v \in Nat, NEW d \in Nat
  PROVE  SatSub(v, d) \in Nat /\ SatSub(v, d) = IF v >= d THEN v - d ELSE 0
<1>1. v - d \in Int /\ SatSub(v, d) = Max({v - d, 0})
  BY DEF SatSub
<1>2. \A a \in Int : Max({a, 0}) = IF a >= 0 THEN a ELSE 0
  BY MinMax
<1> QED
  BY <1>1, <1>2

LEMMA MulDtType ==
  ASSUME NEW r \in Nat, NEW n \in Nat
  PROVE  MulDt(r, n) \in Nat /\ MulDt(r, n) \in Stat
<1>1. r * n \in Nat
  BY Products
<1>2. T.STAT_MAX \in Nat
  BY ThresholdsSound
<1> QED
  BY <1>1, <1>2, MinMax DEF MulDt, Stat

LEMMA Rates ==
  /\ T.HUNGER_RATE \in Nat
  /\ T.HUNGER_MISERABLE_BOOST \in Nat
  /\ T.TIRED_RATE \in Nat
  /\ T.TIRED_MISERABLE_BOOST \in Nat
  /\ T.TIRED_PASSIVE_RECOVERY \in Nat
  /\ T.SLEEP_HUNGER_COST \in Nat
  /\ T.SICK_RATE \in Nat
  /\ T.SICK_CONDITION_RATE \in Nat
  /\ T.SICK_CONDITION_MISERABLE_RATE \in Nat
  /\ T.DIABETES_SICK_RATE \in Nat
  /\ T.DIABETES_SICK_MISERABLE_RATE \in Nat
  /\ T.ALCOHOLIC_SICK_RATE \in Nat
  /\ T.ALCOHOLIC_SICK_MISERABLE_RATE \in Nat
  /\ T.WEIGHT_RATE \in Nat
  /\ T.DRUNK_SOBER_RATE \in Nat
  /\ T.HAPPINESS_STEP \in Nat
  /\ T.HEAL_SICK_RELIEF \in Nat
  /\ T.PLAY_HUNGER_COST \in Nat
  /\ T.PLAY_TIRED_COST \in Nat
  /\ T.EXERCISE_WEIGHT_RELIEF \in Nat
  /\ T.EXERCISE_TIRED_COST \in Nat
  /\ T.EXERCISE_HUNGER_COST \in Nat
  /\ T.OZEMPIC_WEIGHT_RELIEF \in Nat
  /\ T.OZEMPIC_HUNGER_RELIEF \in Nat
  /\ T.MINIGAME_HUNGER_COST \in Nat
  /\ T.MINIGAME_COOLDOWN \in Nat
  /\ T.BATTLE_COOLDOWN \in Nat
  /\ T.HATCHING_TICKS \in Nat
  /\ T.MAX_SLEEP_TICKS \in Nat
  /\ T.MISERABLE_INTERVAL_BASE \in Nat
  /\ T.MISERABLE_INTERVAL_PER_STAT \in Nat
  /\ T.MISERABLE_BOOST_THRESHOLD \in Nat
  /\ T.MISERABLE_STAT_THRESHOLD \in Nat
  /\ T.SICK_TRIGGER_HUNGER \in Nat
  /\ T.SICK_TRIGGER_TIRED \in Nat
  /\ T.SLEEP_TIER_SLOW \in Nat
  /\ T.SLEEP_TIER_MEDIUM \in Nat
  /\ T.OVERWEIGHT_TRIGGER \in Nat
  /\ T.DRUNK_TRIGGER \in Nat
  /\ T.DIABETES_ONSET_TICKS \in Nat
  /\ T.ALCOHOLIC_ONSET_TICKS \in Nat
BY ThresholdsSound

LEMMA Divisors ==
  /\ T.STAT_MAX \in Nat \ {0}
  /\ T.TIRED_PASSIVE_INTERVAL \in Nat \ {0}
  /\ T.MISERABLE_INTERVAL_MIN \in Nat \ {0}
  /\ T.MISERABLE_AMOUNT \in Nat \ {0}
  /\ T.SLEEP_RECOVERY_SLOW \in Nat \ {0}
  /\ T.SLEEP_RECOVERY_MEDIUM \in Nat \ {0}
  /\ T.SLEEP_RECOVERY_FAST \in Nat \ {0}
BY ThresholdsSound

LEMMA Constants ==
  /\ T.STAT_MAX \in Nat \ {0}
  /\ \A a \in Actions : T.DURATION[a] \in Nat \ {0} /\ T.COOLDOWN[a] \in Nat
  /\ \A i \in 1 .. 3 : T.LEAVING_THRESHOLDS[i] \in Nat
                       /\ T.LEAVING_THRESHOLDS[i] <= T.LEAVING_THRESHOLDS[1]
<1>1. \A i \in 1 .. 3 : T.LEAVING_THRESHOLDS[i] \in Nat
  <2>1. T.LEAVING_THRESHOLDS \in Seq(Nat) /\ Len(T.LEAVING_THRESHOLDS) = 4
    BY ThresholdsSound
  <2> QED
    BY <2>1, ElementOfSeq
<1>2. /\ T.LEAVING_THRESHOLDS[3] <= T.LEAVING_THRESHOLDS[2]
      /\ T.LEAVING_THRESHOLDS[2] <= T.LEAVING_THRESHOLDS[1]
      /\ T.STAT_MAX \in Nat \ {0}
      /\ \A a \in Actions : T.DURATION[a] \in Nat \ {0} /\ T.COOLDOWN[a] \in Nat
  BY ThresholdsSound
<1> QED
  BY <1>1, <1>2

LEMMA PrimaryFinite == IsFiniteSet(Primary) /\ Cardinality(Primary) = 3
<1>1. IsFiniteSet({"hunger"}) /\ Cardinality({"hunger"}) = 1
  BY FS_Singleton
<1>2. IsFiniteSet({"hunger", "tired"}) /\ Cardinality({"hunger", "tired"}) = 2
  <2>1. {"hunger", "tired"} = {"hunger"} \cup {"tired"} /\ "tired" \notin {"hunger"}
    OBVIOUS
  <2> QED
    BY <1>1, <2>1, FS_AddElement
<1>3. Primary = {"hunger", "tired"} \cup {"sick"} /\ "sick" \notin {"hunger", "tired"}
  BY DEF Primary
<1> QED
  BY <1>2, <1>3, FS_AddElement

LEMMA Maxed ==
  ASSUME NEW p
  PROVE  /\ CountMaxed(p) \in 0 .. 3
         /\ CountMaxed(p) = 0 <=> \A s \in Primary : p[s] # T.STAT_MAX
         /\ CountAbove60(p) \in Nat
<1>2. \A S \in SUBSET Primary : IsFiniteSet(S) /\ Cardinality(S) \in 0 .. 3
  <2> TAKE S \in SUBSET Primary
  <2>1. IsFiniteSet(S) /\ Cardinality(S) <= 3
    BY PrimaryFinite, FS_Subset
  <2> QED
    BY <2>1, FS_CardinalityType
<1>3. \A S \in SUBSET Primary : Cardinality(S) = 0 <=> S = {}
  BY <1>2, FS_EmptySet
<1>4. {s \in Primary : p[s] = T.STAT_MAX} \in SUBSET Primary
  OBVIOUS
<1> QED
  BY <1>2, <1>3, <1>4 DEF CountMaxed, CountAbove60

LEMMA RateTypes ==
  ASSUME NEW p \in GameState
  PROVE  /\ HungerRate(p) \in Nat /\ TiredRate(p) \in Nat /\ SickRate(p) \in Nat
         /\ SleepRecovery(p) \in Nat \ {0} /\ MiserableInterval(p) \in Nat \ {0}
<1>1. HungerRate(p) \in Nat /\ TiredRate(p) \in Nat
  BY Rates DEF HungerRate, TiredRate
<1>2. SickRate(p) \in Nat
  <2> DEFINE rate(on, low, high) == IF ~on THEN 0 ELSE IF MiserableHigh(p) THEN high ELSE low
  <2>1. \A on, low, high : low \in Nat /\ high \in Nat => rate(on, low, high) \in Nat
    OBVIOUS
  <2>2. /\ rate(SickConditionActive(p), T.SICK_CONDITION_RATE,
              T.SICK_CONDITION_MISERABLE_RATE) \in Nat
        /\ rate(Untreated(p, "diabetic", "medicate"), T.DIABETES_SICK_RATE,
                    T.DIABETES_SICK_MISERABLE_RATE) \in Nat
        /\ rate(Untreated(p, "alcoholic", "rehab"), T.ALCOHOLIC_SICK_RATE,
                    T.ALCOHOLIC_SICK_MISERABLE_RATE) \in Nat
    <3> HIDE DEF rate
    <3> QED
      BY <2>1, Rates
  <2>3. T.SICK_RATE \in Nat
    BY ThresholdsSound
  <2> QED
    BY <2>2, <2>3 DEF SickRate
<1>3. SleepRecovery(p) \in Nat \ {0}
  BY ThresholdsSound DEF SleepRecovery
<1>4. MiserableInterval(p) \in Nat \ {0}
  <2>1. T.MISERABLE_INTERVAL_PER_STAT * CountAbove60(p) \in Nat
    BY Maxed, Products, Rates
  <2>2. /\ T.MISERABLE_INTERVAL_BASE - T.MISERABLE_INTERVAL_PER_STAT * CountAbove60(p) \in Int
        /\ T.MISERABLE_INTERVAL_MIN \in Nat \ {0}
    BY <2>1, Rates, Divisors
  <2>3. \A a, b \in Int : Max({a, b}) = IF a >= b THEN a ELSE b
    BY MinMax
  <2> QED
    BY <2>2, <2>3 DEF MiserableInterval
<1> QED
  BY <1>1, <1>2, <1>3, <1>4

-----------------------------------------------------------------------------
(* One segment.                                                            *)

(* What no segment touches.                                                *)
Kept(p, q) ==
  /\ q.curiosity = p.curiosity /\ q.last_update_tick = p.last_update_tick
  /\ q.age_ticks = p.age_ticks /\ q.hatching_countdown = p.hatching_countdown
  /\ q.generation = p.generation /\ q.money = p.money
  /\ q.money_enabled = p.money_enabled /\ q.hard_mode = p.hard_mode
  /\ q.active_action = p.active_action /\ q.active_food = p.active_food
  /\ q.active_drink = p.active_drink
  /\ q.action_ticks_remaining = p.action_ticks_remaining
  /\ q.hibernating = p.hibernating /\ q.hibernate_ticks = p.hibernate_ticks
SamePhase(p, q) == q.phase = p.phase /\ q.leaving_countdown = p.leaving_countdown
SameBody(p, q) ==
  /\ q.hunger = p.hunger /\ q.tired = p.tired /\ q.sick = p.sick
  /\ q.weight = p.weight /\ q.drunk = p.drunk /\ q.is_sleeping = p.is_sleeping

LEMMA Fields ==
  ASSUME NEW p \in GameState
  PROVE  /\ p.hunger \in Stat /\ p.tired \in Stat /\ p.sick \in Stat /\ p.miserable \in Stat
         /\ p.weight \in Stat /\ p.drunk \in Stat /\ p.curiosity \in Stat
         /\ p.cooldown \in [Timers -> Nat]
         /\ p.overweight_ticks \in Nat /\ p.drunk_ticks \in Nat
         /\ p.leaving_countdown \in Nat /\ p.hatching_countdown \in Nat
         /\ p.miserable_interval_counter \in Nat /\ p.tired_passive_counter \in Nat
         /\ p.last_update_tick \in Nat /\ p.age_ticks \in Nat /\ p.hibernate_ticks \in Nat
         /\ p.action_ticks_remaining \in Nat /\ p.money \in Nat /\ p.generation \in Nat
         /\ p.is_sleeping \in BOOLEAN /\ p.hibernating \in BOOLEAN
         /\ p.diabetic \in BOOLEAN /\ p.alcoholic \in BOOLEAN
         /\ p.money_enabled \in BOOLEAN /\ p.hard_mode \in BOOLEAN
         /\ p.phase \in Phases /\ p.active_action \in Actions \cup {None}
         /\ p.active_food \in DOMAIN Foods \cup {None}
         /\ p.active_drink \in DOMAIN Drinks \cup {None}
BY DEF GameState

LEMMA CooldownsStep ==
  ASSUME NEW p \in GameState, NEW dt \in Nat
  PROVE  LET q == ConsumeCooldowns(p, dt)
         IN  /\ q \in GameState /\ Kept(p, q) /\ SamePhase(p, q) /\ SameBody(p, q)
             /\ \A c \in Timers : q.cooldown[c] = SatSub(p.cooldown[c], dt)
<1> DEFINE cd == [c \in Timers |-> SatSub(p.cooldown[c], dt)]
<1>1. ConsumeCooldowns(p, dt) = [p EXCEPT !.cooldown = cd]
  BY DEF ConsumeCooldowns
<1>2. cd \in [Timers -> Nat] /\ \A c \in Timers : cd[c] = SatSub(p.cooldown[c], dt)
  BY Fields, SatSubNat
<1> HIDE DEF cd
<1>3. LET q == [p EXCEPT !.cooldown = cd]
      IN  q \in GameState /\ Kept(p, q) /\ SamePhase(p, q) /\ SameBody(p, q) /\ q.cooldown = cd
  BY <1>2 DEF GameState, Kept, SamePhase, SameBody
<1> QED
  BY <1>1, <1>2, <1>3

LEMMA SickenStep ==
  ASSUME NEW p \in GameState, NEW dt \in Nat
  PROVE  LET q == Sicken(p, dt)
         IN  /\ q \in GameState /\ Kept(p, q) /\ SamePhase(p, q) /\ q.cooldown = p.cooldown
             /\ q.weight = p.weight /\ q.drunk = p.drunk /\ q.is_sleeping = p.is_sleeping
<1> DEFINE sick == SatAdd(p.sick, MulDt(SickRate(p), dt))
<1>1. sick \in Stat
  BY Fields, RateTypes, MulDtType, Saturating
<1>2. Sicken(p, dt) = p \/ Sicken(p, dt) = [p EXCEPT !.sick = sick]
  BY DEF Sicken
<1> HIDE DEF sick
<1>3. LET q == [p EXCEPT !.sick = sick]
      IN  /\ q \in GameState /\ Kept(p, q) /\ SamePhase(p, q) /\ q.cooldown = p.cooldown
          /\ q.weight = p.weight /\ q.drunk = p.drunk /\ q.is_sleeping = p.is_sleeping
  BY <1>1 DEF GameState, Kept, SamePhase
<1>4. Kept(p, p) /\ SamePhase(p, p)
  BY DEF Kept, SamePhase
<1> QED
  BY <1>2, <1>3, <1>4

LEMMA DriftStep ==
  ASSUME NEW p \in GameState, NEW dt \in Nat
  PROVE  LET q == Drift(p, dt)
         IN  /\ q \in GameState /\ Kept(p, q) /\ SamePhase(p, q) /\ q.cooldown = p.cooldown
             /\ q.weight = SatAdd(p.weight, MulDt(T.WEIGHT_RATE, dt))
             /\ q.drunk = SatSub(p.drunk, MulDt(T.DRUNK_SOBER_RATE, dt))
             /\ q.is_sleeping = p.is_sleeping /\ q.tired = p.tired
<1> DEFINE weight == SatAdd(p.weight, MulDt(T.WEIGHT_RATE, dt))
           drunk == SatSub(p.drunk, MulDt(T.DRUNK_SOBER_RATE, dt))
<1>1. weight \in Stat /\ drunk \in Stat
  BY Fields, Rates, MulDtType, Saturating
<1>2. Drift(p, dt) = [p EXCEPT !.weight = weight, !.drunk = drunk]
  BY DEF Drift
<1> HIDE DEF weight, drunk
<1>3. LET q == [p EXCEPT !.weight = weight, !.drunk = drunk]
      IN  /\ q \in GameState /\ Kept(p, q) /\ SamePhase(p, q) /\ q.cooldown = p.cooldown
          /\ q.weight = weight /\ q.drunk = drunk /\ q.is_sleeping = p.is_sleeping /\ q.tired =
                      p.tired
  BY <1>1 DEF GameState, Kept, SamePhase
<1> QED
  BY <1>2, <1>3 DEF weight, drunk

LEMMA FretStep ==
  ASSUME NEW p \in GameState, NEW dt \in Nat
  PROVE  LET q == Fret(p, dt)
         IN  /\ q \in GameState /\ Kept(p, q) /\ SamePhase(p, q) /\ q.cooldown = p.cooldown
             /\ SameBody(p, q)
<1> DEFINE waited == p.miserable_interval_counter + dt
           counter == waited % MiserableInterval(p)
           times == waited \div MiserableInterval(p)
           miserable == SatAdd(p.miserable, MulDt(T.MISERABLE_AMOUNT, times))
<1>1. waited \in Nat /\ MiserableInterval(p) \in Nat \ {0}
  BY Fields, RateTypes
<1>2. counter \in Nat /\ times \in Nat
  <2> HIDE DEF waited
  <2> QED
    BY <1>1, Products
<1>3. miserable \in Stat
  <2> HIDE DEF times
  <2> QED
    BY <1>2, Fields, Divisors, MulDtType, Saturating
<1>4. Fret(p, dt) = p \/ Fret(p, dt) = [p EXCEPT !.miserable_interval_counter =
            counter, !.miserable = miserable]
  BY DEF Fret
<1> HIDE DEF counter, miserable
<1>5. LET q == [p EXCEPT !.miserable_interval_counter = counter, !.miserable = miserable]
      IN  /\ q \in GameState /\ Kept(p, q) /\ SamePhase(p, q) /\ q.cooldown = p.cooldown
          /\ SameBody(p, q)
  BY <1>2, <1>3 DEF GameState, Kept, SamePhase, SameBody
<1>6. Kept(p, p) /\ SamePhase(p, p) /\ SameBody(p, p)
  BY DEF Kept, SamePhase, SameBody
<1> QED
  BY <1>4, <1>5, <1>6

(* What the decay of a segment does, awake or asleep.                      *)
Decayed(p, q, dt) ==
  /\ q \in GameState /\ Kept(p, q) /\ SamePhase(p, q) /\ q.cooldown = p.cooldown
  /\ q.weight = SatAdd(p.weight, MulDt(T.WEIGHT_RATE, dt))
  /\ q.drunk = SatSub(p.drunk, MulDt(T.DRUNK_SOBER_RATE, dt))
  /\ q.is_sleeping => p.is_sleeping

LEMMA AwakeStep ==
  ASSUME NEW p \in GameState, NEW dt \in Nat
  PROVE  Decayed(p, ApplyAwakeDecay(p, dt), dt)
<1> DEFINE hungry == IF p.cooldown["feed"] = 0 /\ p.active_action # "feed"
                     THEN SatAdd(p.hunger, MulDt(HungerRate(p), dt)) ELSE p.hunger
           rested == p.tired_passive_counter + dt
           times == rested \div T.TIRED_PASSIVE_INTERVAL
           counter == rested % T.TIRED_PASSIVE_INTERVAL
           tired == SatSub(SatAdd(p.tired, MulDt(TiredRate(p), dt)),
                           MulDt(T.TIRED_PASSIVE_RECOVERY, times))
           q1 == [p EXCEPT !.hunger = hungry, !.tired = tired, !.tired_passive_counter = counter]
           q2 == Sicken(q1, dt)
           q3 == Drift(q2, dt)
<1>1. hungry \in Stat
  BY Fields, RateTypes, MulDtType, Saturating
<1>2. times \in Nat /\ counter \in Nat
  <2>1. rested \in Nat
    BY Fields
  <2> HIDE DEF rested
  <2> QED
    BY <2>1, Divisors, Products
<1>3. tired \in Stat
  <2> HIDE DEF times
  <2>1. SatAdd(p.tired, MulDt(TiredRate(p), dt)) \in Stat
    BY Fields, RateTypes, MulDtType, Saturating
  <2>2. MulDt(T.TIRED_PASSIVE_RECOVERY, times) \in Nat
    BY <1>2, Rates, MulDtType
  <2> QED
    BY <2>1, <2>2, Saturating
<1>4. ApplyAwakeDecay(p, dt) = Fret(q3, dt)
  BY DEF ApplyAwakeDecay
<1> HIDE DEF hungry, times, counter, tired
<1>5. /\ q1 \in GameState /\ Kept(p, q1) /\ SamePhase(p, q1) /\ q1.cooldown = p.cooldown
      /\ q1.weight = p.weight /\ q1.drunk = p.drunk /\ q1.is_sleeping = p.is_sleeping
  BY <1>1, <1>2, <1>3 DEF GameState, Kept, SamePhase
<1> HIDE DEF q1
<1>6. /\ q2 \in GameState /\ Kept(q1, q2) /\ SamePhase(q1, q2) /\ q2.cooldown = q1.cooldown
      /\ q2.weight = q1.weight /\ q2.drunk = q1.drunk /\ q2.is_sleeping = q1.is_sleeping
  BY <1>5, SickenStep
<1> HIDE DEF q2
<1>7. /\ q3 \in GameState /\ Kept(q2, q3) /\ SamePhase(q2, q3) /\ q3.cooldown = q2.cooldown
      /\ q3.weight = SatAdd(q2.weight, MulDt(T.WEIGHT_RATE, dt))
      /\ q3.drunk = SatSub(q2.drunk, MulDt(T.DRUNK_SOBER_RATE, dt))
      /\ q3.is_sleeping = q2.is_sleeping
  BY <1>6, DriftStep
<1> HIDE DEF q3
<1>8. /\ Fret(q3, dt) \in GameState /\ Kept(q3, Fret(q3, dt)) /\ SamePhase(q3, Fret(q3, dt))
      /\ Fret(q3, dt).cooldown = q3.cooldown /\ SameBody(q3, Fret(q3, dt))
  BY <1>7, FretStep
<1> QED
  BY <1>4, <1>5, <1>6, <1>7, <1>8 DEF Decayed, Kept, SamePhase, SameBody

LEMMA AsleepStep ==
  ASSUME NEW p \in GameState, NEW dt \in Nat, p.is_sleeping
  PROVE  Decayed(p, ApplySleepDecay(p, dt), dt)
<1> DEFINE hungry == IF p.cooldown["feed"] = 0
                     THEN SatAdd(p.hunger, MulDt(HungerRate(p) + T.SLEEP_HUNGER_COST, dt))
                     ELSE p.hunger
           tired == SatSub(p.tired, MulDt(SleepRecovery(p), dt))
           q1 == [p EXCEPT !.hunger = hungry, !.tired = tired]
           q2 == Sicken(q1, dt)
           q3 == Drift(q2, dt)
           awake == q3.tired > 0
           q4 == [q3 EXCEPT !.is_sleeping = awake]
<1>1. hungry \in Stat
  <2>1. HungerRate(p) + T.SLEEP_HUNGER_COST \in Nat
    BY RateTypes, Rates
  <2> QED
    BY <2>1, Fields, MulDtType, Saturating
<1>2. tired \in Stat
  BY Fields, RateTypes, MulDtType, Saturating
<1>3. ApplySleepDecay(p, dt) = q4
  BY DEF ApplySleepDecay, WakeRested
<1> HIDE DEF hungry, tired
<1>4. /\ q1 \in GameState /\ Kept(p, q1) /\ SamePhase(p, q1) /\ q1.cooldown = p.cooldown
      /\ q1.weight = p.weight /\ q1.drunk = p.drunk
  BY <1>1, <1>2 DEF GameState, Kept, SamePhase
<1> HIDE DEF q1
<1>5. /\ q2 \in GameState /\ Kept(q1, q2) /\ SamePhase(q1, q2) /\ q2.cooldown = q1.cooldown
      /\ q2.weight = q1.weight /\ q2.drunk = q1.drunk
  BY <1>4, SickenStep
<1> HIDE DEF q2
<1>6. /\ q3 \in GameState /\ Kept(q2, q3) /\ SamePhase(q2, q3) /\ q3.cooldown = q2.cooldown
      /\ q3.weight = SatAdd(q2.weight, MulDt(T.WEIGHT_RATE, dt))
      /\ q3.drunk = SatSub(q2.drunk, MulDt(T.DRUNK_SOBER_RATE, dt))
  BY <1>5, DriftStep
<1> HIDE DEF q3
<1>7. awake \in BOOLEAN
  OBVIOUS
<1> HIDE DEF awake
<1>8. /\ q4 \in GameState /\ Kept(q3, q4) /\ SamePhase(q3, q4) /\ q4.cooldown = q3.cooldown
      /\ q4.weight = q3.weight /\ q4.drunk = q3.drunk
  BY <1>6, <1>7 DEF GameState, Kept, SamePhase
<1> HIDE DEF q4
<1> QED
  BY <1>3, <1>4, <1>5, <1>6, <1>8 DEF Decayed, Kept, SamePhase

LEMMA DecayStep ==
  ASSUME NEW p \in GameState, NEW dt \in Nat
  PROVE  Decayed(p, ApplyDecay(p, dt), dt)
BY AwakeStep, AsleepStep DEF ApplyDecay

LEMMA SameMaxed ==
  ASSUME NEW p, NEW q, SameBody(p, q)
  PROVE  CountMaxed(q) = CountMaxed(p)
<1>1. \A s \in Primary : q[s] = p[s]
  BY DEF Primary, SameBody
<1> QED
  BY <1>1 DEF CountMaxed

(* The countdown and the phase after dt ticks with maxed stats, or none.   *)
Counted(p, q, maxed, dt) ==
  /\ q.leaving_countdown = IF maxed = 0 THEN 0 ELSE p.leaving_countdown + dt
  /\ q.phase = IF maxed = 0 THEN (IF p.phase = "Leaving" THEN "Active" ELSE p.phase)
               ELSE IF q.leaving_countdown >= T.LEAVING_THRESHOLDS[maxed] THEN "Gone" ELSE "Leaving"

LEMMA CheckLeavingStep ==
  ASSUME NEW p \in GameState, NEW dt \in Nat
  PROVE  LET q == CheckLeaving(p, dt)
         IN  /\ q \in GameState /\ Kept(p, q) /\ q.cooldown = p.cooldown /\ SameBody(p, q)
             /\ Counted(p, q, CountMaxed(p), dt)
<1> DEFINE maxed == CountMaxed(p)
           countdown == IF maxed = 0 THEN 0 ELSE p.leaving_countdown + dt
           phase == IF maxed = 0 THEN (IF p.phase = "Leaving" THEN "Active" ELSE p.phase)
                    ELSE IF countdown >= T.LEAVING_THRESHOLDS[maxed] THEN "Gone" ELSE "Leaving"
           q == [p EXCEPT !.leaving_countdown = countdown, !.phase = phase]
<1>1. countdown \in Nat /\ phase \in Phases
  BY Fields DEF Phases
<1>2. CheckLeaving(p, dt) = q
  <2>1. CASE maxed = 0
    BY <2>1 DEF CheckLeaving
  <2>2. CASE maxed # 0
    BY <2>2 DEF CheckLeaving
  <2> QED
    BY <2>1, <2>2
<1>3. /\ countdown = IF maxed = 0 THEN 0 ELSE p.leaving_countdown + dt
      /\ phase = IF maxed = 0 THEN (IF p.phase = "Leaving" THEN "Active" ELSE p.phase)
                 ELSE IF countdown >= T.LEAVING_THRESHOLDS[maxed] THEN "Gone" ELSE "Leaving"
  OBVIOUS
<1> HIDE DEF countdown, phase, maxed
<1>4. /\ q \in GameState /\ Kept(p, q) /\ q.cooldown = p.cooldown /\ SameBody(p, q)
      /\ q.leaving_countdown = countdown /\ q.phase = phase
  BY <1>1 DEF GameState, Kept, SameBody
<1> QED
  BY <1>2, <1>3, <1>4 DEF Counted, maxed

LEMMA OnsetSteps ==
  ASSUME NEW p \in GameState, NEW dt \in Nat
  PROVE  LET q == CheckAlcoholism(CheckDiabetes(p, dt), dt)
         IN  /\ q \in GameState /\ Kept(p, q) /\ q.cooldown = p.cooldown /\ SameBody(p, q)
             /\ SamePhase(p, q)
<1> DEFINE fat == IF p.weight > T.OVERWEIGHT_TRIGGER THEN p.overweight_ticks + dt ELSE 0
           sweet == fat >= T.DIABETES_ONSET_TICKS
           q1 == [p EXCEPT !.overweight_ticks = fat, !.diabetic = sweet]
           r == CheckDiabetes(p, dt)
           wet == IF r.drunk > T.DRUNK_TRIGGER THEN r.drunk_ticks + dt ELSE 0
           bottle == wet >= T.ALCOHOLIC_ONSET_TICKS
           q2 == [r EXCEPT !.drunk_ticks = wet, !.alcoholic = bottle]
           q == CheckAlcoholism(r, dt)
<1>1. fat \in Nat /\ sweet \in BOOLEAN
  BY Fields
<1>2. r = p \/ r = q1
  BY DEF CheckDiabetes, Onset
<1> HIDE DEF fat, sweet
<1>3. /\ q1 \in GameState /\ Kept(p, q1) /\ q1.cooldown = p.cooldown /\ SameBody(p, q1)
      /\ SamePhase(p, q1)
  BY <1>1 DEF GameState, Kept, SamePhase, SameBody
<1> HIDE DEF q1
<1>4. /\ r \in GameState /\ Kept(p, r) /\ r.cooldown = p.cooldown /\ SameBody(p, r)
      /\ SamePhase(p, r)
  BY <1>2, <1>3 DEF Kept, SamePhase, SameBody
<1> HIDE DEF r
<1>5. wet \in Nat /\ bottle \in BOOLEAN
  BY <1>4, Fields
<1>6. q = r \/ q = q2
  BY DEF CheckAlcoholism, Onset
<1> HIDE DEF wet, bottle
<1>7. /\ q2 \in GameState /\ Kept(r, q2) /\ q2.cooldown = r.cooldown /\ SameBody(r, q2)
      /\ SamePhase(r, q2)
  BY <1>4, <1>5 DEF GameState, Kept, SamePhase, SameBody
<1> HIDE DEF q2
<1>8. /\ q \in GameState /\ Kept(p, q) /\ q.cooldown = p.cooldown /\ SameBody(p, q)
      /\ SamePhase(p, q)
  BY <1>4, <1>6, <1>7 DEF Kept, SamePhase, SameBody
<1> QED
  BY <1>8 DEF r

LEMMA FloorStep ==
  ASSUME NEW p \in GameState
  PROVE  LET q == ApplyMiserableFloor(p)
         IN  /\ q \in GameState /\ Kept(p, q) /\ q.cooldown = p.cooldown /\ SameBody(p, q)
             /\ SamePhase(p, q)
<1> DEFINE critical == Cardinality({s \in Primary : p[s] > SickTrigger(s)})
           severe == Min({critical * (T.STAT_MAX \div 5), T.STAT_MAX})
           leaving == IF p.phase = "Leaving" THEN T.STAT_MAX \div 2 ELSE 0
           floor == MiserableFloor(p)
           miserable == Max({p.miserable, floor})
<1>0. T.STAT_MAX \in Nat \ {0}
  BY Divisors
<1>1. critical \in Nat
  <2>1. IsFiniteSet(Primary)
    BY PrimaryFinite
  <2> QED
    BY <2>1, FS_Subset, FS_CardinalityType
<1>2. severe \in Stat
  <2>1. T.STAT_MAX \div 5 \in Nat
    BY <1>0
  <2>2. critical * (T.STAT_MAX \div 5) \in Nat
    BY <1>1, <2>1, Products
  <2> QED
    BY <1>0, <2>2, MinMax DEF Stat
<1>3. leaving \in Stat
  BY <1>0 DEF Stat
<1>4. floor \in Stat
  <2>1. floor = Max({severe, leaving})
    BY DEF MiserableFloor
  <2>2. severe \in Int /\ leaving \in Int
    BY <1>0, <1>2, <1>3 DEF Stat
  <2> HIDE DEF severe, leaving
  <2> QED
    BY <1>2, <1>3, <2>1, <2>2, MinMax
<1>5. miserable \in Stat
  <2>1. p.miserable \in Stat
    BY Fields
  <2>2. p.miserable \in Int /\ floor \in Int
    BY <1>0, <1>4, <2>1 DEF Stat
  <2> QED
    BY <1>4, <2>1, <2>2, MinMax
<1>6. ApplyMiserableFloor(p) = [p EXCEPT !.miserable = miserable]
  BY DEF ApplyMiserableFloor
<1> HIDE DEF miserable
<1>7. LET q == [p EXCEPT !.miserable = miserable]
      IN  /\ q \in GameState /\ Kept(p, q) /\ q.cooldown = p.cooldown /\ SameBody(p, q)
          /\ SamePhase(p, q)
  BY <1>5 DEF GameState, Kept, SamePhase, SameBody
<1> QED
  BY <1>6, <1>7

(* One segment: the cooldowns, the weight and the drunkenness of dt ticks, *)
(* and the countdown by the stats maxed at its end.                        *)
SegmentOf(p, q, dt) ==
  /\ q \in GameState /\ Kept(p, q)
  /\ \A c \in Timers : q.cooldown[c] = SatSub(p.cooldown[c], dt)
  /\ q.weight = SatAdd(p.weight, MulDt(T.WEIGHT_RATE, dt))
  /\ q.drunk = SatSub(p.drunk, MulDt(T.DRUNK_SOBER_RATE, dt))
  /\ q.is_sleeping => p.is_sleeping
  /\ Counted(p, q, CountMaxed(q), dt)

LEMMA SegmentStep ==
  ASSUME NEW p \in GameState, NEW dt \in Nat
  PROVE  SegmentOf(p, Segment(p, dt), dt)
<1> DEFINE q1 == ConsumeCooldowns(p, dt)
           q2 == ApplyDecay(q1, dt)
           q3 == CheckLeaving(q2, dt)
           q4 == CheckAlcoholism(CheckDiabetes(q3, dt), dt)
           q5 == ApplyMiserableFloor(q4)
<1>1. /\ q1 \in GameState /\ Kept(p, q1) /\ SamePhase(p, q1) /\ SameBody(p, q1)
      /\ \A c \in Timers : q1.cooldown[c] = SatSub(p.cooldown[c], dt)
  BY CooldownsStep
<1>0. Segment(p, dt) = q5
  BY DEF Segment
<1> HIDE DEF q1
<1>2. Decayed(q1, q2, dt)
  BY <1>1, DecayStep
<1> HIDE DEF q2
<1>3. /\ q3 \in GameState /\ Kept(q2, q3) /\ q3.cooldown = q2.cooldown /\ SameBody(q2, q3)
      /\ Counted(q2, q3, CountMaxed(q2), dt)
  BY <1>2, CheckLeavingStep DEF Decayed
<1> HIDE DEF q3
<1>4. /\ q4 \in GameState /\ Kept(q3, q4) /\ q4.cooldown = q3.cooldown /\ SameBody(q3, q4)
      /\ SamePhase(q3, q4)
  BY <1>3, OnsetSteps
<1> HIDE DEF q4
<1>5. /\ q5 \in GameState /\ Kept(q4, q5) /\ q5.cooldown = q4.cooldown /\ SameBody(q4, q5)
      /\ SamePhase(q4, q5)
  BY <1>4, FloorStep
<1> HIDE DEF q5
<1>6. CountMaxed(q5) = CountMaxed(q2)
  BY <1>3, <1>4, <1>5, SameMaxed
<1>7. Kept(p, q5)
  BY <1>1, <1>2, <1>3, <1>4, <1>5 DEF Decayed, Kept
<1>8. Counted(p, q5, CountMaxed(q5), dt)
  BY <1>1, <1>2, <1>3, <1>4, <1>5, <1>6 DEF Decayed, SamePhase, Counted
<1>9. /\ q5.cooldown = q1.cooldown
      /\ q5.weight = SatAdd(p.weight, MulDt(T.WEIGHT_RATE, dt))
      /\ q5.drunk = SatSub(p.drunk, MulDt(T.DRUNK_SOBER_RATE, dt))
      /\ q5.is_sleeping => p.is_sleeping
  BY <1>1, <1>2, <1>3, <1>4, <1>5 DEF Decayed, SameBody
<1> QED
  BY <1>0, <1>1, <1>5, <1>7, <1>8, <1>9 DEF SegmentOf

-----------------------------------------------------------------------------
(* The segments of one update.                                             *)

LEMMA BoundariesType ==
  ASSUME NEW p \in GameState
  PROVE  Boundaries(p) \subseteq Nat
<1> DEFINE up(val, target, rate) ==
             IF val >= target \/ rate = 0 THEN {} ELSE {(target - val) \div rate}
           down(target, rate) ==
             IF p.tired <= target THEN {} ELSE {Max({(p.tired - target) \div rate, 1})}
           fires == (T.MISERABLE_BOOST_THRESHOLD - p.miserable) \div T.MISERABLE_AMOUNT
           hunger == IF p.cooldown["feed"] > 0 THEN 0 ELSE HungerRate(p)
           sick == IF p.cooldown["heal"] > 0 \/ p.active_action = "heal" THEN 0 ELSE SickRate(p)
           B1 == UNION {up(p.hunger, t, hunger) :
                   t \in {T.MISERABLE_STAT_THRESHOLD, T.SICK_TRIGGER_HUNGER, T.STAT_MAX}}
           B2 == UNION {up(p.tired, t, TiredRate(p)) :
                   t \in {T.MISERABLE_STAT_THRESHOLD, T.SICK_TRIGGER_TIRED, T.STAT_MAX}}
           B3 == UNION {up(p.sick, t, sick) : t \in {T.MISERABLE_STAT_THRESHOLD, T.STAT_MAX}}
           B4 == IF MiserableHigh(p) \/ (p.cooldown["play"] > 0 /\ fires > 0) THEN {}
                 ELSE {fires * MiserableInterval(p)}
           B5 == CooldownsLeft(p, Actions \ {"onlypets"})
           B6 == IF ~p.is_sleeping THEN {}
                 ELSE UNION {down(T.SLEEP_TIER_SLOW, T.SLEEP_RECOVERY_SLOW),
                             down(T.SLEEP_TIER_MEDIUM, T.SLEEP_RECOVERY_MEDIUM),
                             down(0, SleepRecovery(p))}
<1> HIDE DEF up, down, fires, hunger, sick, B1, B2, B3, B4, B5, B6
<1>0. /\ p.hunger \in Nat /\ p.tired \in Nat /\ p.sick \in Nat /\ p.miserable \in Nat
  <2>1. Stat \subseteq Nat
    BY DEF Stat
  <2> QED
    BY <2>1, Fields
<1>1. \A val, target, rate \in Nat : up(val, target, rate) \subseteq Nat
  <2> SUFFICES ASSUME NEW val \in Nat, NEW target \in Nat, NEW rate \in Nat, val < target, rate # 0
               PROVE  (target - val) \div rate \in Nat
    BY DEF up
  <2> DEFINE d == target - val
  <2>1. d \in Nat
    OBVIOUS
  <2> HIDE DEF d
  <2>2. d \div rate \in Nat
    BY <2>1, Products
  <2> QED
    BY <2>2 DEF d
<1>2. \A target \in Nat, rate \in Nat \ {0} : down(target, rate) \subseteq Nat
  <2> SUFFICES ASSUME NEW target \in Nat, NEW rate \in Nat \ {0}, ~(p.tired <= target)
               PROVE  Max({(p.tired - target) \div rate, 1}) \in Nat
    BY DEF down
  <2> DEFINE d == p.tired - target
  <2>1. d \in Nat
    BY <1>0
  <2> HIDE DEF d
  <2>2. d \div rate \in Nat
    BY <2>1, Products
  <2>3. \A a \in Nat : Max({a, 1}) \in Nat
    <3>1. \A a \in Int : Max({a, 1}) = IF a >= 1 THEN a ELSE 1
      BY MinMax
    <3> QED
      BY <3>1
  <2> QED
    BY <2>2, <2>3 DEF d
<1>3. hunger \in Nat /\ sick \in Nat /\ TiredRate(p) \in Nat
  BY RateTypes DEF hunger, sick
<1>4. B1 \subseteq Nat /\ B2 \subseteq Nat /\ B3 \subseteq Nat
  <2>1. {T.MISERABLE_STAT_THRESHOLD, T.SICK_TRIGGER_HUNGER, T.SICK_TRIGGER_TIRED,
              T.STAT_MAX} \subseteq Nat
    BY Rates, Divisors
  <2>2. B1 \subseteq Nat
    BY <1>0, <1>1, <1>3, <2>1 DEF B1
  <2>3. B2 \subseteq Nat
    BY <1>0, <1>1, <1>3, <2>1 DEF B2
  <2>4. B3 \subseteq Nat
    BY <1>0, <1>1, <1>3, <2>1 DEF B3
  <2> QED
    BY <2>2, <2>3, <2>4
<1>5. B4 \subseteq Nat
  <2> SUFFICES ASSUME ~MiserableHigh(p) PROVE fires * MiserableInterval(p) \in Nat
    BY DEF B4
  <2> DEFINE d == T.MISERABLE_BOOST_THRESHOLD - p.miserable
  <2>1. d \in Nat
    BY <1>0, Rates DEF MiserableHigh
  <2>2. fires = d \div T.MISERABLE_AMOUNT
    BY DEF fires
  <2> HIDE DEF d
  <2>3. fires \in Nat
    BY <2>1, <2>2, Divisors, Products
  <2> QED
    BY <2>3, RateTypes, Products
<1>6. B5 \subseteq Nat
  <2>1. \A c \in Actions : p.cooldown[c] \in Nat
    BY Fields DEF Timers
  <2> QED
    BY <2>1 DEF CooldownsLeft, B5
<1>7. B6 \subseteq Nat
  <2>1. /\ down(T.SLEEP_TIER_SLOW, T.SLEEP_RECOVERY_SLOW) \subseteq Nat
        /\ down(T.SLEEP_TIER_MEDIUM, T.SLEEP_RECOVERY_MEDIUM) \subseteq Nat
        /\ down(0, SleepRecovery(p)) \subseteq Nat
    BY <1>2, Rates, Divisors, RateTypes
  <2> QED
    BY <2>1 DEF B6
<1>8. Boundaries(p) = UNION {B1, B2, B3, B4, B5, B6}
  BY DEF Boundaries, B1, B2, B3, B4, B5, B6, up, down, fires, hunger, sick
<1> QED
  BY <1>4, <1>5, <1>6, <1>7, <1>8

(* Each segment is at least a tick and no longer than what is left.        *)
LEMMA AdvanceStep ==
  ASSUME NEW s \in Charging, ~Charged(s)
  PROVE  \E dt \in Nat \ {0} :
           /\ dt <= s.left /\ Advance(s) = [pet |-> Segment(s.pet, dt), left |-> s.left - dt]
           /\ Advance(s) \in Charging /\ SegmentOf(s.pet, Advance(s).pet, dt)
<1> DEFINE next == Min(Boundaries(s.pet) \cup {s.left})
           dt == Max({1, next})
<1>1. s.pet \in GameState /\ s.left \in Nat /\ s.left >= 1
  BY DEF Charging, Charged
<1>2. next \in Nat /\ next <= s.left
  <2>1. Boundaries(s.pet) \cup {s.left} \in SUBSET Nat
    BY <1>1, BoundariesType
  <2> QED
    BY <2>1, MinOf
<1> HIDE DEF next
<1>3. dt \in Nat \ {0} /\ dt <= s.left
  BY <1>1, <1>2, MinMax
<1>4. Advance(s) = [pet |-> Segment(s.pet, dt), left |-> s.left - dt]
  BY DEF Advance, next
<1> HIDE DEF dt
<1>5. SegmentOf(s.pet, Segment(s.pet, dt), dt)
  BY <1>1, <1>3, SegmentStep
<1>6. Advance(s) \in Charging
  BY <1>1, <1>3, <1>4, <1>5 DEF Charging, SegmentOf
<1> QED
  BY <1>3, <1>4, <1>5, <1>6

(* The recursion is well founded, so Charge is what its definition says:   *)
(* there is such a function on the pets with at most n ticks left, for     *)
(* every n, and it is the only one.                                        *)
Below(n) == {s \in Charging : s.left <= n}
ChargeStep(f, s) == IF Charged(s) THEN s.pet ELSE f[Advance(s)]
IsCharge(f, n) == f = [s \in Below(n) |-> ChargeStep(f, s)]

LEMMA ChargeUnique ==
  ASSUME NEW m \in Nat, NEW n \in Nat, NEW f, NEW g, IsCharge(f, m), IsCharge(g, n),
         NEW s \in Charging, s.left <= m, s.left <= n
  PROVE  f[s] = g[s]
<1> DEFINE differ == {k \in Nat : \E t \in Charging : t.left = k /\ t.left <= m
                                                      /\ t.left <= n /\ f[t] # g[t]}
<1> SUFFICES ASSUME f[s] # g[s] PROVE FALSE
  OBVIOUS
<1>1. s.left \in differ
  BY DEF Charging
<1>2. PICK k \in differ : \A j \in differ : k <= j
  <2>1. differ \in SUBSET Nat
    OBVIOUS
  <2> HIDE DEF differ
  <2> QED
    BY <1>1, <2>1, LeastNatural
<1>3. PICK t \in Charging : t.left = k /\ t.left <= m /\ t.left <= n /\ f[t] # g[t]
  OBVIOUS
<1>4. f[t] = ChargeStep(f, t) /\ g[t] = ChargeStep(g, t)
  BY <1>3 DEF IsCharge, Below
<1>5. ~Charged(t)
  BY <1>3, <1>4 DEF ChargeStep
<1>6. Advance(t) \in Charging /\ Advance(t).left < t.left /\ t.left \in Nat
      /\ Advance(t).left \in Nat
  <2>1. PICK dt \in Nat \ {0} :
            /\ dt <= t.left
            /\ Advance(t) = [pet |-> Segment(t.pet, dt), left |-> t.left - dt]
                              /\ Advance(t) \in Charging
    BY <1>5, AdvanceStep
  <2> QED
    BY <2>1 DEF Charging
<1>7. Advance(t).left \notin differ
  BY <1>2, <1>3, <1>6
<1>8. f[Advance(t)] = g[Advance(t)]
  BY <1>3, <1>6, <1>7
<1> QED
  BY <1>3, <1>4, <1>5, <1>8 DEF ChargeStep

LEMMA ChargeExists ==
  ASSUME NEW n \in Nat
  PROVE  \E f : IsCharge(f, n)
<1> DEFINE bad == {k \in Nat : ~\E f : IsCharge(f, k)}
<1> SUFFICES ASSUME n \in bad PROVE FALSE
  OBVIOUS
<1>1. PICK k \in bad : \A j \in bad : k <= j
  <2>1. bad \in SUBSET Nat
    OBVIOUS
  <2> HIDE DEF bad
  <2> QED
    BY <2>1, LeastNatural
<1>2. k \in Nat /\ ~\E f : IsCharge(f, k)
  OBVIOUS
<1> DEFINE f == [s \in Below(k) |->
                   IF Charged(s) THEN s.pet
                   ELSE (CHOOSE g : IsCharge(g, Advance(s).left))[Advance(s)]]
<1>3. ASSUME NEW s \in Below(k), ~Charged(s)
      PROVE  f[s] = f[Advance(s)]
  <2> DEFINE t == Advance(s)
             g == CHOOSE h : IsCharge(h, t.left)
  <2>1. t \in Charging /\ t.left \in Nat /\ t.left < s.left /\ s.left <= k /\ s \in Charging
        /\ s.left \in Nat
    <3>1. s \in Charging /\ s.left <= k
      BY DEF Below
    <3>2. PICK dt \in Nat \ {0} :
              /\ dt <= s.left
              /\ Advance(s) = [pet |-> Segment(s.pet, dt), left |-> s.left - dt]
                                /\ Advance(s) \in Charging
      BY <1>3, <3>1, AdvanceStep
    <3> QED
      BY <3>1, <3>2 DEF Charging
  <2>2. t.left \notin bad
    BY <1>1, <1>2, <2>1
  <2>3. IsCharge(g, t.left)
    BY <2>1, <2>2
  <2>4. f[s] = g[t]
    BY <1>3
  <2>5. t \in Below(k)
    BY <1>2, <2>1 DEF Below
  <2>6. g[t] = ChargeStep(g, t)
    <3> HIDE DEF t, g
    <3>1. t \in Below(t.left)
      BY <2>1 DEF Below
    <3> QED
      BY <2>3, <3>1 DEF IsCharge
  <2> HIDE DEF t, g
  <2>7. CASE Charged(t)
    <3>1. f[t] = t.pet
      BY <2>5, <2>7
    <3> QED
      BY <2>4, <2>6, <2>7, <3>1 DEF ChargeStep, t
  <2>8. CASE ~Charged(t)
    <3> DEFINE u == Advance(t)
               h == CHOOSE e : IsCharge(e, u.left)
    <3>1. u \in Charging /\ u.left \in Nat /\ u.left < t.left
      <4>1. PICK dt \in Nat \ {0} :
                /\ dt <= t.left
                /\ Advance(t) = [pet |-> Segment(t.pet, dt), left |-> t.left - dt]
                                  /\ Advance(t) \in Charging
        BY <2>1, <2>8, AdvanceStep
      <4> QED
        BY <2>1, <4>1 DEF Charging
    <3>2. u.left \notin bad
      BY <1>1, <1>2, <2>1, <3>1
    <3>3. IsCharge(h, u.left)
      BY <3>1, <3>2
    <3>4. f[t] = h[u]
      BY <2>5, <2>8
    <3>5. g[t] = g[u]
      BY <2>6, <2>8 DEF ChargeStep
    <3>6. h[u] = g[u]
      <4> HIDE DEF u, h
      <4> QED
        BY <2>1, <2>3, <3>1, <3>3, ChargeUnique
    <3> QED
      BY <2>4, <3>4, <3>5, <3>6 DEF t
  <2> QED
    BY <2>7, <2>8
<1>4. ASSUME NEW s \in Below(k) PROVE f[s] = ChargeStep(f, s)
  <2>1. CASE Charged(s)
    BY <2>1 DEF ChargeStep
  <2>2. CASE ~Charged(s)
    <3> HIDE DEF f
    <3> QED
      BY <1>3, <2>2 DEF ChargeStep
  <2> QED
    BY <2>1, <2>2
<1>5. f = [s \in Below(k) |-> f[s]]
  OBVIOUS
<1> HIDE DEF f
<1>6. f = [s \in Below(k) |-> ChargeStep(f, s)]
  BY <1>4, <1>5
<1> QED
  BY <1>2, <1>6 DEF IsCharge

LEMMA ChargeEquation ==
  \A s \in Charging : Charge[s] = IF Charged(s) THEN s.pet ELSE Charge[Advance(s)]
<1> DEFINE part(n) == CHOOSE f : IsCharge(f, n)
           whole == [s \in Charging |-> part(s.left)[s]]
<1>1. \A n \in Nat : IsCharge(part(n), n)
  BY ChargeExists
<1>2. ASSUME NEW s \in Charging PROVE whole[s] = ChargeStep(whole, s)
  <2>1. s.left \in Nat
    BY DEF Charging
  <2>2. whole[s] = part(s.left)[s]
    OBVIOUS
  <2>3. part(s.left)[s] = ChargeStep(part(s.left), s)
    <3> HIDE DEF part
    <3>1. s \in Below(s.left)
      BY <2>1 DEF Below
    <3> QED
      BY <1>1, <2>1, <3>1 DEF IsCharge
  <2>4. CASE Charged(s)
    BY <2>2, <2>3, <2>4 DEF ChargeStep
  <2>5. CASE ~Charged(s)
    <3> DEFINE t == Advance(s)
    <3>1. t \in Charging /\ t.left \in Nat /\ t.left <= s.left
      <4>1. PICK dt \in Nat \ {0} :
                /\ dt <= s.left
                /\ Advance(s) = [pet |-> Segment(s.pet, dt), left |-> s.left - dt]
                                  /\ Advance(s) \in Charging
        BY <2>5, AdvanceStep
      <4> QED
        BY <2>1, <4>1 DEF Charging
    <3>2. whole[t] = part(t.left)[t]
      BY <3>1
    <3>3. part(t.left)[t] = part(s.left)[t]
      <4>1. IsCharge(part(t.left), t.left) /\ IsCharge(part(s.left), s.left)
        BY <1>1, <2>1, <3>1
      <4> HIDE DEF t, part
      <4> QED
        BY <2>1, <3>1, <4>1, ChargeUnique
    <3> QED
      BY <2>2, <2>3, <2>5, <3>2, <3>3 DEF ChargeStep
  <2> QED
    BY <2>4, <2>5
<1>3. whole = [s \in Charging |-> IF Charged(s) THEN s.pet ELSE whole[Advance(s)]]
  <2>1. whole = [s \in Charging |-> whole[s]]
    OBVIOUS
  <2> HIDE DEF whole
  <2> QED
    BY <1>2, <2>1 DEF ChargeStep
<1> HIDE DEF whole
<1>4. Charge = [s \in Charging |-> IF Charged(s) THEN s.pet ELSE Charge[Advance(s)]]
  BY <1>3 DEF Charge
<1> QED
  BY <1>4

(* What every segment preserves holds at the end.                          *)
LEMMA ChargeInduction ==
  ASSUME NEW R \in SUBSET Charging, \A s \in R : ~Charged(s) => Advance(s) \in R,
         NEW s \in R
  PROVE  \E t \in R : Charged(t) /\ Charge[s] = t.pet
<1> DEFINE Ends(r) == \E t \in R : Charged(t) /\ Charge[r] = t.pet
           bad == {k \in Nat : \E r \in R : r.left = k /\ ~Ends(r)}
<1> SUFFICES ASSUME ~Ends(s) PROVE FALSE
  OBVIOUS
<1>1. s.left \in bad
  BY DEF Charging
<1>2. PICK k \in bad : \A j \in bad : k <= j
  <2>1. bad \in SUBSET Nat
    OBVIOUS
  <2> HIDE DEF bad
  <2> QED
    BY <1>1, <2>1, LeastNatural
<1>3. PICK r \in R : r.left = k /\ ~Ends(r)
  OBVIOUS
<1>4. r \in Charging /\ k \in Nat
  OBVIOUS
<1>5. Charge[r] = IF Charged(r) THEN r.pet ELSE Charge[Advance(r)]
  BY <1>4, ChargeEquation
<1>6. ~Charged(r)
  BY <1>3, <1>5
<1>7. Advance(r) \in R /\ Advance(r).left \in Nat /\ Advance(r).left < k
  <2>1. PICK dt \in Nat \ {0} :
            /\ dt <= r.left
            /\ Advance(r) = [pet |-> Segment(r.pet, dt), left |-> r.left - dt]
                              /\ Advance(r) \in Charging
    BY <1>4, <1>6, AdvanceStep
  <2>2. Advance(r).left = k - dt /\ k - dt \in Nat /\ k - dt < k
    BY <1>3, <1>4, <2>1
  <2> QED
    BY <1>6, <2>2
<1>8. Ends(Advance(r))
  <2>1. Advance(r).left \notin bad
    BY <1>2, <1>4, <1>7
  <2> QED
    BY <1>7, <2>1
<1> QED
  BY <1>3, <1>5, <1>6, <1>8

(* The same of decay.                                                      *)
LEMMA DecayInduction ==
  ASSUME NEW p \in GameState, NEW n \in Nat,
         NEW R \in SUBSET Charging, [pet |-> p, left |-> n] \in R,
         \A s \in R, dt \in Nat \ {0} :
            ~Charged(s) /\ dt <= s.left /\ SegmentOf(s.pet, Segment(s.pet, dt), dt)
            => [pet |-> Segment(s.pet, dt), left |-> s.left - dt] \in R
  PROVE  \E t \in R : Charged(t) /\ Decay(p, n) = t.pet
<1>1. ASSUME NEW s \in R, ~Charged(s) PROVE Advance(s) \in R
  <2>1. s \in Charging
    OBVIOUS
  <2>2. PICK dt \in Nat \ {0} :
           /\ dt <= s.left /\ Advance(s) = [pet |-> Segment(s.pet, dt), left |-> s.left - dt]
           /\ SegmentOf(s.pet, Advance(s).pet, dt)
    BY <1>1, <2>1, AdvanceStep
  <2>3. Advance(s).pet = Segment(s.pet, dt)
    BY <2>2
  <2> QED
    BY <1>1, <2>2, <2>3
<1> DEFINE s0 == [pet |-> p, left |-> n]
<1>2. \E t \in R : Charged(t) /\ Charge[s0] = t.pet
  <2> HIDE DEF s0
  <2>1. s0 \in R
    BY DEF s0
  <2> QED
    BY <1>1, <2>1, ChargeInduction
<1> QED
  BY <1>2 DEF Decay

-----------------------------------------------------------------------------
(* Decay.                                                                  *)

LEMMA Additive ==
  /\ \A a, x, y \in Nat : SatSub(SatSub(a, x), y) = SatSub(a, x + y)
  /\ \A v \in Stat : SatAdd(v, 0) = v /\ SatSub(v, 0) = v
  /\ \A a \in Nat : SatSub(a, 0) = a
  /\ \A r \in Nat : MulDt(r, 0) = 0
<1>1. ASSUME NEW a \in Nat, NEW x \in Nat, NEW y \in Nat
      PROVE  SatSub(SatSub(a, x), y) = SatSub(a, x + y)
  <2>1. SatSub(a, x) = (IF a >= x THEN a - x ELSE 0) /\ SatSub(a, x) \in Nat
    BY SatSubNat
  <2>2. SatSub(SatSub(a, x), y) = IF SatSub(a, x) >= y THEN SatSub(a, x) - y ELSE 0
    BY <2>1, SatSubNat
  <2>3. x + y \in Nat /\ SatSub(a, x + y) = IF a >= x + y THEN a - (x + y) ELSE 0
    <3>1. \A e \in Nat : SatSub(a, e) = IF a >= e THEN a - e ELSE 0
      BY SatSubNat
    <3> QED
      BY <3>1
  <2> QED
    BY <2>1, <2>2, <2>3
<1>3. ASSUME NEW v \in Stat PROVE SatAdd(v, 0) = v /\ SatSub(v, 0) = v
  <2>1. v \in Nat /\ v <= T.STAT_MAX /\ T.STAT_MAX \in Nat
    BY Divisors DEF Stat
  <2> QED
    BY <2>1, Saturating
<1>4. ASSUME NEW a \in Nat PROVE SatSub(a, 0) = a
  BY SatSubNat
<1>5. ASSUME NEW r \in Nat PROVE MulDt(r, 0) = 0
  <2>1. r * 0 = 0 /\ T.STAT_MAX \in Nat \ {0}
    BY Divisors
  <2> QED
    BY <2>1, MinMax DEF MulDt
<1> QED
  BY <1>1, <1>3, <1>4, <1>5

LEMMA SaturatingTwice ==
  ASSUME NEW r \in Nat, NEW x \in Nat, NEW y \in Nat, NEW v \in Stat
  PROVE  /\ SatAdd(SatAdd(v, MulDt(r, x)), MulDt(r, y)) = SatAdd(v, MulDt(r, x + y))
         /\ SatSub(SatSub(v, MulDt(r, x)), MulDt(r, y)) = SatSub(v, MulDt(r, x + y))
<1> DEFINE X == r * x
           Y == r * y
           Z == r * (x + y)
           MX == MulDt(r, x)
           MY == MulDt(r, y)
           MZ == MulDt(r, x + y)
<1>1. X \in Nat /\ Y \in Nat /\ Z = X + Y
  <2>1. r * (x + y) = r * x + r * y
    OBVIOUS
  <2> QED
    BY <2>1, Products
<1>2. T.STAT_MAX \in Nat /\ v \in Nat /\ v <= T.STAT_MAX
  BY Divisors DEF Stat
<1>3. MX = Min({X, T.STAT_MAX}) /\ MY = Min({Y, T.STAT_MAX}) /\ MZ = Min({Z, T.STAT_MAX})
  BY DEF MulDt
<1> HIDE DEF X, Y, Z, MX, MY, MZ
<1>4. /\ MX = IF X <= T.STAT_MAX THEN X ELSE T.STAT_MAX
      /\ MY = IF Y <= T.STAT_MAX THEN Y ELSE T.STAT_MAX
      /\ MZ = IF Z <= T.STAT_MAX THEN Z ELSE T.STAT_MAX
  BY <1>1, <1>2, <1>3, MinMax
<1>5. MX \in Nat /\ MY \in Nat /\ MZ \in Nat
  BY <1>1, <1>2, <1>4
<1>6. SatAdd(SatAdd(v, MX), MY) = SatAdd(v, MZ)
  <2>1. SatAdd(v, MX) \in Stat /\ SatAdd(v, MX) = IF v + MX <= T.STAT_MAX THEN v + MX
              ELSE T.STAT_MAX
    BY <1>5, Saturating
  <2>2. SatAdd(SatAdd(v, MX), MY) = IF SatAdd(v, MX) + MY <= T.STAT_MAX THEN SatAdd(v, MX) + MY
              ELSE T.STAT_MAX
    BY <1>5, <2>1, Saturating
  <2>3. SatAdd(v, MZ) = IF v + MZ <= T.STAT_MAX THEN v + MZ ELSE T.STAT_MAX
    BY <1>5, Saturating
  <2> QED
    BY <1>1, <1>2, <1>4, <1>5, <2>1, <2>2, <2>3
<1>7. SatSub(SatSub(v, MX), MY) = SatSub(v, MZ)
  <2>1. SatSub(v, MX) \in Stat /\ SatSub(v, MX) = IF v >= MX THEN v - MX ELSE 0
    BY <1>5, Saturating
  <2>2. SatSub(SatSub(v, MX), MY) = IF SatSub(v, MX) >= MY THEN SatSub(v, MX) - MY ELSE 0
    BY <1>5, <2>1, Saturating
  <2>3. SatSub(v, MZ) = IF v >= MZ THEN v - MZ ELSE 0
    BY <1>5, Saturating
  <2> QED
    BY <1>1, <1>2, <1>4, <1>5, <2>1, <2>2, <2>3
<1> QED
  BY <1>6, <1>7 DEF MX, MY, MZ

LEMMA AddTwice ==
  \A r, x, y \in Nat, v \in Stat :
     SatAdd(SatAdd(v, MulDt(r, x)), MulDt(r, y)) = SatAdd(v, MulDt(r, x + y))
<1> TAKE r, x, y \in Nat, v \in Stat
<1> QED
  BY SaturatingTwice, Zenon

LEMMA SubTwice ==
  \A r, x, y \in Nat, v \in Stat :
     SatSub(SatSub(v, MulDt(r, x)), MulDt(r, y)) = SatSub(v, MulDt(r, x + y))
<1> TAKE r, x, y \in Nat, v \in Stat
<1> QED
  BY SaturatingTwice, Zenon

LEMMA CountedAgrees ==
  ASSUME NEW p \in GameState, NEW q \in GameState, NEW dt \in Nat \ {0},
         Alive(p), Counted(p, q, CountMaxed(q), dt)
  PROVE  CountdownAgrees(q) /\ q.phase # "Hatching"
<1> DEFINE maxed == CountMaxed(q)
<1>1. maxed \in 0 .. 3 /\ p.leaving_countdown \in Nat
  BY Maxed, Fields
<1>2. maxed # 0 => /\ T.LEAVING_THRESHOLDS[maxed] \in Nat
                   /\ T.LEAVING_THRESHOLDS[maxed] <= T.LEAVING_THRESHOLDS[1]
                   /\ T.LEAVING_THRESHOLDS[1] \in Nat
  BY <1>1, Constants
<1>3. /\ q.leaving_countdown = IF maxed = 0 THEN 0 ELSE p.leaving_countdown + dt
      /\ q.phase = IF maxed = 0 THEN (IF p.phase = "Leaving" THEN "Active" ELSE p.phase)
                   ELSE IF q.leaving_countdown >= T.LEAVING_THRESHOLDS[maxed] THEN "Gone"
                               ELSE "Leaving"
  BY DEF Counted
<1>4. p.phase \in {"Active", "Leaving"}
  BY DEF Alive
<1> SUFFICES /\ q.phase # "Hatching"
             /\ q.phase = "Active" => q.leaving_countdown = 0
             /\ q.phase = "Leaving" => q.leaving_countdown \in 1 .. T.LEAVING_THRESHOLDS[1] - 1
             /\ q.phase = "Gone" => maxed > 0 /\ q.leaving_countdown >= T.LEAVING_THRESHOLDS[maxed]
  BY DEF CountdownAgrees
<1> HIDE DEF maxed
<1>5. CASE maxed = 0
  BY <1>3, <1>4, <1>5
<1>6. CASE maxed # 0
  BY <1>1, <1>2, <1>3, <1>6
<1> QED
  BY <1>5, <1>6

(* What decaying for m ticks leaves of the pet.                            *)
Worn(p, q, m) ==
  /\ q \in GameState /\ Kept(p, q) /\ (q.is_sleeping => p.is_sleeping)
  /\ q.phase # "Hatching" /\ CountdownAgrees(q)
  /\ \A c \in Timers : q.cooldown[c] = SatSub(p.cooldown[c], m)
  /\ q.weight = SatAdd(p.weight, MulDt(T.WEIGHT_RATE, m))
  /\ q.drunk = SatSub(p.drunk, MulDt(T.DRUNK_SOBER_RATE, m))

LEMMA WornOn ==
  ASSUME NEW p \in GameState, NEW q \in GameState, NEW r, NEW m \in Nat, NEW dt \in Nat \ {0},
         Worn(p, q, m), q.phase # "Gone", SegmentOf(q, r, dt)
  PROVE  Worn(p, r, m + dt)
<1>1. r \in GameState /\ Kept(p, r) /\ (r.is_sleeping => p.is_sleeping)
  BY DEF Worn, SegmentOf, Kept
<1>2. Alive(q)
  <2>1. q.phase \in Phases
    BY Fields
  <2> QED
    BY <2>1 DEF Phases, Worn, Alive
<1>3. CountdownAgrees(r) /\ r.phase # "Hatching"
  BY <1>1, <1>2, CountedAgrees DEF SegmentOf
<1>4. ASSUME NEW c \in Timers PROVE r.cooldown[c] = SatSub(p.cooldown[c], m + dt)
  <2>1. p.cooldown[c] \in Nat
    BY Fields
  <2>2. r.cooldown[c] = SatSub(SatSub(p.cooldown[c], m), dt)
    BY DEF Worn, SegmentOf
  <2> QED
    BY <2>1, <2>2, Additive
<1>5. p.weight \in Stat /\ p.drunk \in Stat /\ T.WEIGHT_RATE \in Nat /\ T.DRUNK_SOBER_RATE \in Nat
  BY Fields, Rates
<1>6. r.weight = SatAdd(p.weight, MulDt(T.WEIGHT_RATE, m + dt))
  <2>1. r.weight = SatAdd(SatAdd(p.weight, MulDt(T.WEIGHT_RATE, m)), MulDt(T.WEIGHT_RATE, dt))
    BY DEF Worn, SegmentOf
  <2>2. T.WEIGHT_RATE \in Nat /\ m \in Nat /\ dt \in Nat /\ p.weight \in Stat
    BY <1>5
  <2>3. SatAdd(SatAdd(p.weight, MulDt(T.WEIGHT_RATE, m)), MulDt(T.WEIGHT_RATE, dt))
           = SatAdd(p.weight, MulDt(T.WEIGHT_RATE, m + dt))
    BY <2>2, AddTwice, ZenonT(30)
  <2> QED
    BY <2>1, <2>3, Zenon
<1>7. r.drunk = SatSub(p.drunk, MulDt(T.DRUNK_SOBER_RATE, m + dt))
  <2>1. r.drunk = SatSub(SatSub(p.drunk, MulDt(T.DRUNK_SOBER_RATE, m)),
                         MulDt(T.DRUNK_SOBER_RATE, dt))
    BY DEF Worn, SegmentOf
  <2>2. T.DRUNK_SOBER_RATE \in Nat /\ m \in Nat /\ dt \in Nat /\ p.drunk \in Stat
    BY <1>5
  <2>3. SatSub(SatSub(p.drunk, MulDt(T.DRUNK_SOBER_RATE, m)), MulDt(T.DRUNK_SOBER_RATE, dt))
           = SatSub(p.drunk, MulDt(T.DRUNK_SOBER_RATE, m + dt))
    BY <2>2, SubTwice, ZenonT(30)
  <2> QED
    BY <2>1, <2>3, Zenon
<1> QED
  BY <1>1, <1>3, <1>4, <1>6, <1>7 DEF Worn

LEMMA WornNot ==
  ASSUME NEW p \in GameState, CountdownAgrees(p), p.phase # "Hatching"
  PROVE  Worn(p, p, 0)
<1>1. /\ \A c \in Timers : p.cooldown[c] \in Nat
      /\ p.weight \in Stat /\ p.drunk \in Stat /\ T.WEIGHT_RATE \in Nat
      /\ T.DRUNK_SOBER_RATE \in Nat
  BY Fields, Rates
<1>2. Kept(p, p)
  BY DEF Kept
<1> QED
  BY <1>1, <1>2, Additive DEF Worn

LEMMA DecayWears ==
  ASSUME NEW p \in GameState, NEW n \in Nat, CountdownAgrees(p), p.phase # "Hatching"
  PROVE  \E m \in 0 .. n : /\ Worn(p, Decay(p, n), m)
                           /\ Decay(p, n).phase = "Gone" \/ m = n
<1> DEFINE R == {s \in Charging : s.left <= n /\ Worn(p, s.pet, n - s.left)}
           s0 == [pet |-> p, left |-> n]
<1>1. s0 \in R
  <2>1. s0 \in Charging /\ s0.left = n /\ s0.pet = p
    BY DEF Charging
  <2>2. n - s0.left = 0
    BY <2>1
  <2> HIDE DEF s0
  <2> QED
    BY <2>1, <2>2, WornNot
<1>2. ASSUME NEW s \in R, NEW dt \in Nat \ {0},
             ~Charged(s), dt <= s.left, SegmentOf(s.pet, Segment(s.pet, dt), dt)
      PROVE  [pet |-> Segment(s.pet, dt), left |-> s.left - dt] \in R
  <2> DEFINE q == Segment(s.pet, dt)
             t == [pet |-> q, left |-> s.left - dt]
  <2>1. /\ s.pet \in GameState /\ s.left \in Nat /\ s.left <= n /\ Worn(p, s.pet, n - s.left)
        /\ s.pet.phase # "Gone"
    BY <1>2 DEF Charging, Charged
  <2> DEFINE m == n - s.left
  <2>2. m \in Nat /\ m + dt = n - (s.left - dt) /\ s.left - dt \in Nat /\ s.left - dt <= n
    BY <1>2, <2>1
  <2> HIDE DEF m
  <2>3. Worn(p, q, m + dt)
    <3> HIDE DEF q
    <3>1. SegmentOf(s.pet, q, dt)
      BY <1>2 DEF q
    <3>2. Worn(p, s.pet, m)
      BY <2>1 DEF m
    <3> QED
      BY <2>1, <2>2, <3>1, <3>2, WornOn
  <2>4. q \in GameState
    BY <1>2 DEF SegmentOf
  <2> HIDE DEF q
  <2>5. t \in Charging /\ t.left = s.left - dt /\ t.pet = q
    BY <2>2, <2>4 DEF Charging
  <2> HIDE DEF t
  <2>6. t \in R
    BY <2>2, <2>3, <2>5
  <2> QED
    BY <2>6 DEF t, q
<1>3. \E t \in R : Charged(t) /\ Decay(p, n) = t.pet
  <2>1. R \in SUBSET Charging
    OBVIOUS
  <2> HIDE DEF R
  <2> QED
    BY <1>1, <1>2, <2>1, DecayInduction
<1>4. PICK t \in R : Charged(t) /\ Decay(p, n) = t.pet
  BY <1>3
<1>5. t.left \in Nat /\ t.left <= n /\ Worn(p, t.pet, n - t.left)
  BY DEF Charging
<1>6. n - t.left \in 0 .. n /\ (t.left = 0 => n - t.left = n)
  BY <1>5
<1> QED
  BY <1>4, <1>5, <1>6 DEF Charged

-----------------------------------------------------------------------------
(* The action in progress.                                                 *)

FoodOf(p) == Foods[IF p.active_food = None THEN "apple" ELSE p.active_food]
DrinkOf(p) == Drinks[IF p.active_drink = None THEN "beer" ELSE p.active_drink]
WeightAfter(p, n) ==
  CASE p.active_action = "feed" -> SatAdd(p.weight, MulDt(FoodOf(p).gain, n))
    [] p.active_action = "exercise" -> SatSub(p.weight, MulDt(T.EXERCISE_WEIGHT_RELIEF, n))
    [] p.active_action = "ozempic" -> SatSub(p.weight, MulDt(T.OZEMPIC_WEIGHT_RELIEF, n))
    [] p.active_action = "drink" -> SatAdd(p.weight, MulDt(DrinkOf(p).gain, n))
    [] OTHER -> p.weight
DrunkAfter(p, n) ==
  IF p.active_action = "drink" THEN SatAdd(p.drunk, MulDt(DrinkOf(p).drunk, n)) ELSE p.drunk

(* An action moves stats only.                                             *)
ActedOn(p, q, n) ==
  /\ q \in GameState /\ Kept(p, q) /\ SamePhase(p, q)
  /\ q.cooldown = p.cooldown /\ q.is_sleeping = p.is_sleeping
  /\ q.weight = WeightAfter(p, n) /\ q.drunk = DrunkAfter(p, n)

LEMMA TablesType ==
  ASSUME NEW p \in GameState
  PROVE  /\ FoodOf(p).relief \in Nat /\ FoodOf(p).gain \in Nat
         /\ DrinkOf(p).drunk \in Nat /\ DrinkOf(p).gain \in Nat
<1>1. /\ (IF p.active_food = None THEN "apple" ELSE p.active_food) \in DOMAIN Foods
      /\ (IF p.active_drink = None THEN "beer" ELSE p.active_drink) \in DOMAIN Drinks
  BY Fields, InputsSound
<1>2. /\ FoodOf(p) \in [relief : Nat, gain : Nat, price : [BOOLEAN -> Nat]]
      /\ DrinkOf(p) \in [drunk : Nat, gain : Nat, price : Nat]
  BY <1>1, InputsSound DEF FoodOf, DrinkOf
<1> QED
  BY <1>2

LEMMA EffectStep ==
  ASSUME NEW p \in GameState, NEW n \in Nat
  PROVE  ActedOn(p, ActionEffect(p, n), n)
<1> DEFINE scaled(base) == (base * (10 - (p.curiosity * 10) \div T.STAT_MAX)) \div 10
           food == FoodOf(p)
           drink == DrinkOf(p)
           add(stat, amount) == SatAdd(p[stat], amount)
           sub(stat, rate) == SatSub(p[stat], MulDt(rate, n))
           a == p.active_action
           q == ActionEffect(p, n)
<1> SUFFICES ActedOn(p, q, n)
  OBVIOUS
<1>1. /\ p.hunger \in Stat /\ p.tired \in Stat /\ p.sick \in Stat
      /\ p.weight \in Stat /\ p.drunk \in Stat /\ p.curiosity \in Stat
  BY Fields
<1>2. \A v \in Stat, d \in Nat : SatAdd(v, d) \in Stat /\ SatSub(v, d) \in Stat
  BY Saturating
<1>3. \A r \in Nat : MulDt(r, n) \in Nat
  BY MulDtType
<1>4. \A base \in Nat : scaled(base) \in Nat
  <2>1. T.STAT_MAX \in Nat \ {0} /\ p.curiosity \in Nat /\ p.curiosity <= T.STAT_MAX
    BY <1>1, Divisors DEF Stat
  <2> DEFINE c == (p.curiosity * 10) \div T.STAT_MAX
  <2>2. c \in Nat /\ c <= 10
    <3>1. p.curiosity * 10 \in Nat
      BY <2>1
    <3> QED
      BY <2>1, <3>1, Products
  <2> HIDE DEF c
  <2>3. ASSUME NEW base \in Nat PROVE (base * (10 - c)) \div 10 \in Nat
    <3>1. base * (10 - c) \in Nat
      BY <2>2, Products
    <3> HIDE DEF c
    <3> QED
      BY <3>1, Products
  <2> QED
    BY <2>3 DEF c
<1> HIDE DEF scaled
<1>5. CASE a = "feed"
  <2> DEFINE x == sub("hunger", food.relief)
             y == add("weight", MulDt(food.gain, n))
  <2>1. q = [p EXCEPT !.hunger = x, !.weight = y]
    BY <1>5 DEF ActionEffect, FoodOf
  <2>2. x \in Stat /\ y \in Stat
    BY <1>1, <1>2, <1>3, TablesType
  <2>3. WeightAfter(p, n) = y /\ DrunkAfter(p, n) = p.drunk
    BY <1>5 DEF WeightAfter, DrunkAfter
  <2> HIDE DEF x, y, q
  <2> QED
    BY <2>1, <2>2, <2>3 DEF ActedOn, GameState, Kept, SamePhase
<1>6. CASE a = "heal"
  <2> DEFINE x == sub("sick", T.HEAL_SICK_RELIEF)
  <2>1. q = [p EXCEPT !.sick = x]
    BY <1>6 DEF ActionEffect
  <2>2. x \in Stat
    BY <1>1, <1>2, <1>3, Rates
  <2>3. WeightAfter(p, n) = p.weight /\ DrunkAfter(p, n) = p.drunk
    BY <1>6 DEF WeightAfter, DrunkAfter
  <2> HIDE DEF x, q
  <2> QED
    BY <2>1, <2>2, <2>3 DEF ActedOn, GameState, Kept, SamePhase
<1>7. CASE a = "play"
  <2> DEFINE x == add("hunger", MulDt(scaled(T.PLAY_HUNGER_COST), n))
             y == add("tired", MulDt(scaled(T.PLAY_TIRED_COST), n))
  <2>1. q = [p EXCEPT !.hunger = x, !.tired = y]
    BY <1>7 DEF ActionEffect, scaled
  <2>2. x \in Stat /\ y \in Stat
    BY <1>1, <1>2, <1>3, <1>4, Rates
  <2>3. WeightAfter(p, n) = p.weight /\ DrunkAfter(p, n) = p.drunk
    BY <1>7 DEF WeightAfter, DrunkAfter
  <2> HIDE DEF x, y, q
  <2> QED
    BY <2>1, <2>2, <2>3 DEF ActedOn, GameState, Kept, SamePhase
<1>8. CASE a = "exercise"
  <2> DEFINE x == sub("weight", T.EXERCISE_WEIGHT_RELIEF)
             y == add("tired", MulDt(T.EXERCISE_TIRED_COST, n))
             z == add("hunger", MulDt(T.EXERCISE_HUNGER_COST, n))
  <2>1. q = [p EXCEPT !.weight = x, !.tired = y, !.hunger = z]
    BY <1>8 DEF ActionEffect
  <2>2. x \in Stat /\ y \in Stat /\ z \in Stat
    BY <1>1, <1>2, <1>3, Rates
  <2>3. WeightAfter(p, n) = x /\ DrunkAfter(p, n) = p.drunk
    BY <1>8 DEF WeightAfter, DrunkAfter
  <2> HIDE DEF x, y, z, q
  <2> QED
    BY <2>1, <2>2, <2>3 DEF ActedOn, GameState, Kept, SamePhase
<1>9. CASE a = "ozempic"
  <2> DEFINE x == sub("weight", T.OZEMPIC_WEIGHT_RELIEF)
             y == sub("hunger", T.OZEMPIC_HUNGER_RELIEF)
  <2>1. q = [p EXCEPT !.weight = x, !.hunger = y]
    BY <1>9 DEF ActionEffect
  <2>2. x \in Stat /\ y \in Stat
    BY <1>1, <1>2, <1>3, Rates
  <2>3. WeightAfter(p, n) = x /\ DrunkAfter(p, n) = p.drunk
    BY <1>9 DEF WeightAfter, DrunkAfter
  <2> HIDE DEF x, y, q
  <2> QED
    BY <2>1, <2>2, <2>3 DEF ActedOn, GameState, Kept, SamePhase
<1>10. CASE a = "drink"
  <2> DEFINE x == add("drunk", MulDt(drink.drunk, n))
             y == add("weight", MulDt(drink.gain, n))
  <2>1. q = [p EXCEPT !.drunk = x, !.weight = y]
    BY <1>10 DEF ActionEffect, DrinkOf
  <2>2. x \in Stat /\ y \in Stat
    BY <1>1, <1>2, <1>3, TablesType
  <2>3. WeightAfter(p, n) = y /\ DrunkAfter(p, n) = x
    BY <1>10 DEF WeightAfter, DrunkAfter
  <2> HIDE DEF x, y, q
  <2> QED
    BY <2>1, <2>2, <2>3 DEF ActedOn, GameState, Kept, SamePhase
<1>11. CASE a \notin {"feed", "heal", "play", "exercise", "ozempic", "drink"}
  <2>1. q = p /\ WeightAfter(p, n) = p.weight /\ DrunkAfter(p, n) = p.drunk
    BY <1>11 DEF ActionEffect, WeightAfter, DrunkAfter
  <2> QED
    BY <2>1 DEF ActedOn, Kept, SamePhase
<1> QED
  BY <1>5, <1>6, <1>7, <1>8, <1>9, <1>10, <1>11

(* The end of an action: its cooldown starts, Only pets pays.              *)
MoneyAfter(p) ==
  IF p.active_action # "onlypets" \/ ~p.money_enabled THEN p.money
  ELSE IF p.money < BROKE_THRESHOLD THEN p.money + ONLYPETS_BROKE_REWARD
  ELSE p.money + ONLYPETS_HOBBY_REWARD
CooldownAfter(p) ==
  T.COOLDOWN[IF p.active_action = "onlypets" THEN "play" ELSE p.active_action]
Untouched(p, q) ==
  /\ q.last_update_tick = p.last_update_tick /\ q.age_ticks = p.age_ticks
  /\ q.hatching_countdown = p.hatching_countdown /\ q.generation = p.generation
  /\ q.money_enabled = p.money_enabled /\ q.hard_mode = p.hard_mode
  /\ q.hibernating = p.hibernating /\ q.hibernate_ticks = p.hibernate_ticks
  /\ q.is_sleeping = p.is_sleeping /\ SamePhase(p, q)
  /\ q.active_drink = p.active_drink
Completed(p, q) ==
  /\ q \in GameState /\ Untouched(p, q) /\ SameBody(p, q)
  /\ q.active_action = None /\ q.active_food = None
  /\ q.action_ticks_remaining = p.action_ticks_remaining
  /\ q.cooldown = [p.cooldown EXCEPT ![p.active_action] = CooldownAfter(p)]
  /\ q.money = MoneyAfter(p)

LEMMA CompleteStep ==
  ASSUME NEW p \in GameState, p.active_action # None
  PROVE  Completed(p, CompleteAction(p))
<1> DEFINE a == p.active_action
           cd == [p.cooldown EXCEPT ![a] = CooldownAfter(p)]
           done == [p EXCEPT !.active_action = None, !.active_food = None, !.cooldown = cd]
           q == CompleteAction(p)
           bored == SatSub(p.miserable, T.HAPPINESS_STEP)
           sad == SatAdd(p.miserable, T.HAPPINESS_STEP)
           broke == p.money + ONLYPETS_BROKE_REWARD
           paid == p.money + ONLYPETS_HOBBY_REWARD
<1> SUFFICES Completed(p, q)
  OBVIOUS
<1>1. a \in Actions /\ CooldownAfter(p) \in Nat
  BY Fields, Constants DEF CooldownAfter, Actions
<1>2. cd \in [Timers -> Nat]
  BY <1>1, Fields DEF Timers
<1>3. bored \in Stat /\ sad \in Stat /\ broke \in Nat /\ paid \in Nat /\ p.money \in Nat
  <2>1. p.miserable \in Stat /\ p.money \in Nat /\ T.HAPPINESS_STEP \in Nat
    BY Fields, Rates
  <2>2. bored \in Stat /\ sad \in Stat
    BY <2>1, Saturating
  <2> QED
    BY <2>1, <2>2 DEF ONLYPETS_BROKE_REWARD, ONLYPETS_HOBBY_REWARD
<1>4. done = [p EXCEPT !.active_action = None, !.active_food = None,
                       !.cooldown[a] = T.COOLDOWN[IF a = "onlypets" THEN "play" ELSE a]]
  BY DEF CooldownAfter
<1>5. /\ done.miserable = p.miserable /\ done.money = p.money
      /\ done \in GameState /\ Untouched(p, done) /\ SameBody(p, done)
      /\ done.active_action = None /\ done.active_food = None
      /\ done.action_ticks_remaining = p.action_ticks_remaining
      /\ done.cooldown = cd
  <2> HIDE DEF cd, a
  <2> QED
    BY <1>2 DEF GameState, Untouched, SameBody, SamePhase
<1>6. q = CASE a = "play" -> [done EXCEPT !.miserable = bored]
            [] a = "onlypets" /\ p.money_enabled /\ p.money < BROKE_THRESHOLD ->
                 [done EXCEPT !.money = broke, !.miserable = sad]
            [] a = "onlypets" /\ p.money_enabled /\ p.money >= BROKE_THRESHOLD ->
                 [done EXCEPT !.money = paid, !.miserable = bored]
            [] OTHER -> done
  <2>1. /\ SatSub(done.miserable, T.HAPPINESS_STEP) = bored
        /\ SatAdd(done.miserable, T.HAPPINESS_STEP) = sad
        /\ done.money + ONLYPETS_BROKE_REWARD = broke
        /\ done.money + ONLYPETS_HOBBY_REWARD = paid
    BY <1>5
  <2> HIDE DEF done, bored, sad, broke, paid
  <2> QED
    BY <1>4, <2>1 DEF CompleteAction
<1> HIDE DEF done, bored, sad, broke, paid, q, cd
<1>7. CASE a = "play"
  <2>1. q = [done EXCEPT !.miserable = bored] /\ MoneyAfter(p) = p.money
    BY <1>6, <1>7 DEF MoneyAfter
  <2> QED
    BY <1>3, <1>5, <2>1 DEF Completed, GameState, Untouched, SameBody, SamePhase, cd
<1>8. CASE a = "onlypets" /\ p.money_enabled /\ p.money < BROKE_THRESHOLD
  <2>1. ~(p.money >= BROKE_THRESHOLD) /\ a # "play"
    BY <1>3, <1>8 DEF BROKE_THRESHOLD
  <2>2. q = [done EXCEPT !.money = broke, !.miserable = sad]
    BY <1>6, <1>8, <2>1
  <2>3. MoneyAfter(p) = broke
    BY <1>8 DEF MoneyAfter, broke
  <2>4. q \in GameState /\ q.money = broke
    BY <1>3, <1>5, <2>2 DEF GameState
  <2>5. Untouched(done, q) /\ SameBody(done, q) /\ q.active_action = done.active_action
        /\ q.active_food = done.active_food /\ q.cooldown = done.cooldown
        /\ q.action_ticks_remaining = done.action_ticks_remaining
    BY <1>5, <2>2 DEF GameState, Untouched, SameBody, SamePhase
  <2> QED
    BY <1>5, <2>3, <2>4, <2>5 DEF Completed, Untouched, SameBody, SamePhase, cd
<1>9. CASE a = "onlypets" /\ p.money_enabled /\ ~(p.money < BROKE_THRESHOLD)
  <2>1. p.money >= BROKE_THRESHOLD
    BY <1>3, <1>9 DEF BROKE_THRESHOLD
  <2>2. q = [done EXCEPT !.money = paid, !.miserable = bored] /\ MoneyAfter(p) = paid
    BY <1>6, <1>9, <2>1 DEF MoneyAfter, paid
  <2>4. q \in GameState /\ q.money = paid
    BY <1>3, <1>5, <2>2 DEF GameState
  <2>5. Untouched(done, q) /\ SameBody(done, q) /\ q.active_action = done.active_action
        /\ q.active_food = done.active_food /\ q.cooldown = done.cooldown
        /\ q.action_ticks_remaining = done.action_ticks_remaining
    BY <1>5, <2>2 DEF GameState, Untouched, SameBody, SamePhase
  <2> QED
    BY <1>5, <2>2, <2>4, <2>5 DEF Completed, Untouched, SameBody, SamePhase, cd
<1>10. CASE a # "play" /\ ~(a = "onlypets" /\ p.money_enabled)
  <2>1. q = done /\ MoneyAfter(p) = p.money
    BY <1>6, <1>10 DEF MoneyAfter
  <2> QED
    BY <1>5, <2>1 DEF Completed, cd
<1> QED
  BY <1>7, <1>8, <1>9, <1>10 DEF q

(* n ticks of the action in progress, if any: it is over when they are all *)
(* it had left.                                                            *)
Over(p, n) == p.active_action # None /\ p.action_ticks_remaining <= n
CooldownsAfter(p, n) ==
  IF Over(p, n) THEN [p.cooldown EXCEPT ![p.active_action] = CooldownAfter(p)] ELSE p.cooldown
Progressed(p, q, n) ==
  /\ q.cooldown = CooldownsAfter(p, n)
  /\ IF Over(p, n)
     THEN /\ q.active_action = None /\ q.active_food = None
          /\ q.action_ticks_remaining = 0 /\ q.money = MoneyAfter(p)
     ELSE /\ q.active_action = p.active_action /\ q.active_food = p.active_food
          /\ q.action_ticks_remaining = p.action_ticks_remaining - ActionTicks(p, n)
          /\ q.money = p.money

LEMMA ActionTicksValue ==
  ASSUME NEW p \in GameState, NEW n \in Nat
  PROVE  /\ ActionTicks(p, n) \in Nat /\ ActionTicks(p, n) <= n
         /\ p.active_action = None => ActionTicks(p, n) = 0
         /\ p.active_action # None =>
              ActionTicks(p, n) = IF Over(p, n) THEN p.action_ticks_remaining ELSE n
<1>1. p.action_ticks_remaining \in Nat
  BY Fields
<1>2. \A a, b \in Int : Min({a, b}) = IF a <= b THEN a ELSE b
  BY MinMax
<1> QED
  BY <1>1, <1>2 DEF ActionTicks, Over

LEMMA ConsumeStep ==
  ASSUME NEW p \in GameState, NEW n \in Nat, ActionSound(p)
  PROVE  LET b == ActionTicks(p, n)
             q == ConsumeActionTicks(p, b)
         IN  /\ q \in GameState /\ Untouched(p, q) /\ Progressed(p, q, n)
             /\ q.weight = WeightAfter(p, b) /\ q.drunk = DrunkAfter(p, b)
<1> DEFINE b == ActionTicks(p, n)
           q == ConsumeActionTicks(p, b)
           e == ActionEffect(p, b)
           left == p.action_ticks_remaining - b
           r == [e EXCEPT !.action_ticks_remaining = left]
<1> SUFFICES /\ q \in GameState /\ Untouched(p, q) /\ Progressed(p, q, n)
             /\ q.weight = WeightAfter(p, b) /\ q.drunk = DrunkAfter(p, b)
  OBVIOUS
<1>1. CASE p.active_action = None
  <2>1. q = p /\ b = 0 /\ ~Over(p, n)
    BY <1>1, ActionTicksValue DEF ConsumeActionTicks, Over
  <2>2. p.action_ticks_remaining - 0 = p.action_ticks_remaining
    BY Fields
  <2>3. WeightAfter(p, b) = p.weight /\ DrunkAfter(p, b) = p.drunk
    BY <1>1 DEF WeightAfter, DrunkAfter, None
  <2> HIDE DEF q
  <2> QED
    BY <2>1, <2>2, <2>3 DEF Untouched, SamePhase, Progressed, CooldownsAfter
<1>2. CASE p.active_action # None
  <2>1. b \in Nat /\ p.action_ticks_remaining \in Nat
        /\ b = IF Over(p, n) THEN p.action_ticks_remaining ELSE n
    BY <1>2, ActionTicksValue, Fields
  <2>2. left \in Nat /\ (left = 0 <=> Over(p, n))
    BY <1>2, <2>1 DEF Over
  <2>3. ActedOn(p, e, b)
    BY <2>1, EffectStep
  <2>4. e.action_ticks_remaining = p.action_ticks_remaining
    BY <2>3 DEF ActedOn, Kept
  <2>5. q = IF r.action_ticks_remaining = 0 THEN CompleteAction(r) ELSE r
    BY <1>2, <2>4 DEF ConsumeActionTicks
  <2> HIDE DEF e, left
  <2>6. /\ r \in GameState /\ Untouched(p, r) /\ r.action_ticks_remaining = left
        /\ r.cooldown = p.cooldown /\ r.weight = WeightAfter(p, b) /\ r.drunk = DrunkAfter(p, b)
        /\ r.active_action = p.active_action /\ r.active_food = p.active_food
        /\ r.money = p.money
    BY <2>2, <2>3 DEF ActedOn, GameState, Kept, Untouched, SamePhase
  <2> HIDE DEF r, q
  <2>7. CASE Over(p, n)
    <3>1. q = CompleteAction(r) /\ Completed(r, q)
      BY <1>2, <2>2, <2>5, <2>6, <2>7, CompleteStep
    <3>2. MoneyAfter(r) = MoneyAfter(p) /\ CooldownAfter(r) = CooldownAfter(p)
      BY <2>6 DEF MoneyAfter, CooldownAfter, Untouched
    <3>3. q.cooldown = CooldownsAfter(p, n) /\ q.money = MoneyAfter(p)
      BY <2>6, <2>7, <3>1, <3>2 DEF Completed, CooldownsAfter
    <3>4. q.action_ticks_remaining = 0
      BY <2>2, <2>6, <2>7, <3>1 DEF Completed
    <3> QED
      BY <2>6, <2>7, <3>1, <3>3, <3>4 DEF Completed, Untouched, SamePhase, SameBody, Progressed
  <2>8. CASE ~Over(p, n)
    <3>1. q = r
      BY <2>2, <2>5, <2>6, <2>8
    <3> QED
      BY <2>6, <2>8, <3>1 DEF Progressed, CooldownsAfter, left
  <2> QED
    BY <2>7, <2>8
<1> QED
  BY <1>1, <1>2

-----------------------------------------------------------------------------
(* Update.                                                                 *)

(* A grown pet, awake to the world, brought up to date after n ticks: the  *)
(* action takes its ticks, the rest wears the pet, all of it unless it     *)
(* leaves on the way.                                                      *)
Brought(p, q, n, m) ==
  /\ q \in GameState /\ CountdownAgrees(q) /\ q.phase # "Hatching"
  /\ q.last_update_tick = p.last_update_tick + n /\ q.age_ticks = p.age_ticks + n
  /\ q.generation = p.generation /\ q.hatching_countdown = p.hatching_countdown
  /\ q.money_enabled = p.money_enabled /\ q.hard_mode = p.hard_mode
  /\ q.hibernating = p.hibernating /\ q.hibernate_ticks = p.hibernate_ticks
  /\ q.active_drink = p.active_drink /\ (q.is_sleeping => p.is_sleeping)
  /\ m \in 0 .. n - ActionTicks(p, n)
  /\ q.phase = "Gone" \/ m = n - ActionTicks(p, n)
  /\ IF Over(p, n)
     THEN /\ q.active_action = None /\ q.active_food = None
          /\ q.action_ticks_remaining = 0 /\ q.money = MoneyAfter(p)
     ELSE /\ q.active_action = p.active_action /\ q.active_food = p.active_food
          /\ q.action_ticks_remaining = p.action_ticks_remaining - ActionTicks(p, n)
          /\ q.money = p.money
  /\ \A c \in Timers : q.cooldown[c] = SatSub(CooldownsAfter(p, n)[c], m)
  /\ q.weight = SatAdd(WeightAfter(p, ActionTicks(p, n)), MulDt(T.WEIGHT_RATE, m))
  /\ q.drunk = SatSub(DrunkAfter(p, ActionTicks(p, n)), MulDt(T.DRUNK_SOBER_RATE, m))

LEMMA UpdateSpan ==
  ASSUME NEW p \in GameState, NEW tick \in Int
  PROVE  Max({tick - p.last_update_tick, 0})
           = IF tick >= p.last_update_tick THEN tick - p.last_update_tick ELSE 0
<1>1. p.last_update_tick \in Nat /\ tick - p.last_update_tick \in Int
  BY Fields
<1>2. \A a \in Int : Max({a, 0}) = IF a >= 0 THEN a ELSE 0
  BY MinMax
<1> QED
  BY <1>1, <1>2

LEMMA UpdateAlive ==
  ASSUME NEW p \in GameState, NEW tick \in Nat, tick > p.last_update_tick,
         Alive(p), ~p.hibernating, ActionSound(p), CountdownAgrees(p)
  PROVE  \E m \in Nat : Brought(p, Update(p, tick), tick - p.last_update_tick, m)
<1> DEFINE n == tick - p.last_update_tick
           age == p.age_ticks + n
           aged == [p EXCEPT !.last_update_tick = tick, !.age_ticks = age]
           b == ActionTicks(aged, n)
           r == ConsumeActionTicks(aged, b)
           s == ApplyMiserableFloor(r)
           q == Decay(s, n - b)
<1>1. n \in Nat \ {0} /\ p.last_update_tick \in Nat /\ age \in Nat
      /\ tick = p.last_update_tick + n
  BY Fields
<1>2. Max({tick - p.last_update_tick, 0}) = n
  BY <1>1, UpdateSpan
<1>3. Update(p, tick) = q
  <2>1. Update(p, tick) =
          CASE p.phase = "Gone" -> [p EXCEPT !.last_update_tick = tick]
            [] p.phase = "Hatching" -> Hatch(aged, n)
            [] OTHER -> q
    <3>1. [[p EXCEPT !.last_update_tick = tick] EXCEPT !.age_ticks = @ + n] = aged
      BY DEF GameState
    <3> HIDE DEF aged
    <3> QED
      BY <1>1, <1>2, <3>1 DEF Update
  <2>2. p.phase # "Gone" /\ p.phase # "Hatching"
    BY DEF Alive
  <2> HIDE DEF q
  <2> QED
    BY <2>1, <2>2
<1>4. /\ aged \in GameState /\ aged.last_update_tick = tick /\ aged.age_ticks = age
      /\ aged.cooldown = p.cooldown /\ aged.active_action = p.active_action
      /\ aged.active_food = p.active_food /\ aged.active_drink = p.active_drink
      /\ aged.action_ticks_remaining = p.action_ticks_remaining
      /\ aged.weight = p.weight /\ aged.drunk = p.drunk /\ aged.money = p.money
      /\ aged.money_enabled = p.money_enabled /\ aged.hard_mode = p.hard_mode
      /\ aged.generation = p.generation /\ aged.hatching_countdown = p.hatching_countdown
      /\ aged.hibernating = p.hibernating /\ aged.hibernate_ticks = p.hibernate_ticks
      /\ aged.is_sleeping = p.is_sleeping /\ SamePhase(p, aged) /\ SameBody(p, aged)
  <2> HIDE DEF age, n
  <2> QED
    BY <1>1 DEF GameState, SamePhase, SameBody
<1> HIDE DEF aged
<1>5. /\ ActionSound(aged) /\ Over(aged, n) = Over(p, n) /\ b = ActionTicks(p, n)
      /\ CooldownsAfter(aged, n) = CooldownsAfter(p, n) /\ MoneyAfter(aged) = MoneyAfter(p)
      /\ WeightAfter(aged, b) = WeightAfter(p, b) /\ DrunkAfter(aged, b) = DrunkAfter(p, b)
  <2>1. ActionSound(aged) /\ Over(aged, n) = Over(p, n) /\ b = ActionTicks(p, n)
    BY <1>4 DEF ActionSound, Over, ActionTicks
  <2>2. CooldownsAfter(aged, n) = CooldownsAfter(p, n) /\ MoneyAfter(aged) = MoneyAfter(p)
    BY <1>4, <2>1 DEF CooldownsAfter, CooldownAfter, MoneyAfter
  <2>3. FoodOf(aged) = FoodOf(p) /\ DrinkOf(aged) = DrinkOf(p)
    BY <1>4 DEF FoodOf, DrinkOf
  <2> HIDE DEF b
  <2>4. WeightAfter(aged, b) = WeightAfter(p, b) /\ DrunkAfter(aged, b) = DrunkAfter(p, b)
    BY <1>4, <2>3 DEF WeightAfter, DrunkAfter
  <2> QED
    BY <2>1, <2>2, <2>4
<1>6. /\ r \in GameState /\ Untouched(aged, r) /\ Progressed(aged, r, n)
      /\ r.weight = WeightAfter(aged, b) /\ r.drunk = DrunkAfter(aged, b)
  BY <1>1, <1>4, <1>5, ConsumeStep
<1>7. b \in Nat /\ b <= n
  BY <1>1, <1>4, ActionTicksValue
<1> HIDE DEF n, b, r
<1>8. /\ s \in GameState /\ Kept(r, s) /\ s.cooldown = r.cooldown /\ SameBody(r, s)
      /\ SamePhase(r, s)
  BY <1>6, FloorStep
<1> HIDE DEF s
<1>9. CountdownAgrees(s) /\ s.phase # "Hatching"
  BY <1>4, <1>6, <1>8 DEF SamePhase, Untouched, CountdownAgrees, Alive
<1>10. PICK m \in 0 .. n - b : Worn(s, q, m) /\ (q.phase = "Gone" \/ m = n - b)
  <2>1. n - b \in Nat
    BY <1>1, <1>7
  <2> QED
    BY <1>8, <1>9, <2>1, DecayWears
<1> HIDE DEF q
<1>11. m \in Nat
  BY <1>1, <1>7
<1>12. /\ q \in GameState /\ CountdownAgrees(q) /\ q.phase # "Hatching"
       /\ q.last_update_tick = tick /\ q.age_ticks = age
       /\ q.generation = p.generation /\ q.hatching_countdown = p.hatching_countdown
       /\ q.money_enabled = p.money_enabled /\ q.hard_mode = p.hard_mode
       /\ q.hibernating = p.hibernating /\ q.hibernate_ticks = p.hibernate_ticks
       /\ q.active_drink = p.active_drink /\ (q.is_sleeping => p.is_sleeping)
  BY <1>4, <1>6, <1>8, <1>10 DEF Worn, Kept, Untouched, SameBody
<1>13. IF Over(p, n)
       THEN /\ q.active_action = None /\ q.active_food = None
            /\ q.action_ticks_remaining = 0 /\ q.money = MoneyAfter(p)
       ELSE /\ q.active_action = p.active_action /\ q.active_food = p.active_food
            /\ q.action_ticks_remaining = p.action_ticks_remaining - ActionTicks(p, n)
            /\ q.money = p.money
  <2>1. /\ q.active_action = r.active_action /\ q.active_food = r.active_food
        /\ q.action_ticks_remaining = r.action_ticks_remaining /\ q.money = r.money
    BY <1>8, <1>10 DEF Worn, Kept
  <2>2. CASE Over(p, n)
    BY <1>5, <1>6, <2>1, <2>2 DEF Progressed
  <2>3. CASE ~Over(p, n)
    BY <1>4, <1>5, <1>6, <2>1, <2>3 DEF Progressed, b
  <2> QED
    BY <2>2, <2>3
<1>14. \A c \in Timers : q.cooldown[c] = SatSub(CooldownsAfter(p, n)[c], m)
  BY <1>5, <1>6, <1>8, <1>10 DEF Worn, Progressed
<1>15. /\ q.weight = SatAdd(WeightAfter(p, ActionTicks(p, n)), MulDt(T.WEIGHT_RATE, m))
       /\ q.drunk = SatSub(DrunkAfter(p, ActionTicks(p, n)), MulDt(T.DRUNK_SOBER_RATE, m))
  BY <1>5, <1>6, <1>8, <1>10 DEF Worn, SameBody
<1>16. Brought(p, q, n, m)
  BY <1>1, <1>5, <1>10, <1>12, <1>13, <1>14, <1>15 DEF Brought, age
<1> QED
  BY <1>3, <1>11, <1>16 DEF n

(* Every other pet: nothing happens to it, it sleeps through the winter,   *)
(* it is gone for good, or it is an egg.                                   *)
LEMMA UpdateNothing ==
  ASSUME NEW p \in GameState, NEW tick \in Int, tick <= p.last_update_tick
  PROVE  Update(p, tick) = p
<1>1. Max({tick - p.last_update_tick, 0}) = 0
  <2>1. p.last_update_tick \in Nat
    BY Fields
  <2> QED
    BY <2>1, UpdateSpan
<1> QED
  BY <1>1 DEF Update

LEMMA UpdateFrozen ==
  ASSUME NEW p \in GameState, NEW tick \in Nat, tick > p.last_update_tick, p.hibernating
  PROVE  LET n == tick - p.last_update_tick
             slept == p.hibernate_ticks + n
         IN  /\ slept \in Nat
             /\ Update(p, tick) = [p EXCEPT !.last_update_tick = tick, !.hibernate_ticks = slept]
<1> DEFINE n == tick - p.last_update_tick
<1>1. n \in Nat \ {0} /\ p.hibernate_ticks \in Nat /\ p.last_update_tick \in Nat
  BY Fields
<1>2. Max({tick - p.last_update_tick, 0}) = n
  BY <1>1, UpdateSpan
<1>3. [[p EXCEPT !.last_update_tick = tick] EXCEPT !.hibernate_ticks = @ + n]
        = [p EXCEPT !.last_update_tick = tick, !.hibernate_ticks = p.hibernate_ticks + n]
  BY DEF GameState
<1> DEFINE thawed == [p EXCEPT !.last_update_tick = tick, !.hibernate_ticks = p.hibernate_ticks + n]
<1>4. Update(p, tick) = thawed
  <2>1. [[p EXCEPT !.last_update_tick = tick] EXCEPT !.hibernate_ticks = @ + n] = thawed
    BY <1>3
  <2> HIDE DEF thawed
  <2> QED
    BY <1>1, <1>2, <2>1 DEF Update
<1> QED
  BY <1>1, <1>4

LEMMA UpdateGone ==
  ASSUME NEW p \in GameState, NEW tick \in Nat, tick > p.last_update_tick,
         ~p.hibernating, p.phase = "Gone"
  PROVE  Update(p, tick) = [p EXCEPT !.last_update_tick = tick]
<1>1. /\ Max({tick - p.last_update_tick, 0}) = tick - p.last_update_tick
      /\ tick - p.last_update_tick # 0
  <2>1. p.last_update_tick \in Nat
    BY Fields
  <2> QED
    BY <2>1, UpdateSpan
<1> QED
  BY <1>1 DEF Update

LEMMA UpdateEgg ==
  ASSUME NEW p \in GameState, NEW tick \in Nat, tick > p.last_update_tick,
         ~p.hibernating, p.phase = "Hatching"
  PROVE  LET age == p.age_ticks + (tick - p.last_update_tick)
             left == SatSub(p.hatching_countdown, tick - p.last_update_tick)
             phase == IF left = 0 THEN "Active" ELSE "Hatching"
         IN  /\ age \in Nat /\ left \in Nat
             /\ Update(p, tick) = [p EXCEPT !.last_update_tick = tick, !.age_ticks = age,
                                            !.hatching_countdown = left, !.phase = phase]
<1> DEFINE n == tick - p.last_update_tick
           age == p.age_ticks + n
           left == SatSub(p.hatching_countdown, n)
           phase == IF left = 0 THEN "Active" ELSE "Hatching"
           aged == [p EXCEPT !.last_update_tick = tick, !.age_ticks = age]
<1>1. /\ n \in Nat \ {0} /\ age \in Nat /\ p.hatching_countdown \in Nat
      /\ p.last_update_tick \in Nat
  BY Fields
<1>2. Max({tick - p.last_update_tick, 0}) = n
  BY <1>1, UpdateSpan
<1>3. left \in Nat
  <2> HIDE DEF n
  <2> QED
    BY <1>1, SatSubNat
<1>4. Hatch(aged, n) = [aged EXCEPT !.hatching_countdown = left, !.phase = phase]
  <2>1. aged.hatching_countdown = p.hatching_countdown
    BY DEF GameState
  <2> HIDE DEF aged, n
  <2> QED
    BY <2>1 DEF Hatch
<1>5. Update(p, tick) = Hatch(aged, n)
  <2>1. [[p EXCEPT !.last_update_tick = tick] EXCEPT !.age_ticks = @ + n] = aged
    BY DEF GameState
  <2> HIDE DEF aged
  <2> QED
    BY <1>1, <1>2, <2>1 DEF Update
<1>6. Update(p, tick) = [p EXCEPT !.last_update_tick = tick, !.age_ticks = age,
                                 !.hatching_countdown = left, !.phase = phase]
  <2> HIDE DEF age, left, phase
  <2> QED
    BY <1>4, <1>5
<1> QED
  BY <1>1, <1>3, <1>6

(* What every update keeps.                                                *)
Sound(p) == p \in GameState /\ CountdownAgrees(p) /\ ActionSound(p)

LEMMA UpdateSound ==
  ASSUME NEW p, NEW tick \in Nat, Sound(p)
  PROVE  LET q == Update(p, tick)
         IN  /\ Sound(q) /\ q.hibernating = p.hibernating /\ q.generation = p.generation
             /\ \A c \in MiniGames : p.cooldown[c] = 0 => q.cooldown[c] = 0
<1> DEFINE q == Update(p, tick)
           Fine == /\ Sound(q) /\ q.hibernating = p.hibernating /\ q.generation = p.generation
                   /\ \A c \in MiniGames : p.cooldown[c] = 0 => q.cooldown[c] = 0
<1> SUFFICES Fine
  OBVIOUS
<1>0. p \in GameState /\ p.last_update_tick \in Nat /\ p.phase \in Phases
  BY Fields DEF Sound
<1>1. CASE tick <= p.last_update_tick
  BY <1>0, <1>1, UpdateNothing
<1>2. CASE tick > p.last_update_tick /\ p.hibernating
  <2> DEFINE slept == p.hibernate_ticks + (tick - p.last_update_tick)
  <2>1. slept \in Nat /\ q = [p EXCEPT !.last_update_tick = tick, !.hibernate_ticks = slept]
    BY <1>0, <1>2, UpdateFrozen
  <2> HIDE DEF q, slept
  <2>2. /\ q \in GameState /\ SamePhase(p, q) /\ SameBody(p, q) /\ q.cooldown = p.cooldown
        /\ q.hibernating = p.hibernating /\ q.generation = p.generation
        /\ q.active_action = p.active_action
        /\ q.action_ticks_remaining = p.action_ticks_remaining
    BY <1>0, <2>1 DEF GameState, SamePhase, SameBody
  <2>3. CountMaxed(q) = CountMaxed(p)
    BY <2>2, SameMaxed
  <2> QED
    BY <2>2, <2>3 DEF Sound, CountdownAgrees, ActionSound, SamePhase
<1>3. CASE tick > p.last_update_tick /\ ~p.hibernating /\ p.phase = "Gone"
  <2>1. q = [p EXCEPT !.last_update_tick = tick]
    BY <1>0, <1>3, UpdateGone
  <2> HIDE DEF q
  <2>2. /\ q \in GameState /\ SamePhase(p, q) /\ SameBody(p, q) /\ q.cooldown = p.cooldown
        /\ q.hibernating = p.hibernating /\ q.generation = p.generation
        /\ q.active_action = p.active_action
        /\ q.action_ticks_remaining = p.action_ticks_remaining
    BY <1>0, <2>1 DEF GameState, SamePhase, SameBody
  <2>3. CountMaxed(q) = CountMaxed(p)
    BY <2>2, SameMaxed
  <2> QED
    BY <2>2, <2>3 DEF Sound, CountdownAgrees, ActionSound, SamePhase
<1>4. CASE tick > p.last_update_tick /\ ~p.hibernating /\ p.phase = "Hatching"
  <2> DEFINE age == p.age_ticks + (tick - p.last_update_tick)
             left == SatSub(p.hatching_countdown, tick - p.last_update_tick)
             phase == IF left = 0 THEN "Active" ELSE "Hatching"
  <2>1. /\ age \in Nat /\ left \in Nat
        /\ q = [p EXCEPT !.last_update_tick = tick, !.age_ticks = age,
                         !.hatching_countdown = left, !.phase = phase]
    BY <1>0, <1>4, UpdateEgg
  <2>2. phase \in Phases /\ phase \in {"Active", "Hatching"}
    BY DEF Phases
  <2> HIDE DEF q, age, left, phase
  <2>3. /\ q \in GameState /\ q.leaving_countdown = p.leaving_countdown /\ q.cooldown = p.cooldown
        /\ q.hibernating = p.hibernating /\ q.generation = p.generation
        /\ q.active_action = p.active_action /\ q.phase = phase
        /\ q.action_ticks_remaining = p.action_ticks_remaining
    BY <1>0, <2>1, <2>2 DEF GameState
  <2> QED
    BY <1>4, <2>2, <2>3 DEF Sound, CountdownAgrees, ActionSound
<1>5. CASE tick > p.last_update_tick /\ ~p.hibernating /\ Alive(p)
  <2> DEFINE n == tick - p.last_update_tick
  <2>0. n \in Nat \ {0}
    BY <1>0, <1>5
  <2>1. PICK m \in Nat : Brought(p, q, n, m)
    BY <1>0, <1>5, UpdateAlive DEF Sound
  <2> HIDE DEF q, n
  <2>2. q \in GameState /\ CountdownAgrees(q) /\ q.hibernating = p.hibernating /\ q.generation =
              p.generation
    BY <2>1 DEF Brought
  <2>3. /\ p.action_ticks_remaining \in Nat /\ p.active_action \in Actions \cup {None}
        /\ p.cooldown \in [Timers -> Nat]
    BY <1>0, Fields
  <2>4. q.active_action # None => q.action_ticks_remaining > 0
    <3>1. CASE Over(p, n)
      BY <2>1, <3>1 DEF Brought
    <3>2. CASE ~Over(p, n)
      <4> SUFFICES ASSUME p.active_action # None PROVE q.action_ticks_remaining > 0
        BY <2>1, <3>2 DEF Brought
      <4>1. ActionTicks(p, n) = n /\ p.action_ticks_remaining > n
        BY <1>0, <2>0, <2>3, <3>2, ActionTicksValue DEF Over
      <4>2. q.action_ticks_remaining = p.action_ticks_remaining - n
        BY <2>1, <3>2, <4>1 DEF Brought
      <4> QED
        BY <2>0, <2>3, <4>1, <4>2
    <3> QED
      BY <3>1, <3>2
  <2>5. \A c \in Timers : q.cooldown[c] \in Nat /\ CooldownsAfter(p, n)[c] \in Nat
                        /\ q.cooldown[c] <= CooldownsAfter(p, n)[c]
    <3> TAKE c \in Timers
    <3>1. q.cooldown[c] = SatSub(CooldownsAfter(p, n)[c], m)
      BY <2>1 DEF Brought
    <3>2. CooldownsAfter(p, n)[c] \in Nat
      <4>1. p.active_action # None => CooldownAfter(p) \in Nat
        BY <2>3, Constants DEF CooldownAfter, Actions
      <4> QED
        BY <2>3, <4>1 DEF CooldownsAfter, Over
    <3> DEFINE x == CooldownsAfter(p, n)[c]
    <3>3. SatSub(x, m) \in Nat /\ SatSub(x, m) = IF x >= m THEN x - m ELSE 0
      BY <3>2, SatSubNat
    <3> HIDE DEF x
    <3>4. x \in Nat /\ q.cooldown[c] = SatSub(x, m)
      BY <3>1, <3>2 DEF x
    <3> QED
      BY <3>3, <3>4 DEF x
  <2>6. q.cooldown["onlypets"] <= T.COOLDOWN["play"]
    <3>1. "onlypets" \in Timers /\ T.COOLDOWN["play"] \in Nat
      BY Constants DEF Timers, Actions
    <3>2. CooldownsAfter(p, n)["onlypets"] <= T.COOLDOWN["play"]
      BY <2>3, <3>1 DEF CooldownsAfter, CooldownAfter, Sound, ActionSound
    <3> QED
      BY <2>5, <3>1, <3>2
  <2>7. ASSUME NEW c \in MiniGames, p.cooldown[c] = 0 PROVE q.cooldown[c] = 0
    <3>1. c \in Timers /\ c \notin Actions
      BY InputsSound DEF Timers
    <3>2. CooldownsAfter(p, n)[c] = 0
      BY <2>3, <2>7, <3>1 DEF CooldownsAfter, Over
    <3> QED
      BY <2>5, <3>1, <3>2
  <2> QED
    BY <2>2, <2>4, <2>6, <2>7 DEF Sound, ActionSound
<1> QED
  BY <1>0, <1>1, <1>2, <1>3, <1>4, <1>5 DEF Alive, Phases

-----------------------------------------------------------------------------
(* The operations.                                                         *)

(* Nothing that only time or an action moves has moved, no stat is worse.  *)
Still(p, q) ==
  /\ Clockwork(q) = Clockwork(p)
  /\ \A s \in Primary \cup {"miserable"} : q[s] <= p[s]

LEMMA StillSound ==
  ASSUME NEW p, NEW q \in GameState, Sound(p), SamePhase(p, q), ActionSound(q),
         p.phase = "Gone" => q.hunger = p.hunger /\ q.tired = p.tired /\ q.sick = p.sick
  PROVE  Sound(q)
<1>1. p.phase = "Gone" => CountMaxed(q) = CountMaxed(p)
  BY DEF CountMaxed, Primary
<1> QED
  BY <1>1 DEF Sound, SamePhase, CountdownAgrees

LEMMA StillStats ==
  ASSUME NEW p \in GameState, NEW q \in GameState, Clockwork(q) = Clockwork(p),
         q.hunger = p.hunger \/ q.hunger = 0, q.tired = p.tired \/ q.tired = 0,
         q.sick = p.sick \/ q.sick = 0, q.miserable <= p.miserable
  PROVE  Still(p, q)
<1>1. \A s \in {"hunger", "tired", "sick", "miserable"} : p[s] \in Nat
  BY Fields DEF Stat
<1>2. \A s \in {"hunger", "tired", "sick"} : q[s] = p[s] \/ q[s] = 0
  OBVIOUS
<1> QED
  BY <1>1, <1>2 DEF Still, Primary

LEMMA UpdateStill ==
  ASSUME NEW p, NEW tick \in Nat, Sound(p), p.hibernating \/ p.phase = "Gone"
  PROVE  Still(p, Update(p, tick)) /\ Update(p, tick).phase = p.phase
<1> DEFINE q == Update(p, tick)
<1>0. p \in GameState /\ p.last_update_tick \in Nat /\ p.miserable \in Nat
  BY Fields DEF Sound, Stat
<1>1. \/ q = p
      \/ \E slept \in Nat : q = [p EXCEPT !.last_update_tick = tick, !.hibernate_ticks = slept]
      \/ q = [p EXCEPT !.last_update_tick = tick]
  <2>1. CASE tick <= p.last_update_tick
    <3>1. tick \in Int
      OBVIOUS
    <3>2. q = p
      BY <1>0, <2>1, <3>1, UpdateNothing
    <3> HIDE DEF q
    <3> QED
      BY <3>2
  <2>2. CASE tick > p.last_update_tick /\ p.hibernating
    <3> DEFINE slept == p.hibernate_ticks + (tick - p.last_update_tick)
    <3>1. slept \in Nat /\ q = [p EXCEPT !.last_update_tick = tick, !.hibernate_ticks = slept]
      BY <1>0, <2>2, UpdateFrozen
    <3> HIDE DEF slept, q
    <3> QED
      BY <3>1
  <2>3. CASE tick > p.last_update_tick /\ ~p.hibernating
    BY <1>0, <2>3, UpdateGone
  <2>4. tick <= p.last_update_tick \/ tick > p.last_update_tick
    BY <1>0
  <2> HIDE DEF q
  <2> QED
    BY <2>1, <2>2, <2>3, <2>4
<1> HIDE DEF q
<1>2. /\ q \in GameState /\ Clockwork(q) = Clockwork(p) /\ SameBody(p, q)
      /\ q.miserable = p.miserable /\ q.phase = p.phase
  <2>1. CASE q = p
    BY <1>0, <2>1 DEF SameBody
  <2>2. ASSUME NEW slept \in Nat, q = [p EXCEPT !.last_update_tick = tick, !.hibernate_ticks =
              slept]
        PROVE  /\ q \in GameState /\ Clockwork(q) = Clockwork(p) /\ SameBody(p, q)
               /\ q.miserable = p.miserable /\ q.phase = p.phase
    BY <1>0, <2>2 DEF GameState, Clockwork, SameBody
  <2>3. CASE q = [p EXCEPT !.last_update_tick = tick]
    BY <1>0, <2>3 DEF GameState, Clockwork, SameBody
  <2> QED
    BY <1>1, <2>1, <2>2, <2>3
<1> QED
  BY <1>0, <1>2, StillStats DEF SameBody, q

LEMMA PriceType ==
  ASSUME NEW p \in GameState, NEW action \in Actions, NEW item \in Items(action)
  PROVE  HaxPrice(p, action, item) \in Nat
<1>1. p.hard_mode \in BOOLEAN
  BY Fields
<1>2. CASE action = "feed"
  <2>1. item \in DOMAIN Foods
    BY <1>2 DEF Items
  <2>2. Foods[item].price[p.hard_mode] \in Nat
    BY <1>1, <2>1, InputsSound
  <2> QED
    BY <1>2, <2>2 DEF HaxPrice
<1>3. CASE action = "drink"
  <2>1. item \in DOMAIN Drinks
    BY <1>3 DEF Items
  <2>2. Drinks[item].price \in Nat
    BY <2>1, InputsSound
  <2> QED
    BY <1>3, <2>2 DEF HaxPrice
<1>4. CASE action \notin {"feed", "drink"}
  BY <1>4 DEF HaxPrice, MedicationPrice, RehabPrice, DRUG_HAX_COST
<1> QED
  BY <1>2, <1>3, <1>4

LEMMA StartStep ==
  ASSUME NEW p, Sound(p), NEW action \in Actions, NEW item \in Items(action),
         CanStart(p, action, item)
  PROVE  Sound(Start(p, action, item))
<1> DEFINE food == IF action = "feed" THEN item ELSE p.active_food
           drink == IF action = "drink" THEN item ELSE p.active_drink
           money == IF p.money_enabled THEN p.money - HaxPrice(p, action, item) ELSE p.money
           ticks == T.DURATION[action]
           q == [p EXCEPT !.active_action = action, !.action_ticks_remaining = ticks,
                          !.active_food = food, !.active_drink = drink, !.money = money]
<1>0. p \in GameState
  BY DEF Sound
<1>1. food \in DOMAIN Foods \cup {None} /\ drink \in DOMAIN Drinks \cup {None}
  <2>1. action = "feed" => item \in DOMAIN Foods
    BY DEF Items
  <2>2. action = "drink" => item \in DOMAIN Drinks
    BY DEF Items
  <2> QED
    BY <1>0, <2>1, <2>2, Fields
<1>2. money \in Nat
  <2>1. p.money \in Nat /\ HaxPrice(p, action, item) \in Nat
    BY <1>0, Fields, PriceType
  <2>2. p.money_enabled => p.money >= HaxPrice(p, action, item)
    BY DEF CanStart, Affordable
  <2> QED
    BY <2>1, <2>2
<1>3. ticks \in Nat \ {0}
  BY Constants
<1>4. Start(p, action, item) = q
  BY DEF Start
<1> HIDE DEF food, drink, money, ticks
<1>5. /\ q \in GameState /\ SamePhase(p, q) /\ SameBody(p, q) /\ q.cooldown = p.cooldown
      /\ q.action_ticks_remaining = ticks
  BY <1>0, <1>1, <1>2, <1>3 DEF GameState, SamePhase, SameBody
<1> HIDE DEF q
<1>6. ActionSound(q)
  BY <1>3, <1>5 DEF Sound, ActionSound
<1> QED
  BY <1>4, <1>5, <1>6, StillSound DEF SameBody

LEMMA FlagSteps ==
  ASSUME NEW p, Sound(p), NEW flag \in BOOLEAN
  PROVE  /\ Sound([p EXCEPT !.is_sleeping = flag])
         /\ LET q == [p EXCEPT !.hibernating = flag]
            IN  Sound(q) /\ Still(p, q) /\ q.hibernating = flag
<1> DEFINE q1 == [p EXCEPT !.is_sleeping = flag]
           q2 == [p EXCEPT !.hibernating = flag]
<1>0. p \in GameState /\ p.miserable \in Nat
  BY Fields DEF Sound, Stat
<1>1. /\ q1 \in GameState /\ SamePhase(p, q1) /\ q1.cooldown = p.cooldown
      /\ q1.hunger = p.hunger /\ q1.tired = p.tired /\ q1.sick = p.sick
      /\ q1.active_action = p.active_action
      /\ q1.action_ticks_remaining = p.action_ticks_remaining
  BY <1>0 DEF GameState, SamePhase
<1>2. /\ q2 \in GameState /\ SamePhase(p, q2) /\ q2.cooldown = p.cooldown
      /\ q2.hunger = p.hunger /\ q2.tired = p.tired /\ q2.sick = p.sick
      /\ q2.active_action = p.active_action
      /\ q2.action_ticks_remaining = p.action_ticks_remaining
      /\ q2.miserable = p.miserable /\ Clockwork(q2) = Clockwork(p) /\ q2.hibernating = flag
  BY <1>0 DEF GameState, SamePhase, Clockwork
<1> HIDE DEF q1, q2
<1>3. ActionSound(q1) /\ ActionSound(q2)
  BY <1>1, <1>2 DEF Sound, ActionSound
<1>4. Sound(q1) /\ Sound(q2)
  BY <1>1, <1>2, <1>3, StillSound
<1>5. Still(p, q2)
  BY <1>0, <1>2, StillStats
<1> QED
  BY <1>2, <1>4, <1>5 DEF q1, q2

LEMMA BattleStep ==
  ASSUME NEW p, Sound(p), NEW won \in BOOLEAN
  PROVE  LET q == RecordBattle(p, won)
         IN  /\ Sound(q) /\ Still(p, q) /\ q.hibernating = p.hibernating
             /\ \A c \in MiniGames : q.cooldown[c] = p.cooldown[c]
<1> DEFINE cd == [p.cooldown EXCEPT !["battle"] = T.BATTLE_COOLDOWN]
           money == IF won /\ p.money_enabled THEN p.money + BATTLE_HAX_REWARD ELSE p.money
           q == [p EXCEPT !.cooldown = cd, !.money = money]
<1>0. p \in GameState /\ p.miserable \in Nat /\ p.cooldown \in [Timers -> Nat]
  BY Fields DEF Sound, Stat
<1>1. cd \in [Timers -> Nat] /\ money \in Nat
  <2>1. p.money \in Nat /\ T.BATTLE_COOLDOWN \in Nat
    BY <1>0, Fields, Rates
  <2>2. money \in Nat
    BY <2>1 DEF BATTLE_HAX_REWARD
  <2>3. cd \in [Timers -> Nat]
    BY <1>0, <2>1
  <2> QED
    BY <2>2, <2>3
<1>2. /\ \A c \in MiniGames : cd[c] = p.cooldown[c]
      /\ cd["onlypets"] = p.cooldown["onlypets"]
  BY <1>0, InputsSound DEF Timers, Actions
<1>3. RecordBattle(p, won) = q
  BY DEF RecordBattle
<1> HIDE DEF cd, money
<1>4. /\ q \in GameState /\ SamePhase(p, q) /\ SameBody(p, q) /\ q.cooldown = cd
      /\ q.active_action = p.active_action
      /\ q.action_ticks_remaining = p.action_ticks_remaining
      /\ q.miserable = p.miserable /\ Clockwork(q) = Clockwork(p) /\ q.hibernating = p.hibernating
  BY <1>0, <1>1 DEF GameState, SamePhase, SameBody, Clockwork
<1> HIDE DEF q
<1>5. ActionSound(q)
  BY <1>2, <1>4 DEF Sound, ActionSound
<1>6. Sound(q) /\ Still(p, q)
  BY <1>0, <1>4, <1>5, StillSound, StillStats DEF SameBody
<1> QED
  BY <1>2, <1>3, <1>4, <1>6

LEMMA AwardStep ==
  ASSUME NEW p, Sound(p), NEW g \in MiniGames
  PROVE  LET q == AwardInspiration(p, g)
         IN  Sound(q) /\ (p.phase = "Gone" => q = p)
<1> DEFINE hunger == SatAdd(p.hunger, T.MINIGAME_HUNGER_COST)
           cd == [p.cooldown EXCEPT ![g] = T.MINIGAME_COOLDOWN]
           money == IF p.money_enabled THEN p.money + MINIGAME_HAX_REWARD ELSE p.money
           q == [p EXCEPT !.hunger = hunger, !.cooldown = cd, !.money = money]
<1>0. /\ p \in GameState /\ p.cooldown \in [Timers -> Nat] /\ p.hunger \in Stat
      /\ p.money \in Nat
  BY Fields DEF Sound
<1>1. hunger \in Stat
  BY <1>0, Rates, Saturating
<1>2. money \in Nat
  BY <1>0 DEF MINIGAME_HAX_REWARD
<1>3. cd \in [Timers -> Nat]
  BY <1>0, Rates
<1>4. cd["onlypets"] = p.cooldown["onlypets"]
  BY <1>0, InputsSound DEF Timers, Actions
<1>5. AwardInspiration(p, g) = IF p.phase # "Active" THEN p ELSE q
  BY DEF AwardInspiration
<1> HIDE DEF hunger, cd, money
<1>6. /\ q \in GameState /\ SamePhase(p, q) /\ q.cooldown = cd
      /\ q.active_action = p.active_action
      /\ q.action_ticks_remaining = p.action_ticks_remaining
  BY <1>0, <1>1, <1>2, <1>3 DEF GameState, SamePhase
<1> HIDE DEF q
<1>7. ActionSound(q)
  BY <1>4, <1>6 DEF Sound, ActionSound
<1> QED
  BY <1>5, <1>6, <1>7, StillSound

LEMMA BoostStep ==
  ASSUME NEW p, Sound(p), NEW big \in BOOLEAN
  PROVE  LET q == FriendBoost(p, big)
         IN  /\ Sound(q) /\ Still(p, q) /\ q.hibernating = p.hibernating
             /\ q.cooldown = p.cooldown
<1> DEFINE relief == IF big THEN (T.STAT_MAX * 2) \div 5 ELSE T.STAT_MAX \div 10
           miserable == SatSub(p.miserable, relief)
           q == [p EXCEPT !.miserable = miserable]
<1>0. p \in GameState /\ p.miserable \in Stat /\ p.miserable \in Nat
  BY Fields DEF Sound, Stat
<1>1. relief \in Nat
  <2>1. T.STAT_MAX \in Nat
    BY Divisors
  <2> QED
    BY <2>1
<1>2. miserable \in Stat /\ miserable <= p.miserable
  <2>1. miserable \in Stat
    BY <1>0, <1>1, Saturating
  <2>2. miserable = IF p.miserable >= relief THEN p.miserable - relief ELSE 0
    <3> HIDE DEF relief
    <3> QED
      BY <1>0, <1>1, SatSubNat
  <2> HIDE DEF relief, miserable
  <2> QED
    BY <1>0, <1>1, <2>1, <2>2
<1>3. FriendBoost(p, big) = q
  BY DEF FriendBoost
<1> HIDE DEF miserable
<1>4. /\ q \in GameState /\ SamePhase(p, q) /\ SameBody(p, q) /\ q.cooldown = p.cooldown
      /\ q.active_action = p.active_action
      /\ q.action_ticks_remaining = p.action_ticks_remaining
      /\ q.miserable = miserable /\ Clockwork(q) = Clockwork(p) /\ q.hibernating = p.hibernating
  BY <1>0, <1>2 DEF GameState, SamePhase, SameBody, Clockwork
<1> HIDE DEF q
<1>5. ActionSound(q)
  BY <1>4 DEF Sound, ActionSound
<1>6. Sound(q) /\ Still(p, q)
  BY <1>0, <1>2, <1>4, <1>5, StillSound, StillStats DEF SameBody
<1> QED
  BY <1>3, <1>4, <1>6

LEMMA StationStep ==
  ASSUME NEW p, Sound(p), p.phase # "Gone", NEW stat \in Primary
  PROVE  LET q == [p EXCEPT ![stat] = 0]
         IN  /\ Sound(q) /\ Still(p, q) /\ q.hibernating = p.hibernating
             /\ q.cooldown = p.cooldown
<1> DEFINE q == [p EXCEPT ![stat] = 0]
<1>0. p \in GameState /\ p.miserable \in Nat /\ 0 \in Stat
  BY Fields, Divisors DEF Sound, Stat
<1>1. \/ q = [p EXCEPT !.hunger = 0]
      \/ q = [p EXCEPT !.tired = 0]
      \/ q = [p EXCEPT !.sick = 0]
  BY DEF Primary
<1> HIDE DEF q
<1>2. /\ q \in GameState /\ SamePhase(p, q) /\ q.cooldown = p.cooldown
      /\ q.active_action = p.active_action
      /\ q.action_ticks_remaining = p.action_ticks_remaining
      /\ q.miserable = p.miserable /\ Clockwork(q) = Clockwork(p) /\ q.hibernating = p.hibernating
      /\ (q.hunger = p.hunger \/ q.hunger = 0) /\ (q.tired = p.tired \/ q.tired = 0)
      /\ (q.sick = p.sick \/ q.sick = 0)
  <2>1. CASE q = [p EXCEPT !.hunger = 0]
    BY <1>0, <2>1 DEF GameState, SamePhase, Clockwork
  <2>2. CASE q = [p EXCEPT !.tired = 0]
    BY <1>0, <2>2 DEF GameState, SamePhase, Clockwork
  <2>3. CASE q = [p EXCEPT !.sick = 0]
    BY <1>0, <2>3 DEF GameState, SamePhase, Clockwork
  <2> QED
    BY <1>1, <2>1, <2>2, <2>3
<1>3. ActionSound(q)
  BY <1>2 DEF Sound, ActionSound
<1>4. Sound(q) /\ Still(p, q)
  <2>1. Sound(q)
    BY <1>2, <1>3, StillSound
  <2>2. q.miserable <= p.miserable
    BY <1>0, <1>2
  <2>3. Still(p, q)
    BY <1>0, <1>2, <2>2, StillStats
  <2> QED
    BY <2>1, <2>3
<1> QED
  BY <1>2, <1>4 DEF q

LEMMA EggStep ==
  ASSUME NEW traits \in Traits, NEW enabled \in BOOLEAN, NEW hard \in BOOLEAN,
         NEW generation \in Nat, NEW tick \in Nat
  PROVE  Sound(Egg(traits, enabled, hard, generation, tick))
<1> DEFINE q == Egg(traits, enabled, hard, generation, tick)
           sick == (T.STAT_MAX - traits.vitality) \div 4
           cd == [c \in Timers |-> 0]
<1>1. sick \in Stat /\ traits.curiosity \in Stat /\ 0 \in Stat
  <2>1. traits \in [vitality : Stat, curiosity : Stat] /\ T.STAT_MAX \in Nat \ {0}
    BY InputsSound, Divisors
  <2>2. traits.vitality \in Nat /\ traits.vitality <= T.STAT_MAX
    BY <2>1 DEF Stat
  <2> DEFINE d == T.STAT_MAX - traits.vitality
  <2>3. d \in Nat /\ d <= T.STAT_MAX
    BY <2>1, <2>2
  <2> HIDE DEF d
  <2>4. d \div 4 \in Nat /\ d \div 4 <= T.STAT_MAX
    BY <2>1, <2>3
  <2> QED
    BY <2>1, <2>4 DEF Stat, d
<1>2. cd \in [Timers -> Nat] /\ cd["onlypets"] = 0
  BY DEF Timers, Actions
<1>3. q = [hunger |-> 0, tired |-> 0, sick |-> sick,
           miserable |-> 0, weight |-> 0, drunk |-> 0,
           diabetic |-> FALSE, overweight_ticks |-> 0,
           alcoholic |-> FALSE, drunk_ticks |-> 0, curiosity |-> traits.curiosity,
           last_update_tick |-> tick, age_ticks |-> 0,
           phase |-> "Hatching", hatching_countdown |-> T.HATCHING_TICKS,
           leaving_countdown |-> 0, generation |-> generation,
           money |-> 100, money_enabled |-> enabled, hard_mode |-> hard,
           active_action |-> None, active_food |-> None, active_drink |-> None,
           action_ticks_remaining |-> 0, cooldown |-> cd,
           miserable_interval_counter |-> 0, tired_passive_counter |-> 0,
           is_sleeping |-> FALSE, hibernating |-> FALSE, hibernate_ticks |-> 0]
  BY DEF Egg, EGG_MONEY
<1> HIDE DEF cd, sick, q
<1>4. q \in GameState
  BY <1>1, <1>2, <1>3, Rates DEF GameState, Phases
<1>5. /\ q.phase = "Hatching" /\ q.leaving_countdown = 0 /\ q.active_action = None
      /\ q.cooldown["onlypets"] = 0 /\ T.COOLDOWN["play"] \in Nat
  BY <1>2, <1>3, Constants DEF Actions
<1>6. Sound(q)
  BY <1>4, <1>5 DEF Sound, CountdownAgrees, ActionSound
<1> QED
  BY <1>6 DEF q

LEMMA CheatStep ==
  ASSUME NEW p, Sound(p), NEW kind \in Cheats, ~p.hibernating
  PROVE  LET q == Cheat(p, kind)
         IN  Sound(q) /\ (p.phase = "Gone" => Still(p, q))
<1> DEFINE q == Cheat(p, kind)
<1> SUFFICES Sound(q) /\ (p.phase = "Gone" => Still(p, q))
  OBVIOUS
<1>0. /\ p \in GameState /\ p.miserable \in Nat /\ p.last_update_tick \in Nat
      /\ p.cooldown \in [Timers -> Nat]
  BY Fields DEF Sound, Stat
<1> DEFINE Harmless == /\ q \in GameState /\ SamePhase(p, q)
                       /\ q.hunger = p.hunger /\ q.tired = p.tired /\ q.sick = p.sick
                       /\ q.cooldown["onlypets"] = p.cooldown["onlypets"]
                       /\ q.active_action = p.active_action
                       /\ q.action_ticks_remaining = p.action_ticks_remaining
                       /\ q.miserable = p.miserable /\ Clockwork(q) = Clockwork(p)
<1>1. ASSUME Harmless PROVE Sound(q) /\ Still(p, q)
  <2>1. ActionSound(q)
    BY <1>1 DEF Sound, ActionSound
  <2>2. Sound(q)
    BY <1>1, <2>1, StillSound
  <2>3. q.miserable <= p.miserable
    BY <1>0, <1>1
  <2> QED
    BY <1>0, <1>1, <2>2, <2>3, StillStats
<1> DEFINE fat == SatAdd(T.OVERWEIGHT_TRIGGER, 1)
           merry == SatAdd(T.DRUNK_TRIGGER, 1)
           cd == [p.cooldown EXCEPT !["battle"] = 0]
           heavy == [p EXCEPT !.weight = fat]
           sweet == [p EXCEPT !.diabetic = TRUE]
           cured == [p EXCEPT !.diabetic = FALSE, !.overweight_ticks = 0]
           drunk == [p EXCEPT !.drunk = merry]
           hooked == [p EXCEPT !.alcoholic = TRUE]
           sober == [p EXCEPT !.alcoholic = FALSE, !.drunk_ticks = 0]
           later == Update(p, p.last_update_tick + 8640)
           fresh == [p EXCEPT !.cooldown = cd]
<1>2. q = CASE kind = "overweight" -> heavy
            [] kind = "diabetic" -> sweet
            [] kind = "no diabetes" -> cured
            [] kind = "drunk" -> drunk
            [] kind = "alcoholic" -> hooked
            [] kind = "sober" -> sober
            [] kind = "skip day" -> later
            [] OTHER -> fresh
  BY DEF Cheat
<1>3. fat \in Stat /\ merry \in Stat
  <2>1. \A a \in Nat : SatAdd(a, 1) \in Stat
    <3> TAKE a \in Nat
    <3>1. T.STAT_MAX \in Nat /\ a + 1 \in Nat
      BY Divisors
    <3>2. SatAdd(a, 1) = IF a + 1 <= T.STAT_MAX THEN a + 1 ELSE T.STAT_MAX
      BY <3>1, MinMax DEF SatAdd
    <3> QED
      BY <3>1, <3>2 DEF Stat
  <2> QED
    BY <2>1, Rates
<1>4. cd \in [Timers -> Nat] /\ cd["onlypets"] = p.cooldown["onlypets"]
  BY <1>0 DEF Timers, Actions
<1> HIDE DEF fat, merry, cd, heavy, sweet, cured, drunk, hooked, sober, later, fresh
<1>5. CASE kind = "skip day"
  <2>1. q = later
    BY <1>2, <1>5
  <2>2. p.last_update_tick + 8640 \in Nat
    BY <1>0
  <2> HIDE DEF q
  <2> QED
    BY <2>1, <2>2, UpdateSound, UpdateStill DEF later
<1>6. CASE kind = "overweight"
  <2>1. q = heavy
    BY <1>2, <1>6
  <2> HIDE DEF q
  <2>2. Harmless
    BY <1>0, <1>3, <2>1 DEF GameState, SamePhase, Clockwork, heavy
  <2> QED
    BY <1>1, <2>2
<1>7. CASE kind = "diabetic"
  <2>1. q = sweet
    BY <1>2, <1>7
  <2> HIDE DEF q
  <2>2. Harmless
    BY <1>0, <1>3, <2>1 DEF GameState, SamePhase, Clockwork, sweet
  <2> QED
    BY <1>1, <2>2
<1>8. CASE kind = "no diabetes"
  <2>1. q = cured
    BY <1>2, <1>8
  <2> HIDE DEF q
  <2>2. Harmless
    BY <1>0, <1>3, <2>1 DEF GameState, SamePhase, Clockwork, cured
  <2> QED
    BY <1>1, <2>2
<1>9. CASE kind = "drunk"
  <2>1. q = drunk
    BY <1>2, <1>9
  <2> HIDE DEF q
  <2>2. Harmless
    BY <1>0, <1>3, <2>1 DEF GameState, SamePhase, Clockwork, drunk
  <2> QED
    BY <1>1, <2>2
<1>10. CASE kind = "alcoholic"
  <2>1. q = hooked
    BY <1>2, <1>10
  <2> HIDE DEF q
  <2>2. Harmless
    BY <1>0, <1>3, <2>1 DEF GameState, SamePhase, Clockwork, hooked
  <2> QED
    BY <1>1, <2>2
<1>11. CASE kind = "sober"
  <2>1. q = sober
    BY <1>2, <1>11
  <2> HIDE DEF q
  <2>2. Harmless
    BY <1>0, <1>3, <2>1 DEF GameState, SamePhase, Clockwork, sober
  <2> QED
    BY <1>1, <2>2
<1>12. CASE kind = "reset battles"
  <2>1. q = fresh
    BY <1>2, <1>12
  <2> HIDE DEF q
  <2>2. Harmless
    BY <1>0, <1>4, <2>1 DEF GameState, SamePhase, Clockwork, fresh
  <2> QED
    BY <1>1, <2>2
<1> QED
  BY <1>5, <1>6, <1>7, <1>8, <1>9, <1>10, <1>11, <1>12 DEF Cheats

-----------------------------------------------------------------------------
(* The steps.                                                              *)

(* The inductive invariant: the pet is what GameState, the leaving         *)
(* countdown and the action in progress allow, and a mini-game is only on  *)
(* screen for a pet that is neither hibernating nor waiting out the reward *)
(* of that game.                                                           *)
Inv ==
  /\ Sound(pet) /\ now \in Nat
  /\ game # None => game \in MiniGames /\ ~pet.hibernating /\ pet.cooldown[game] = 0

Frozen ==
  (pet.hibernating \/ pet.phase = "Gone") /\ pet'.generation = pet.generation
  => Still(pet, pet')

LEMMA InitInv == Init => Inv
BY InputsSound DEF Init, Inv, Sound

LEMMA StillTrans ==
  ASSUME NEW a, NEW b, NEW c, Sound(a), Sound(b), Sound(c), Still(a, b), Still(b, c)
  PROVE  Still(a, c)
<1>1. \A r \in GameState : \A s \in Primary \cup {"miserable"} : r[s] \in Nat
  BY Fields DEF Stat, Primary
<1>2. a \in GameState /\ b \in GameState /\ c \in GameState
  BY DEF Sound
<1> QED
  BY <1>1, <1>2 DEF Still

(* The pet as an operation that brings it up to date first finds it.       *)
LEMMA Looked ==
  ASSUME Inv, NEW p, p = Update(pet, now)
  PROVE  /\ Sound(p) /\ p.hibernating = pet.hibernating /\ p.generation = pet.generation
         /\ \A c \in MiniGames : pet.cooldown[c] = 0 => p.cooldown[c] = 0
         /\ pet.hibernating \/ pet.phase = "Gone" => Still(pet, p) /\ p.phase = pet.phase
BY UpdateSound, UpdateStill DEF Inv

LEMMA TimePasses ==
  ASSUME Inv, NEW dt \in Gaps, Elapse(dt)
  PROVE  Inv' /\ Frozen
<1>1. pet' = pet /\ game' = game /\ now' = now + dt
  BY DEF Elapse
<1>2. now' \in Nat
  BY <1>1, InputsSound DEF Inv
<1>3. Still(pet, pet)
  <2>1. pet \in GameState
    BY DEF Inv, Sound
  <2>2. pet.miserable <= pet.miserable
    BY <2>1, Fields DEF Stat
  <2> QED
    BY <2>1, <2>2, StillStats
<1> QED
  BY <1>1, <1>2, <1>3 DEF Inv, Frozen

LEMMA CycleLooks ==
  ASSUME Inv, Cycle
  PROVE  Inv' /\ Frozen
<1>1. pet' = Update(pet, now) /\ now' = now /\ game' = game
  BY DEF Cycle
<1> DEFINE p == Update(pet, now)
<1>2. /\ Sound(p) /\ p.hibernating = pet.hibernating /\ p.generation = pet.generation
      /\ \A c \in MiniGames : pet.cooldown[c] = 0 => p.cooldown[c] = 0
      /\ pet.hibernating \/ pet.phase = "Gone" => Still(pet, p)
  BY Looked
<1> HIDE DEF p
<1>3. pet' = p
  BY <1>1 DEF p
<1> QED
  BY <1>1, <1>2, <1>3 DEF Inv, Frozen

LEMMA StartStarts ==
  ASSUME Inv, NEW action \in Actions, NEW item \in Items(action), StartAction(action, item)
  PROVE  Inv' /\ Frozen
<1>1. PICK p \in {Update(pet, now)} :
        /\ game = None /\ CanStart(p, action, item) /\ pet' = Start(p, action, item)
        /\ now' = now /\ game' = game
  BY DEF StartAction, Activate
<1>2. /\ Sound(p) /\ p.hibernating = pet.hibernating
      /\ pet.hibernating \/ pet.phase = "Gone" => p.phase = pet.phase
  BY <1>1, Looked
<1>3. Sound(pet')
  BY <1>1, <1>2, StartStep
<1>4. ~(pet.hibernating \/ pet.phase = "Gone")
  BY <1>1, <1>2 DEF CanStart, Ready, Alive
<1> QED
  BY <1>1, <1>3, <1>4 DEF Inv, Frozen

LEMMA SleepStarts ==
  ASSUME Inv, Sleep
  PROVE  Inv' /\ Frozen
<1>1. PICK p \in {Update(pet, now)} :
        /\ game = None /\ ~p.hibernating /\ Alive(p)
        /\ pet' = [p EXCEPT !.is_sleeping = TRUE]
        /\ now' = now /\ game' = game
  BY DEF Sleep, Activate
<1>2. /\ Sound(p) /\ p.hibernating = pet.hibernating
      /\ pet.hibernating \/ pet.phase = "Gone" => p.phase = pet.phase
  BY <1>1, Looked
<1>3. Sound(pet')
  BY <1>1, <1>2, FlagSteps
<1>4. ~(pet.hibernating \/ pet.phase = "Gone")
  BY <1>1, <1>2 DEF Alive
<1> QED
  BY <1>1, <1>3, <1>4 DEF Inv, Frozen

LEMMA WinterStarts ==
  ASSUME Inv, Hibernate
  PROVE  Inv' /\ Frozen
<1>1. PICK p \in {Update(pet, now)} :
        /\ game = None /\ ~p.hibernating /\ p.phase # "Gone"
        /\ pet' = [p EXCEPT !.hibernating = TRUE]
        /\ now' = now /\ game' = game
  BY DEF Hibernate, Activate
<1>2. /\ Sound(p) /\ p.hibernating = pet.hibernating
      /\ pet.hibernating \/ pet.phase = "Gone" => p.phase = pet.phase
  BY <1>1, Looked
<1>3. Sound(pet')
  BY <1>1, <1>2, FlagSteps
<1>4. ~(pet.hibernating \/ pet.phase = "Gone")
  BY <1>1, <1>2
<1> QED
  BY <1>1, <1>3, <1>4 DEF Inv, Frozen

LEMMA WinterEnds ==
  ASSUME Inv, WakeFromHibernation
  PROVE  Inv' /\ Frozen
<1>1. PICK p \in {Update(pet, now)} :
        /\ game = None /\ p.hibernating
        /\ pet' = [p EXCEPT !.hibernating = FALSE]
        /\ now' = now /\ game' = game
  BY DEF WakeFromHibernation, Activate
<1>2. /\ Sound(p) /\ p.hibernating = pet.hibernating
      /\ pet.hibernating \/ pet.phase = "Gone" => Still(pet, p)
  BY <1>1, Looked
<1>3. Sound(pet') /\ Still(p, pet')
  BY <1>1, <1>2, FlagSteps
<1>4. Still(pet, pet')
  BY <1>1, <1>2, <1>3, StillTrans DEF Inv
<1> QED
  BY <1>1, <1>3, <1>4 DEF Inv, Frozen

LEMMA ChallengeFights ==
  ASSUME Inv, NEW won \in BOOLEAN, Challenge(won)
  PROVE  Inv' /\ Frozen
<1>1. PICK p \in {Update(pet, now)} :
        /\ game = None /\ ~p.hibernating /\ Ready(p, "battle")
        /\ pet' = RecordBattle(p, won)
        /\ now' = now /\ game' = game
  BY DEF Challenge, Activate
<1>2. /\ Sound(p) /\ p.hibernating = pet.hibernating
      /\ pet.hibernating \/ pet.phase = "Gone" => p.phase = pet.phase
  BY <1>1, Looked
<1>3. Sound(pet')
  BY <1>1, <1>2, BattleStep
<1>4. ~(pet.hibernating \/ pet.phase = "Gone")
  BY <1>1, <1>2 DEF Ready, Alive
<1> QED
  BY <1>1, <1>3, <1>4 DEF Inv, Frozen

LEMMA CheatCheats ==
  ASSUME Inv, NEW kind \in Cheats, DebugCheat(kind)
  PROVE  Inv' /\ Frozen
<1>1. PICK p \in {Update(pet, now)} :
        /\ game = None /\ ~p.hibernating /\ pet' = Cheat(p, kind)
        /\ now' = now /\ game' = game
  BY DEF DebugCheat, Activate
<1>2. /\ Sound(p) /\ p.hibernating = pet.hibernating
      /\ pet.hibernating \/ pet.phase = "Gone" => Still(pet, p) /\ p.phase = pet.phase
  BY <1>1, Looked
<1>3. Sound(pet') /\ (p.phase = "Gone" => Still(p, pet'))
  BY <1>1, <1>2, CheatStep
<1>4. pet.hibernating \/ pet.phase = "Gone" => Still(pet, pet')
  BY <1>1, <1>2, <1>3, StillTrans DEF Inv
<1> QED
  BY <1>1, <1>3, <1>4 DEF Inv, Frozen

LEMMA GameOpens ==
  ASSUME Inv, NEW g \in MiniGames, OpenGame(g)
  PROVE  Inv' /\ Frozen
<1>1. PICK p \in {Update(pet, now)} :
        /\ ~p.hibernating /\ Ready(p, g) /\ pet' = p
        /\ now' = now /\ game' = g
  BY DEF OpenGame, Activate
<1>2. /\ Sound(p) /\ p.hibernating = pet.hibernating
      /\ pet.hibernating \/ pet.phase = "Gone" => p.phase = pet.phase
  BY <1>1, Looked
<1>3. ~(pet.hibernating \/ pet.phase = "Gone")
  BY <1>1, <1>2 DEF Ready, Alive
<1>4. p.cooldown[g] = 0
  BY <1>1 DEF Ready
<1> QED
  BY <1>1, <1>2, <1>3, <1>4 DEF Inv, Frozen

LEMMA GameCloses ==
  ASSUME Inv, NEW won \in BOOLEAN, CloseGame(won)
  PROVE  Inv' /\ Frozen
<1>1. /\ game \in MiniGames /\ ~pet.hibernating /\ Sound(pet)
      /\ pet' = pet \/ pet' = AwardInspiration(pet, game)
      /\ game' = None /\ now' = now
  BY DEF Inv, CloseGame
<1>2. Sound(pet') /\ (pet.phase = "Gone" => pet' = pet)
  BY <1>1, AwardStep
<1>3. pet.phase = "Gone" => Still(pet, pet')
  <2>1. pet \in GameState
    BY DEF Inv, Sound
  <2>2. pet.miserable <= pet.miserable
    BY <2>1, Fields DEF Stat
  <2> QED
    BY <1>2, <2>1, <2>2, StillStats
<1> QED
  BY <1>1, <1>2, <1>3 DEF Inv, Frozen

LEMMA MeshMoves ==
  ASSUME Inv, NEW flag \in BOOLEAN, OnBattleResult(flag) \/ OnPetBeacon(flag)
  PROVE  Inv' /\ Frozen
<1>1. /\ Sound(pet) /\ game' = game /\ now' = now
      /\ pet' = RecordBattle(pet, flag) \/ pet' = FriendBoost(pet, flag)
  BY DEF Inv, OnBattleResult, OnPetBeacon
<1>2. /\ Sound(pet') /\ Still(pet, pet') /\ pet'.hibernating = pet.hibernating
      /\ \A c \in MiniGames : pet'.cooldown[c] = pet.cooldown[c]
  BY <1>1, BattleStep, BoostStep
<1> QED
  BY <1>1, <1>2 DEF Inv, Frozen

LEMMA StationServes ==
  ASSUME Inv, NEW stat \in Primary, Station(stat)
  PROVE  Inv' /\ Frozen
<1>1. /\ Sound(pet) /\ game' = game /\ now' = now /\ pet.phase # "Gone"
      /\ pet' = [pet EXCEPT ![stat] = 0]
  BY DEF Inv, Station
<1>2. /\ Sound(pet') /\ Still(pet, pet') /\ pet'.hibernating = pet.hibernating
      /\ pet'.cooldown = pet.cooldown
  BY <1>1, StationStep
<1> QED
  BY <1>1, <1>2 DEF Inv, Frozen

LEMMA EggLaid ==
  ASSUME Inv, NEW traits \in Traits, NEW enabled \in BOOLEAN, NEW hard \in BOOLEAN,
         NewGeneration(traits, enabled, hard)
  PROVE  Inv' /\ Frozen
<1>1. /\ game = None /\ game' = None /\ now' = now /\ now \in Nat /\ pet.generation \in Nat
      /\ pet' = Egg(traits, enabled, hard, pet.generation + 1, now)
  BY Fields DEF Inv, Sound, NewGeneration
<1>2. pet.generation + 1 \in Nat /\ pet.generation + 1 # pet.generation
  BY <1>1
<1>3. Sound(pet')
  BY <1>1, <1>2, EggStep
<1>4. pet'.generation = pet.generation + 1
  BY <1>1 DEF Egg
<1> QED
  BY <1>1, <1>2, <1>3, <1>4 DEF Inv, Frozen

LEMMA NextStep ==
  ASSUME Inv, Next
  PROVE  Inv' /\ Frozen
<1>1. ASSUME NEW dt \in Gaps, Elapse(dt) PROVE Inv' /\ Frozen
  BY <1>1, TimePasses
<1>2. CASE Cycle
  BY <1>2, CycleLooks
<1>3. ASSUME NEW action \in Actions, NEW item \in Items(action), StartAction(action, item)
      PROVE  Inv' /\ Frozen
  BY <1>3, StartStarts
<1>4. CASE Sleep
  BY <1>4, SleepStarts
<1>5. CASE Hibernate
  BY <1>5, WinterStarts
<1>6. CASE WakeFromHibernation
  BY <1>6, WinterEnds
<1>7. ASSUME NEW won \in BOOLEAN, Challenge(won) PROVE Inv' /\ Frozen
  BY <1>7, ChallengeFights
<1>8. ASSUME NEW kind \in Cheats, DebugCheat(kind) PROVE Inv' /\ Frozen
  BY <1>8, CheatCheats
<1>9. ASSUME NEW g \in MiniGames, OpenGame(g) PROVE Inv' /\ Frozen
  BY <1>9, GameOpens
<1>10. ASSUME NEW won \in BOOLEAN, CloseGame(won) PROVE Inv' /\ Frozen
  BY <1>10, GameCloses
<1>11. ASSUME NEW flag \in BOOLEAN, OnBattleResult(flag) \/ OnPetBeacon(flag)
       PROVE  Inv' /\ Frozen
  BY <1>11, MeshMoves
<1>12. ASSUME NEW stat \in Primary, Station(stat) PROVE Inv' /\ Frozen
  BY <1>12, StationServes
<1>13. ASSUME NEW traits \in Traits, NEW enabled \in BOOLEAN, NEW hard \in BOOLEAN,
              NewGeneration(traits, enabled, hard)
       PROVE  Inv' /\ Frozen
  BY <1>13, EggLaid
<1> HIDE DEF Frozen
<1> QED
  BY <1>1, <1>2, <1>3, <1>4, <1>5, <1>6, <1>7, <1>8, <1>9, <1>10, <1>11, <1>12, <1>13 DEF Next

LEMMA StutterStep ==
  ASSUME Inv, UNCHANGED vars
  PROVE  Inv'
BY DEF Inv, vars

(* In every reachable state the pet is one GameState allows, its countdown *)
(* and its action agree with its phase, and a mini-game on screen is due   *)
(* (all handlers of engine/mod.rs, modal.rs, station.rs and battle.rs).    *)
THEOREM PetInvariant == Spec => []Inv
<1>1. Inv /\ [Next]_vars => Inv'
  BY NextStep, StutterStep
<1> QED
  BY InitInv, <1>1, PTL DEF Spec

(* A pet leaves when as many stats as are maxed have lasted their          *)
(* threshold, not before, and no countdown runs for an egg or an Active    *)
(* pet (check_leaving(), engine/mod.rs:1091, at the end of each segment).  *)
THEOREM LeavesWhenDue == Spec => []LeavesOnlyWhenDue
<1>1. Inv => LeavesOnlyWhenDue
  BY DEF Inv, Sound, LeavesOnlyWhenDue
<1> QED
  BY PetInvariant, <1>1, PTL

(* A mini-game on screen has not paid since its cooldown ran out, so that  *)
(* closing it cannot pay twice within one cooldown (modal.rs opens it,     *)
(* award_inspiration(), engine/mod.rs:1370, pays).                         *)
THEOREM RewardedOnce == Spec => []OneRewardPerCooldown
<1>1. Inv => OneRewardPerCooldown
  BY DEF Inv, OneRewardPerCooldown
<1> QED
  BY PetInvariant, <1>1, PTL

(* Hibernation and the end both stop the clock: until the next egg no step *)
(* moves what only time or an action moves, and no stat gets worse         *)
(* (update(), engine/mod.rs:540, hibernate(), wake_from_hibernation()).    *)
THEOREM StaysFrozen == Spec => FrozenStaysFrozen
<1> DEFINE Calm == (pet.hibernating \/ pet.phase = "Gone")
                   /\ pet'.generation = pet.generation
                   => /\ Clockwork(pet') = Clockwork(pet)
                      /\ \A s \in Primary \cup {"miserable"} : pet'[s] <= pet[s]
<1>1. Inv /\ [Next]_vars => [Calm]_vars
  BY NextStep DEF Frozen, Still
<1> QED
  BY PetInvariant, <1>1, PTL DEF Spec, FrozenStaysFrozen

-----------------------------------------------------------------------------
(* Looking twice.                                                          *)

LEMMA EffectType ==
  ASSUME NEW p \in GameState, NEW n \in Nat
  PROVE  WeightAfter(p, n) \in Stat /\ DrunkAfter(p, n) \in Stat
BY EffectStep, Fields DEF ActedOn

LEMMA EffectTwice ==
  ASSUME NEW p \in GameState, NEW q \in GameState, NEW x \in Nat, NEW y \in Nat,
         q.active_action = p.active_action, q.active_food = p.active_food,
         q.active_drink = p.active_drink,
         q.weight = WeightAfter(p, x), q.drunk = DrunkAfter(p, x)
  PROVE  WeightAfter(q, y) = WeightAfter(p, x + y) /\ DrunkAfter(q, y) = DrunkAfter(p, x + y)
<1> DEFINE a == p.active_action
<1>1. FoodOf(q) = FoodOf(p) /\ DrinkOf(q) = DrinkOf(p)
  BY DEF FoodOf, DrinkOf
<1>2. /\ FoodOf(p).gain \in Nat /\ DrinkOf(p).gain \in Nat /\ DrinkOf(p).drunk \in Nat
      /\ T.EXERCISE_WEIGHT_RELIEF \in Nat /\ T.OZEMPIC_WEIGHT_RELIEF \in Nat
      /\ p.weight \in Stat /\ p.drunk \in Stat /\ x \in Nat /\ y \in Nat
  BY TablesType, Rates, Fields
<1>2a. ASSUME NEW r \in Nat, NEW v \in Stat
      PROVE  /\ SatAdd(SatAdd(v, MulDt(r, x)), MulDt(r, y)) = SatAdd(v, MulDt(r, x + y))
             /\ SatSub(SatSub(v, MulDt(r, x)), MulDt(r, y)) = SatSub(v, MulDt(r, x + y))
  BY SaturatingTwice
<1>3. WeightAfter(q, y) = WeightAfter(p, x + y)
  <2>1. CASE a = "feed"
    <3>1. WeightAfter(q, y) =
                SatAdd(SatAdd(p.weight, MulDt(FoodOf(p).gain, x)), MulDt(FoodOf(p).gain, y))
      BY <1>1, <2>1 DEF WeightAfter
    <3>2. WeightAfter(p, x + y) = SatAdd(p.weight, MulDt(FoodOf(p).gain, x + y))
      BY <2>1 DEF WeightAfter
    <3>3. SatAdd(SatAdd(p.weight, MulDt(FoodOf(p).gain, x)), MulDt(FoodOf(p).gain, y))
             = SatAdd(p.weight, MulDt(FoodOf(p).gain, x + y))
      BY <1>2, <1>2a
    <3> QED
      BY <3>1, <3>2, <3>3, Zenon
  <2>2. CASE a = "drink"
    <3>1. WeightAfter(q, y) =
                SatAdd(SatAdd(p.weight, MulDt(DrinkOf(p).gain, x)), MulDt(DrinkOf(p).gain, y))
      BY <1>1, <2>2 DEF WeightAfter
    <3>2. WeightAfter(p, x + y) = SatAdd(p.weight, MulDt(DrinkOf(p).gain, x + y))
      BY <2>2 DEF WeightAfter
    <3>3. SatAdd(SatAdd(p.weight, MulDt(DrinkOf(p).gain, x)), MulDt(DrinkOf(p).gain, y))
             = SatAdd(p.weight, MulDt(DrinkOf(p).gain, x + y))
      BY <1>2, <1>2a
    <3> QED
      BY <3>1, <3>2, <3>3, Zenon
  <2>3. CASE a = "exercise"
    <3>1. WeightAfter(q, y) =
                SatSub(SatSub(p.weight, MulDt(T.EXERCISE_WEIGHT_RELIEF, x)),
                       MulDt(T.EXERCISE_WEIGHT_RELIEF, y))
      BY <2>3 DEF WeightAfter
    <3>2. WeightAfter(p, x + y) = SatSub(p.weight, MulDt(T.EXERCISE_WEIGHT_RELIEF, x + y))
      BY <2>3 DEF WeightAfter
    <3>3. SatSub(SatSub(p.weight, MulDt(T.EXERCISE_WEIGHT_RELIEF, x)),
                 MulDt(T.EXERCISE_WEIGHT_RELIEF, y))
             = SatSub(p.weight, MulDt(T.EXERCISE_WEIGHT_RELIEF, x + y))
      BY <1>2, <1>2a
    <3> QED
      BY <3>1, <3>2, <3>3, Zenon
  <2>4. CASE a = "ozempic"
    <3>1. WeightAfter(q, y) =
                SatSub(SatSub(p.weight, MulDt(T.OZEMPIC_WEIGHT_RELIEF, x)),
                       MulDt(T.OZEMPIC_WEIGHT_RELIEF, y))
      BY <2>4 DEF WeightAfter
    <3>2. WeightAfter(p, x + y) = SatSub(p.weight, MulDt(T.OZEMPIC_WEIGHT_RELIEF, x + y))
      BY <2>4 DEF WeightAfter
    <3>3. SatSub(SatSub(p.weight, MulDt(T.OZEMPIC_WEIGHT_RELIEF, x)),
                 MulDt(T.OZEMPIC_WEIGHT_RELIEF, y))
             = SatSub(p.weight, MulDt(T.OZEMPIC_WEIGHT_RELIEF, x + y))
      BY <1>2, <1>2a
    <3> QED
      BY <3>1, <3>2, <3>3, Zenon
  <2>5. CASE a \notin {"feed", "drink", "exercise", "ozempic"}
    BY <2>5 DEF WeightAfter
  <2> QED
    BY <2>1, <2>2, <2>3, <2>4, <2>5
<1>4. DrunkAfter(q, y) = DrunkAfter(p, x + y)
  <2>1. CASE a = "drink"
    <3>1. DrunkAfter(q, y) =
                SatAdd(SatAdd(p.drunk, MulDt(DrinkOf(p).drunk, x)), MulDt(DrinkOf(p).drunk, y))
      BY <1>1, <2>1 DEF DrunkAfter
    <3>2. DrunkAfter(p, x + y) = SatAdd(p.drunk, MulDt(DrinkOf(p).drunk, x + y))
      BY <2>1 DEF DrunkAfter
    <3>3. SatAdd(SatAdd(p.drunk, MulDt(DrinkOf(p).drunk, x)), MulDt(DrinkOf(p).drunk, y))
             = SatAdd(p.drunk, MulDt(DrinkOf(p).drunk, x + y))
      BY <1>2, <1>2a
    <3> QED
      BY <3>1, <3>2, <3>3, Zenon
  <2>2. CASE a # "drink"
    BY <2>2 DEF DrunkAfter
  <2> QED
    BY <2>1, <2>2
<1> QED
  BY <1>3, <1>4

(* The numbers of two looks, k ticks and then the rest, at a pet that was  *)
(* still there at the first one.                                           *)
Later(p, q, n) == \E m \in Nat : Brought(p, q, n, m)

LEMMA BroughtTwice ==
  ASSUME NEW p \in GameState, NEW k \in Nat \ {0}, NEW n \in Nat, k < n,
         NEW once, NEW mid, NEW twice,
         Later(p, once, n), Later(p, mid, k), Later(mid, twice, n - k),
         once.phase # "Gone", mid.phase # "Gone", twice.phase # "Gone"
  PROVE  Timekeeping(once) = Timekeeping(twice)
<1>0. PICK m1 \in Nat, m0 \in Nat, m2 \in Nat :
        Brought(p, once, n, m1) /\ Brought(p, mid, k, m0) /\ Brought(mid, twice, n - k, m2)
  BY DEF Later
<1> USE <1>0
<1> DEFINE R == p.action_ticks_remaining
<1>1. /\ R \in Nat /\ p.cooldown \in [Timers -> Nat] /\ mid \in GameState
      /\ n - k \in Nat \ {0} /\ once \in GameState /\ twice \in GameState
      /\ p.age_ticks \in Nat /\ p.active_action \in Actions \cup {None}
      /\ T.WEIGHT_RATE \in Nat /\ T.DRUNK_SOBER_RATE \in Nat
  BY Fields, Rates DEF Brought
<1>2. /\ m1 = n - ActionTicks(p, n) /\ m0 = k - ActionTicks(p, k)
      /\ m2 = (n - k) - ActionTicks(mid, n - k)
  BY DEF Brought
<1>3. once.age_ticks = twice.age_ticks /\ once.hibernate_ticks = twice.hibernate_ticks
  <2>1. /\ once.age_ticks = p.age_ticks + n /\ mid.age_ticks = p.age_ticks + k
        /\ twice.age_ticks = mid.age_ticks + (n - k)
    BY DEF Brought
  <2>2. once.hibernate_ticks = twice.hibernate_ticks
    BY DEF Brought
  <2> QED
    BY <1>1, <2>1, <2>2
<1> SUFFICES /\ once.active_action = twice.active_action
             /\ once.action_ticks_remaining = twice.action_ticks_remaining
             /\ \A c \in Timers : once.cooldown[c] = twice.cooldown[c]
             /\ once.weight = twice.weight /\ once.drunk = twice.drunk /\ once.money = twice.money
  <2>1. once.cooldown \in [Timers -> Nat] /\ twice.cooldown \in [Timers -> Nat]
    BY <1>1, Fields
  <2>2. (\A c \in Timers : once.cooldown[c] = twice.cooldown[c]) => once.cooldown = twice.cooldown
    BY <2>1
  <2> QED
    BY <1>3, <2>2 DEF Timekeeping
<1>4. /\ ActionTicks(p, n) \in Nat /\ ActionTicks(p, k) \in Nat /\ ActionTicks(p, k) <= k
      /\ p.active_action = None => ActionTicks(p, n) = 0 /\ ActionTicks(p, k) = 0
      /\ p.active_action # None =>
           /\ ActionTicks(p, n) = IF R <= n THEN R ELSE n
           /\ ActionTicks(p, k) = IF R <= k THEN R ELSE k
  BY <1>1, ActionTicksValue DEF Over
<1>5. /\ ActionTicks(mid, n - k) \in Nat
      /\ mid.active_action = None => ActionTicks(mid, n - k) = 0 /\ ~Over(mid, n - k)
      /\ mid.active_action # None =>
           ActionTicks(mid, n - k) = IF mid.action_ticks_remaining <= n - k
                                     THEN mid.action_ticks_remaining ELSE n - k
  <2>1. n - k \in Nat
    BY <1>1
  <2> QED
    BY <1>1, <2>1, ActionTicksValue DEF Over
<1>6. \A c \in Timers : CooldownsAfter(p, n)[c] \in Nat /\ CooldownsAfter(p, k)[c] \in Nat
  <2>1. p.active_action # None => CooldownAfter(p) \in Nat
    BY <1>1, Constants DEF CooldownAfter, Actions
  <2> QED
    BY <1>1, <2>1 DEF CooldownsAfter, Over
<1>7. CASE mid.active_action = None
  <2> DEFINE b == ActionTicks(p, k)
  <2>1. p.active_action = None \/ Over(p, k)
    BY <1>7 DEF Brought
  <2>2. /\ Over(p, n) = Over(p, k) /\ ActionTicks(p, n) = b
        /\ ActionTicks(mid, n - k) = 0 /\ ~Over(mid, n - k)
    BY <1>1, <1>4, <1>5, <1>7, <2>1 DEF Over
  <2>3. CooldownsAfter(p, n) = CooldownsAfter(p, k) /\ CooldownsAfter(mid, n - k) = mid.cooldown
    BY <2>2 DEF CooldownsAfter
  <2>4. /\ WeightAfter(mid, ActionTicks(mid, n - k)) = mid.weight
        /\ DrunkAfter(mid, ActionTicks(mid, n - k)) = mid.drunk
    BY <1>7 DEF WeightAfter, DrunkAfter, None
  <2>5. b \in Nat /\ m1 = n - b /\ m0 = k - b /\ m2 = n - k /\ m0 + m2 = m1
    BY <1>1, <1>2, <1>4, <2>2
  <2> HIDE DEF b
  <2>6. ASSUME NEW c \in Timers PROVE once.cooldown[c] = twice.cooldown[c]
    <3> DEFINE x == CooldownsAfter(p, k)[c]
    <3>1. /\ once.cooldown[c] = SatSub(x, m1) /\ mid.cooldown[c] = SatSub(x, m0)
          /\ twice.cooldown[c] = SatSub(mid.cooldown[c], m2)
      BY <2>3 DEF Brought
    <3>2. x \in Nat
      BY <1>6
    <3> HIDE DEF x
    <3> QED
      BY <2>5, <3>1, <3>2, Additive
  <2>7. once.weight = twice.weight /\ once.drunk = twice.drunk
    <3> DEFINE w == WeightAfter(p, b)
               d == DrunkAfter(p, b)
    <3>1. w \in Stat /\ d \in Stat
      BY <2>5, EffectType
    <3>2. /\ once.weight = SatAdd(w, MulDt(T.WEIGHT_RATE, m1))
          /\ mid.weight = SatAdd(w, MulDt(T.WEIGHT_RATE, m0))
          /\ twice.weight = SatAdd(mid.weight, MulDt(T.WEIGHT_RATE, m2))
      BY <2>2, <2>4 DEF Brought, b
    <3>3. /\ once.drunk = SatSub(d, MulDt(T.DRUNK_SOBER_RATE, m1))
          /\ mid.drunk = SatSub(d, MulDt(T.DRUNK_SOBER_RATE, m0))
          /\ twice.drunk = SatSub(mid.drunk, MulDt(T.DRUNK_SOBER_RATE, m2))
      BY <2>2, <2>4 DEF Brought, b
    <3> HIDE DEF w, d
    <3>4. \A r \in Nat, v \in Stat :
            /\ SatAdd(SatAdd(v, MulDt(r, m0)), MulDt(r, m2)) = SatAdd(v, MulDt(r, m0 + m2))
            /\ SatSub(SatSub(v, MulDt(r, m0)), MulDt(r, m2)) = SatSub(v, MulDt(r, m0 + m2))
      BY SaturatingTwice
    <3> QED
      BY <1>1, <2>5, <3>1, <3>2, <3>3, <3>4
  <2>8. /\ once.active_action = twice.active_action /\ once.money = twice.money
        /\ once.action_ticks_remaining = twice.action_ticks_remaining
    <3>1. /\ twice.active_action = None /\ twice.money = mid.money
          /\ twice.action_ticks_remaining = mid.action_ticks_remaining - 0
      BY <1>7, <2>2 DEF Brought
    <3>2. mid.action_ticks_remaining - 0 = mid.action_ticks_remaining
      BY <1>1, Fields
    <3>3. CASE Over(p, k)
      BY <2>2, <3>1, <3>2, <3>3 DEF Brought
    <3>4. CASE ~Over(p, k)
      <4>1. p.active_action = None
        BY <2>1, <3>4
      <4>2. /\ once.active_action = None /\ once.money = p.money
            /\ once.action_ticks_remaining = R - b
        BY <2>2, <3>4, <4>1 DEF Brought
      <4>3. mid.money = p.money /\ mid.action_ticks_remaining = R - b
        BY <3>4 DEF Brought, b
      <4> QED
        BY <3>1, <3>2, <4>2, <4>3
    <3> QED
      BY <3>3, <3>4
  <2> QED
    BY <2>6, <2>7, <2>8
<1>8. CASE mid.active_action # None
  <2>1. ~Over(p, k) /\ p.active_action # None /\ mid.active_action = p.active_action
    BY <1>8 DEF Brought
  <2>2. R > k /\ ActionTicks(p, k) = k /\ m0 = 0
    BY <1>1, <1>2, <1>4, <2>1 DEF Over
  <2>3. /\ mid.action_ticks_remaining = R - k /\ mid.money = p.money
        /\ mid.active_food = p.active_food /\ mid.active_drink = p.active_drink
        /\ mid.money_enabled = p.money_enabled
    BY <2>1, <2>2 DEF Brought
  <2>4. mid.cooldown = p.cooldown
    <3>1. mid.cooldown \in [Timers -> Nat]
      BY <1>1, Fields
    <3>2. \A c \in Timers : mid.cooldown[c] = p.cooldown[c]
      <4>1. \A c \in Timers : mid.cooldown[c] = SatSub(p.cooldown[c], 0)
        BY <2>1, <2>2 DEF Brought, CooldownsAfter
      <4> QED
        BY <1>1, <4>1, Additive
    <3> QED
      BY <1>1, <3>1, <3>2
  <2>5. mid.weight = WeightAfter(p, k) /\ mid.drunk = DrunkAfter(p, k)
    <3>1. /\ mid.weight = SatAdd(WeightAfter(p, k), MulDt(T.WEIGHT_RATE, 0))
          /\ mid.drunk = SatSub(DrunkAfter(p, k), MulDt(T.DRUNK_SOBER_RATE, 0))
      BY <2>2 DEF Brought
    <3>2. WeightAfter(p, k) \in Stat /\ DrunkAfter(p, k) \in Stat
      BY EffectType
    <3>3. MulDt(T.WEIGHT_RATE, 0) = 0 /\ MulDt(T.DRUNK_SOBER_RATE, 0) = 0
      BY <1>1, Additive
    <3> QED
      BY <3>1, <3>2, <3>3, Additive
  <2> DEFINE b2 == ActionTicks(mid, n - k)
  <2>6. /\ Over(mid, n - k) = Over(p, n) /\ b2 \in Nat /\ ActionTicks(p, n) = k + b2
        /\ m2 = m1
    BY <1>1, <1>2, <1>4, <1>5, <1>8, <2>1, <2>2, <2>3 DEF Over
  <2>7. /\ CooldownsAfter(mid, n - k) = CooldownsAfter(p, n) /\ MoneyAfter(mid) = MoneyAfter(p)
    BY <2>1, <2>3, <2>4, <2>6 DEF CooldownsAfter, CooldownAfter, MoneyAfter
  <2>8. /\ WeightAfter(mid, b2) = WeightAfter(p, ActionTicks(p, n))
        /\ DrunkAfter(mid, b2) = DrunkAfter(p, ActionTicks(p, n))
    <3> HIDE DEF b2
    <3>1. k \in Nat
      OBVIOUS
    <3>2. WeightAfter(mid, b2) = WeightAfter(p, k + b2) /\ DrunkAfter(mid, b2) =
                DrunkAfter(p, k + b2)
      BY <1>1, <2>1, <2>3, <2>5, <2>6, <3>1, EffectTwice
    <3> QED
      BY <2>6, <3>2
  <2>9. \A c \in Timers : once.cooldown[c] = twice.cooldown[c]
    BY <2>6, <2>7 DEF Brought
  <2>10. once.weight = twice.weight /\ once.drunk = twice.drunk
    BY <2>6, <2>8 DEF Brought
  <2>11. /\ once.active_action = twice.active_action /\ once.money = twice.money
         /\ once.action_ticks_remaining = twice.action_ticks_remaining
    <3>1. CASE Over(p, n)
      BY <2>6, <2>7, <3>1 DEF Brought
    <3>2. CASE ~Over(p, n)
      <4>1. /\ once.active_action = p.active_action /\ once.money = p.money
            /\ once.action_ticks_remaining = R - ActionTicks(p, n)
        BY <3>2 DEF Brought
      <4>2. /\ twice.active_action = mid.active_action /\ twice.money = mid.money
            /\ twice.action_ticks_remaining = mid.action_ticks_remaining - b2
        BY <2>6, <3>2 DEF Brought
      <4> HIDE DEF b2
      <4>3. R - ActionTicks(p, n) = (R - k) - b2
        BY <1>1, <2>6
      <4> QED
        BY <2>1, <2>3, <4>1, <4>2, <4>3
    <3> QED
      BY <3>1, <3>2
  <2> QED
    BY <2>9, <2>10, <2>11
<1> QED
  BY <1>7, <1>8

(* A look in between leaves no trace in what a pet that stays has been     *)
(* through: one update() of a whole gap and two of its parts agree on age, *)
(* sleep, action, cooldowns, weight, drunkenness and money                 *)
(* (engine/mod.rs:540-607, called with every drawing).                     *)
THEOREM LooksDoNotMatter == Spec => []LookingChangesNothing
<1>1. ASSUME Inv, Alive(pet), NEW n \in Gaps, NEW k \in Gaps, k < n,
             NEW once, NEW twice,
             once = Update(pet, pet.last_update_tick + n),
             twice = Update(Update(pet, pet.last_update_tick + k), pet.last_update_tick + n),
             once.phase # "Gone", twice.phase # "Gone"
      PROVE  Timekeeping(once) = Timekeeping(twice)
  <2> DEFINE first == pet.last_update_tick + k
             last == pet.last_update_tick + n
             mid == Update(pet, first)
  <2>1. /\ Sound(pet) /\ pet \in GameState /\ n \in Nat \ {0} /\ k \in Nat \ {0}
        /\ pet.last_update_tick \in Nat /\ pet.hibernate_ticks \in Nat
    BY <1>1, InputsSound, Fields DEF Inv, Sound
  <2>2. /\ first \in Nat /\ last \in Nat /\ first > pet.last_update_tick
        /\ last > pet.last_update_tick
        /\ first - pet.last_update_tick = k /\ last - pet.last_update_tick = n
        /\ last > first /\ last - first = n - k
    BY <1>1, <2>1
  <2>3. CASE pet.hibernating
    <3> DEFINE s0 == pet.hibernate_ticks + k
               s1 == pet.hibernate_ticks + n
               s2 == mid.hibernate_ticks + (n - k)
    <3>1. s0 \in Nat /\ s1 \in Nat /\ s0 + (n - k) = s1
      BY <1>1, <2>1
    <3>2. once = [pet EXCEPT !.last_update_tick = last, !.hibernate_ticks = s1]
      BY <1>1, <2>1, <2>2, <2>3, UpdateFrozen
    <3>3. mid = [pet EXCEPT !.last_update_tick = first, !.hibernate_ticks = s0]
      BY <2>1, <2>2, <2>3, UpdateFrozen
    <3> HIDE DEF mid, first, last
    <3>4. /\ mid \in GameState /\ mid.hibernating /\ mid.last_update_tick = first
          /\ mid.hibernate_ticks = s0
      <4> HIDE DEF s0
      <4> QED
        BY <2>1, <2>2, <2>3, <3>1, <3>3 DEF GameState
    <3>5. twice = [mid EXCEPT !.last_update_tick = last, !.hibernate_ticks = s2]
      <4>1. twice = Update(mid, last)
        BY <1>1 DEF mid, first, last
      <4>2. twice = [mid EXCEPT
                       !.last_update_tick = last,
                       !.hibernate_ticks = mid.hibernate_ticks + (last - mid.last_update_tick)]
        BY <2>2, <3>4, <4>1, UpdateFrozen
      <4>3. last - mid.last_update_tick = n - k
        BY <2>2, <3>4
      <4> QED
        BY <4>2, <4>3
    <3>6. s2 = s1
      BY <3>1, <3>4
    <3> HIDE DEF s0, s1, s2
    <3> QED
      BY <2>1, <3>2, <3>3, <3>5, <3>6 DEF GameState, Timekeeping
  <2>4. CASE ~pet.hibernating
    <3>1. Later(pet, once, n)
      BY <1>1, <2>1, <2>2, <2>4, UpdateAlive DEF Sound, Later
    <3>2. Later(pet, mid, k)
      BY <1>1, <2>1, <2>2, <2>4, UpdateAlive DEF Sound, Later
    <3>3. twice = Update(mid, last)
      BY <1>1
    <3>4. Sound(mid) /\ ~mid.hibernating
      BY <2>1, <2>2, <2>4, UpdateSound
    <3> HIDE DEF mid, first, last
    <3>5. mid.phase # "Gone"
      BY <1>1, <2>2, <3>3, <3>4, UpdateStill
    <3>6. Alive(mid) /\ mid.last_update_tick = first /\ mid \in GameState
      <4>1. mid.phase # "Hatching" /\ mid \in GameState /\ mid.last_update_tick =
                  pet.last_update_tick + k
        BY <3>2 DEF Brought, Later
      <4>2. mid.phase \in Phases
        BY <4>1, Fields
      <4> QED
        BY <3>5, <4>1, <4>2 DEF Alive, Phases, first
    <3>7. Later(mid, twice, n - k)
      BY <2>2, <3>3, <3>4, <3>6, UpdateAlive DEF Sound, Later
    <3>8. /\ k \in Nat \ {0} /\ n \in Nat /\ pet \in GameState
          /\ k < n /\ once.phase # "Gone" /\ twice.phase # "Gone"
      BY <1>1, <2>1
    <3>9. ASSUME NEW x, NEW p, p = pet, Later(p, once, n), Later(p, x, k), Later(x, twice, n - k),
                 x.phase # "Gone"
          PROVE  Timekeeping(once) = Timekeeping(twice)
      <4>1. p \in GameState
        BY <3>8, <3>9
      <4> HIDE DEF mid
      <4> QED
        BY ONLY <3>8, <3>9, <4>1, BroughtTwice
    <3> QED
      BY <3>1, <3>2, <3>5, <3>7, <3>9
  <2> QED
    BY <2>3, <2>4
<1>2. Inv => LookingChangesNothing
  BY <1>1 DEF LookingChangesNothing
<1> QED
  BY PetInvariant, <1>2, PTL

-----------------------------------------------------------------------------
(* Only pets.                                                              *)

(* Once the action and the longest Only-pets afterglow have run out, a pet *)
(* that is still there can start Only pets, however poor (stats() and      *)
(* can_afford(), engine/mod.rs:1722 and 1882).                             *)
THEOREM WorkIsAlwaysThere == Spec => []BrokeCanAlwaysWork
<1>1. ASSUME Inv, Alive(pet), ~pet.hibernating, ~pet.is_sleeping,
             NEW q, q = Update(pet, pet.last_update_tick + pet.action_ticks_remaining
                                       + T.COOLDOWN["play"]),
             q.phase # "Gone"
      PROVE  CanStart(q, "onlypets", None)
  <2> DEFINE R == pet.action_ticks_remaining
             C == T.COOLDOWN["play"]
             n == R + C
             tick == pet.last_update_tick + n
  <2>1. /\ Sound(pet) /\ pet \in GameState /\ R \in Nat /\ C \in Nat
        /\ pet.last_update_tick \in Nat /\ pet.active_action \in Actions \cup {None}
        /\ pet.cooldown \in [Timers -> Nat] /\ "onlypets" \in Timers
    BY <1>1, Constants, Fields DEF Inv, Sound, Timers, Actions
  <2>2. /\ n \in Nat /\ tick \in Nat /\ tick - pet.last_update_tick = n
        /\ q = Update(pet, tick)
    <3>1. pet.last_update_tick + pet.action_ticks_remaining + T.COOLDOWN["play"] = tick
      BY <2>1
    <3> QED
      BY <1>1, <2>1, <3>1
  <2>3. /\ pet.active_action # None => R > 0
        /\ pet.cooldown["onlypets"] <= C
    BY <2>1 DEF Sound, ActionSound
  <2>4. Sound(q) /\ q \in GameState /\ q.money \in Nat /\ q.phase \in Phases
    <3>1. Sound(q)
      BY <2>1, <2>2, UpdateSound
    <3> QED
      BY <3>1, Fields DEF Sound
  <2>5. /\ q.phase # "Hatching" /\ ~q.hibernating /\ ~q.is_sleeping
        /\ q.active_action = None /\ q.cooldown["onlypets"] = 0
    <3>1. CASE n = 0
      <4>1. q = pet
        BY <2>1, <2>2, <3>1, UpdateNothing
      <4>2. R = 0 /\ C = 0
        BY <2>1, <3>1
      <4>3. pet.cooldown["onlypets"] \in Nat
        BY <2>1
      <4> QED
        BY <1>1, <2>3, <4>1, <4>2, <4>3 DEF Alive
    <3>2. CASE n # 0
      <4>1. tick > pet.last_update_tick
        BY <2>1, <2>2, <3>2
      <4> HIDE DEF tick
      <4>2. PICK m \in Nat : Brought(pet, q, n, m)
        BY <1>1, <2>1, <2>2, <4>1, UpdateAlive DEF Sound
      <4>3. q.active_action = None
        <5>1. pet.active_action # None => Over(pet, n)
          BY <2>1 DEF Over
        <5> QED
          BY <4>2, <5>1 DEF Brought
      <4>4. m >= C
        <5>1. m = n - ActionTicks(pet, n)
          BY <1>1, <4>2 DEF Brought
        <5>2. ActionTicks(pet, n) \in Nat /\ ActionTicks(pet, n) <= R
          BY <2>1, <2>2, ActionTicksValue DEF Over
        <5> QED
          BY <2>1, <5>1, <5>2
      <4>5. CooldownsAfter(pet, n)["onlypets"] \in Nat /\ CooldownsAfter(pet, n)["onlypets"] <= C
        <5>1. pet.active_action # None => CooldownAfter(pet) \in Nat
          BY <2>1, Constants DEF CooldownAfter, Actions
        <5> QED
          BY <2>1, <2>3, <5>1 DEF CooldownsAfter, CooldownAfter, Over
      <4>6. q.cooldown["onlypets"] = SatSub(CooldownsAfter(pet, n)["onlypets"], m)
        BY <2>1, <4>2 DEF Brought
      <4>7. q.cooldown["onlypets"] = 0
        <5> DEFINE x == CooldownsAfter(pet, n)["onlypets"]
        <5>1. x \in Nat /\ x <= C /\ q.cooldown["onlypets"] = SatSub(x, m)
          BY <4>5, <4>6
        <5> HIDE DEF x
        <5>2. SatSub(x, m) = IF x >= m THEN x - m ELSE 0
          BY <5>1, SatSubNat
        <5> QED
          BY <2>1, <4>4, <5>1, <5>2
      <4> QED
        BY <1>1, <4>2, <4>3, <4>7 DEF Brought
    <3> QED
      BY <3>1, <3>2
  <2>6. Ready(q, "onlypets")
    BY <1>1, <2>4, <2>5 DEF Ready, Alive, Phases
  <2>7. Affordable(q, "onlypets", None)
    <3>1. HaxPrice(q, "onlypets", None) = 0
      BY DEF HaxPrice
    <3> QED
      BY <2>4, <3>1 DEF Affordable
  <2> QED
    BY <2>5, <2>6, <2>7 DEF CanStart
<1>2. Inv => BrokeCanAlwaysWork
  BY <1>1 DEF BrokeCanAlwaysWork
<1> QED
  BY PetInvariant, <1>2, PTL

-----------------------------------------------------------------------------
(* Waking in time.                                                         *)

(* What next_wake_tick() counts down to, for a pet that has hatched.       *)
WakeSet(p) ==
  LET away(s, rate) == IF p[s] >= SickTrigger(s) \/ rate = 0 THEN {}
                       ELSE {(SickTrigger(s) - p[s]) \div rate}
      maxed == CountMaxed(p)
      fires == (T.MISERABLE_BOOST_THRESHOLD - p.miserable) \div T.MISERABLE_AMOUNT
  IN  UNION {
        {T.MAX_SLEEP_TICKS},
        IF p.active_action = None THEN {} ELSE {p.action_ticks_remaining},
        CooldownsLeft(p, (Actions \ {"onlypets"}) \cup {"battle"}),
        IF p.cooldown["feed"] > 0 THEN {} ELSE away("hunger", HungerRate(p)),
        away("tired", TiredRate(p)),
        IF MiserableHigh(p) \/ p.cooldown["play"] > 0 THEN {}
        ELSE {fires * MiserableInterval(p)},
        IF p.phase # "Leaving" \/ maxed = 0 THEN {}
        ELSE {SatSub(T.LEAVING_THRESHOLDS[maxed], p.leaving_countdown)},
        IF ~p.is_sleeping \/ p.tired = 0 THEN {}
        ELSE {Max({p.tired \div SleepRecovery(p), 1})}}

LEMMA WakeSetType ==
  ASSUME NEW p \in GameState
  PROVE  WakeSet(p) \subseteq Nat /\ T.MAX_SLEEP_TICKS \in WakeSet(p)
<1> DEFINE away(s, rate) == IF p[s] >= SickTrigger(s) \/ rate = 0 THEN {}
                            ELSE {(SickTrigger(s) - p[s]) \div rate}
           maxed == CountMaxed(p)
           fires == (T.MISERABLE_BOOST_THRESHOLD - p.miserable) \div T.MISERABLE_AMOUNT
           W1 == IF p.active_action = None THEN {} ELSE {p.action_ticks_remaining}
           W2 == CooldownsLeft(p, (Actions \ {"onlypets"}) \cup {"battle"})
           W3 == IF p.cooldown["feed"] > 0 THEN {} ELSE away("hunger", HungerRate(p))
           W4 == away("tired", TiredRate(p))
           W5 == IF MiserableHigh(p) \/ p.cooldown["play"] > 0 THEN {}
                 ELSE {fires * MiserableInterval(p)}
           W6 == IF p.phase # "Leaving" \/ maxed = 0 THEN {}
                 ELSE {SatSub(T.LEAVING_THRESHOLDS[maxed], p.leaving_countdown)}
           W7 == IF ~p.is_sleeping \/ p.tired = 0 THEN {}
                 ELSE {Max({p.tired \div SleepRecovery(p), 1})}
<1> HIDE DEF away, maxed, fires, W1, W2, W3, W4, W5, W6, W7
<1>0. /\ p.hunger \in Nat /\ p.tired \in Nat /\ p.miserable \in Nat
      /\ p.leaving_countdown \in Nat /\ p.action_ticks_remaining \in Nat
  BY Fields DEF Stat
<1>1. W1 \subseteq Nat
  BY <1>0 DEF W1
<1>2. W2 \subseteq Nat
  <2>1. \A c \in Actions \cup {"battle"} : p.cooldown[c] \in Nat
    BY Fields DEF Timers
  <2> QED
    BY <2>1 DEF CooldownsLeft, W2
<1>3. ASSUME NEW s \in {"hunger", "tired"}, NEW rate \in Nat PROVE away(s, rate) \subseteq Nat
  <2> DEFINE d == SickTrigger(s) - p[s]
  <2>1. SickTrigger(s) \in Nat /\ p[s] \in Nat
    BY <1>0, Rates DEF SickTrigger
  <2>2. ASSUME ~(p[s] >= SickTrigger(s)), rate # 0 PROVE d \div rate \in Nat
    <3>1. d \in Nat
      BY <2>1, <2>2
    <3> HIDE DEF d
    <3> QED
      BY <2>2, <3>1, Products
  <2> QED
    BY <2>2 DEF away
<1>4. W3 \subseteq Nat /\ W4 \subseteq Nat
  BY <1>3, RateTypes DEF W3, W4
<1>5. W5 \subseteq Nat
  <2> SUFFICES ASSUME ~MiserableHigh(p) PROVE fires * MiserableInterval(p) \in Nat
    BY DEF W5
  <2> DEFINE d == T.MISERABLE_BOOST_THRESHOLD - p.miserable
  <2>1. d \in Nat
    BY <1>0, Rates DEF MiserableHigh
  <2>2. fires = d \div T.MISERABLE_AMOUNT
    BY DEF fires
  <2> HIDE DEF d
  <2>3. fires \in Nat
    BY <2>1, <2>2, Divisors, Products
  <2> QED
    BY <2>3, RateTypes, Products
<1>6. W6 \subseteq Nat
  <2>1. maxed \in 0 .. 3
    BY Maxed DEF maxed
  <2>2. maxed # 0 => T.LEAVING_THRESHOLDS[maxed] \in Nat
    BY <2>1, Constants
  <2> QED
    BY <1>0, <2>2, SatSubNat DEF W6
<1>7. W7 \subseteq Nat
  <2>1. p.tired \div SleepRecovery(p) \in Nat
    BY <1>0, RateTypes, Products
  <2>2. \A a \in Nat : Max({a, 1}) \in Nat
    <3>1. \A a \in Int : Max({a, 1}) = IF a >= 1 THEN a ELSE 1
      BY MinMax
    <3> QED
      BY <3>1
  <2> QED
    BY <2>1, <2>2 DEF W7
<1>8. WakeSet(p) = UNION {{T.MAX_SLEEP_TICKS}, W1, W2, W3, W4, W5, W6, W7}
  BY DEF WakeSet, away, maxed, fires, W1, W2, W3, W4, W5, W6, W7
<1> QED
  BY <1>1, <1>2, <1>4, <1>5, <1>6, <1>7, <1>8, Rates

(* No later than the end of the action and than each cooldown it counts.   *)
LEMMA WakeNoLater ==
  ASSUME NEW p \in GameState, p.phase # "Hatching"
  PROVE  \E w \in Nat :
           /\ NextWake(p) = p.last_update_tick + w
           /\ p.active_action # None => w <= p.action_ticks_remaining
           /\ \A c \in (Actions \ {"onlypets"}) \cup {"battle"} :
                p.cooldown[c] > 0 => w <= p.cooldown[c]
<1> DEFINE w == Min(WakeSet(p))
<1>1. w \in Nat /\ \A e \in WakeSet(p) : w <= e
  <2>1. WakeSet(p) \in SUBSET Nat /\ WakeSet(p) # {}
    BY WakeSetType
  <2> HIDE DEF w
  <2>2. \A S \in SUBSET Nat : S # {} => Min(S) \in S /\ \A y \in S : Min(S) <= y
    BY MinOf
  <2> QED
    BY <2>1, <2>2 DEF w
<1>2. NextWake(p) = p.last_update_tick + w
  BY DEF NextWake, WakeSet
<1>3. p.active_action # None => p.action_ticks_remaining \in WakeSet(p)
  BY DEF WakeSet
<1>4. \A c \in (Actions \ {"onlypets"}) \cup {"battle"} :
        p.cooldown[c] > 0 => p.cooldown[c] \in WakeSet(p)
  BY DEF WakeSet, CooldownsLeft
<1> HIDE DEF w
<1> QED
  BY <1>1, <1>2, <1>3, <1>4

(* The display loop, asleep until next_wake_tick() (engine/mod.rs:1464),   *)
(* does not oversleep: until the tick before it no egg hatches, no action  *)
(* ends and no cooldown it counts runs out.                                *)
THEOREM WokenInTime == Spec => []WakesInTime
<1> DEFINE counted == (Actions \ {"onlypets"}) \cup {"battle"}
<1>1. ASSUME Inv, pet.phase # "Gone", ~pet.hibernating, NEW q, q = Update(pet, NextWake(pet) - 1)
      PROVE  /\ pet.phase = "Hatching" => q.phase = "Hatching" \/ q = pet
             /\ q.active_action = pet.active_action
             /\ q.phase # "Gone" => \A c \in counted : pet.cooldown[c] > 0 => q.cooldown[c] > 0
  <2>1. /\ Sound(pet) /\ pet \in GameState /\ pet.last_update_tick \in Nat
        /\ pet.hatching_countdown \in Nat /\ pet.phase \in Phases
        /\ pet.action_ticks_remaining \in Nat /\ pet.cooldown \in [Timers -> Nat]
        /\ counted \subseteq Timers
    BY <1>1, Fields DEF Inv, Sound, Timers
  <2>2. CASE pet.phase = "Hatching"
    <3> DEFINE h == pet.hatching_countdown
               tick == pet.last_update_tick + h - 1
    <3>1. q = Update(pet, tick)
      <4>1. NextWake(pet) = pet.last_update_tick + h
        BY <2>2 DEF NextWake
      <4>2. NextWake(pet) - 1 = tick
        BY <2>1, <4>1
      <4> HIDE DEF tick
      <4> QED
        BY <1>1, <4>2
    <3>2. tick \in Int
      BY <2>1
    <3>3. CASE h <= 1
      <4>1. tick <= pet.last_update_tick
        BY <2>1, <3>3
      <4>2. q = pet
        BY <2>1, <3>1, <3>2, <4>1, UpdateNothing
      <4> QED
        BY <2>1, <4>2
    <3>4. CASE h > 1
      <4>1. /\ tick > pet.last_update_tick /\ tick \in Nat
            /\ tick - pet.last_update_tick = h - 1 /\ h - 1 \in Nat
        BY <2>1, <3>4
      <4> DEFINE age == pet.age_ticks + (tick - pet.last_update_tick)
                 left == SatSub(h, tick - pet.last_update_tick)
                 phase == IF left = 0 THEN "Active" ELSE "Hatching"
      <4>2. q = [pet EXCEPT !.last_update_tick = tick, !.age_ticks = age,
                            !.hatching_countdown = left, !.phase = phase]
        BY <1>1, <2>1, <2>2, <3>1, <4>1, UpdateEgg
      <4>3. phase = "Hatching"
        <5>1. left = SatSub(h, h - 1)
          BY <4>1
        <5> HIDE DEF left
        <5>2. SatSub(h, h - 1) = IF h >= h - 1 THEN h - (h - 1) ELSE 0
          BY <2>1, <4>1, SatSubNat
        <5>3. left = 1
          BY <2>1, <4>1, <5>1, <5>2
        <5> QED
          BY <5>3
      <4> HIDE DEF tick, age, left, phase
      <4>4. q.phase = "Hatching" /\ q.active_action = pet.active_action /\ q.cooldown = pet.cooldown
        BY <2>1, <4>2, <4>3 DEF GameState
      <4> QED
        BY <4>4
    <3> QED
      BY <2>1, <3>3, <3>4
  <2>3. CASE pet.phase # "Hatching"
    <3>1. Alive(pet)
      BY <1>1, <2>1, <2>3 DEF Alive, Phases
    <3>2. PICK w \in Nat :
            /\ NextWake(pet) = pet.last_update_tick + w
            /\ pet.active_action # None => w <= pet.action_ticks_remaining
            /\ \A c \in counted : pet.cooldown[c] > 0 => w <= pet.cooldown[c]
      BY <2>1, <2>3, WakeNoLater
    <3> DEFINE tick == pet.last_update_tick + w - 1
    <3>3. q = Update(pet, tick) /\ tick \in Int
      BY <1>1, <2>1, <3>2
    <3>4. CASE w <= 1
      <4>1. tick <= pet.last_update_tick
        BY <2>1, <3>4
      <4>2. q = pet
        BY <2>1, <3>3, <4>1, UpdateNothing
      <4> QED
        BY <2>1, <2>3, <4>2
    <3>5. CASE w > 1
      <4>1. /\ tick > pet.last_update_tick /\ tick \in Nat
            /\ tick - pet.last_update_tick = w - 1 /\ w - 1 \in Nat
        BY <2>1, <3>5
      <4> HIDE DEF tick
      <4>2. PICK m \in Nat : Brought(pet, q, w - 1, m)
        BY <1>1, <2>1, <3>1, <3>3, <4>1, UpdateAlive DEF Sound
      <4>3. ~Over(pet, w - 1)
        BY <2>1, <3>2, <3>5 DEF Over
      <4>4. q.active_action = pet.active_action
        BY <4>2, <4>3 DEF Brought
      <4>5. ASSUME NEW c \in counted, pet.cooldown[c] > 0 PROVE q.cooldown[c] > 0
        <5> DEFINE x == pet.cooldown[c]
        <5>1. x \in Nat /\ w <= x
          BY <2>1, <3>2, <4>5
        <5>2. q.cooldown[c] = SatSub(x, m)
          BY <2>1, <4>2, <4>3 DEF Brought, CooldownsAfter
        <5>3. m <= w - 1
          <6>1. m \in 0 .. (w - 1) - ActionTicks(pet, w - 1)
            BY <4>2 DEF Brought
          <6>2. ActionTicks(pet, w - 1) \in Nat
            BY <2>1, <4>1, ActionTicksValue
          <6> QED
            BY <4>1, <6>1, <6>2
        <5> HIDE DEF x
        <5>4. SatSub(x, m) = IF x >= m THEN x - m ELSE 0
          BY <5>1, SatSubNat
        <5> QED
          BY <4>1, <5>1, <5>2, <5>3, <5>4
      <4> QED
        BY <2>3, <4>4, <4>5
    <3> QED
      BY <3>4, <3>5
  <2> QED
    BY <2>2, <2>3
<1>2. Inv => WakesInTime
  BY <1>1 DEF WakesInTime
<1> QED
  BY PetInvariant, <1>2, PTL
=============================================================================
