---------------------------- MODULE MCPetEngine ----------------------------
(* PetEngine with the CLASSIC thresholds the badge ships with. *)
EXTENDS PetEngine, TLC

MCThresholds ==
    [STAT_MAX |-> 65535, HAPPINESS_STEP |-> 19660,
     HUNGER_RATE |-> 9, HUNGER_MISERABLE_BOOST |-> 0,
     TIRED_RATE |-> 14, TIRED_MISERABLE_BOOST |-> 0,
     TIRED_PASSIVE_RECOVERY |-> 655, TIRED_PASSIVE_INTERVAL |-> 120,
     SLEEP_RECOVERY_SLOW |-> 3275, SLEEP_RECOVERY_MEDIUM |-> 6550,
     SLEEP_RECOVERY_FAST |-> 9825, SLEEP_HUNGER_COST |-> 3100,
     SLEEP_TIER_SLOW |-> 49807, SLEEP_TIER_MEDIUM |-> 30145,
     SICK_RATE |-> 1, SICK_CONDITION_RATE |-> 655,
     SICK_CONDITION_MISERABLE_RATE |-> 1310,
     SICK_TRIGGER_HUNGER |-> 39321, SICK_TRIGGER_TIRED |-> 49151,
     MISERABLE_AMOUNT |-> 655, MISERABLE_INTERVAL_BASE |-> 240,
     MISERABLE_INTERVAL_PER_STAT |-> 25, MISERABLE_INTERVAL_MIN |-> 40,
     MISERABLE_STAT_THRESHOLD |-> 39321, MISERABLE_BOOST_THRESHOLD |-> 45874,
     DURATION |-> [feed |-> 2, heal |-> 3, play |-> 4, exercise |-> 3,
                   medicate |-> 2, ozempic |-> 2, drink |-> 2, rehab |-> 3,
                   onlypets |-> 4],
     COOLDOWN |-> [feed |-> 12, heal |-> 24, play |-> 48, exercise |-> 36,
                   medicate |-> 720, ozempic |-> 4320, drink |-> 24,
                   rehab |-> 1440, onlypets |-> 48],
     HEAL_SICK_RELIEF |-> 9825, PLAY_HUNGER_COST |-> 655, PLAY_TIRED_COST |-> 1310,
     MINIGAME_COOLDOWN |-> 18, MINIGAME_HUNGER_COST |-> 3000,
     HATCHING_TICKS |-> 6, LEAVING_THRESHOLDS |-> <<7200, 3600, 1800, 720>>,
     MAX_SLEEP_TICKS |-> 180, WEIGHT_RATE |-> 1,
     OVERWEIGHT_TRIGGER |-> 39321, DIABETES_ONSET_TICKS |-> 25920,
     DIABETES_SICK_RATE |-> 655, DIABETES_SICK_MISERABLE_RATE |-> 1310,
     EXERCISE_WEIGHT_RELIEF |-> 4370, EXERCISE_TIRED_COST |-> 1310,
     EXERCISE_HUNGER_COST |-> 655, OZEMPIC_WEIGHT_RELIEF |-> 13100,
     OZEMPIC_HUNGER_RELIEF |-> 1500, DRUNK_SOBER_RATE |-> 6,
     DRUNK_TRIGGER |-> 39321, ALCOHOLIC_ONSET_TICKS |-> 17280,
     ALCOHOLIC_SICK_RATE |-> 655, ALCOHOLIC_SICK_MISERABLE_RATE |-> 1310,
     BATTLE_COOLDOWN |-> 12]

\* The baseline of each table (3930 relief, 200 gain; 4915 drunk, 655 gain)
\* scaled by the item's percentages.
MCFoods ==
    [apple |-> [relief |-> 3930, gain |-> 200, price |-> (FALSE :> 15 @@ TRUE :> 20)],
     cake |-> [relief |-> 2358, gain |-> 700, price |-> (FALSE :> 10 @@ TRUE :> 10)]]
MCDrinks ==
    [beer |-> [drunk |-> 4915, gain |-> 655, price |-> 10],
     whiskey |-> [drunk |-> 12287, gain |-> 196, price |-> 10]]
MCTraits == {[vitality |-> 30000, curiosity |-> 20000]}

Grown == [Egg(CHOOSE t \in MCTraits : TRUE, TRUE, FALSE, 0, 0)
             EXCEPT !.phase = "Active", !.hatching_countdown = 0]
\* What a save may hold at boot: an egg; a grown pet; one that is broke, tired
\* and near a maxed stat; one neglected over a weekend; a sick
\* one whose alcoholism is under treatment and whose diabetes is not.
MCSaves ==
    {[Egg(t, TRUE, FALSE, 0, 0) EXCEPT !.curiosity = 20000] : t \in MCTraits} \cup
    {Grown,
     [Grown EXCEPT !.money = 5, !.tired = 48000, !.hunger = 65530, !.sick = 30000,
                   !.hard_mode = TRUE, !.age_ticks = 9000],
     [Grown EXCEPT !.phase = "Leaving", !.leaving_countdown = 7190,
                   !.hunger = 65535, !.tired = 40000, !.miserable = 45000,
                   !.weight = 39000, !.money_enabled = FALSE,
                   !.age_ticks = 20000],
     [Grown EXCEPT !.diabetic = TRUE, !.alcoholic = TRUE,
                   !.tired = 9000, !.drunk = 39400, !.drunk_ticks = 100,
                   !.cooldown["rehab"] = 1400, !.cooldown["battle"] = 2,
                   !.age_ticks = 30000]}
=============================================================================
