-------------------------------- MODULE Alarms --------------------------------
(***************************************************************************)
(* The alarm clock of the badge: the slots, the check each minute, the     *)
(* ringing and its end, the edit screen and what is kept in flash          *)
(* (src/watch/alarm.rs, src/watch/clock.rs, src/watch/mod.rs and           *)
(* minute_tick_task of src/bin/embassy.rs).                                *)
(*                                                                         *)
(* Slot 0 is the user's alarm, the others are imported events.  Time is in *)
(* seconds of a short day; the tasks run at the second they are due.       *)
(***************************************************************************)
EXTENDS Integers, Sequences, FiniteSets

CONSTANTS
    NoTime,
    SecsPerMin, MinsPerHour, HoursPerDay, DaysPerWeek, Weekend, \* 60, 60, 24, 7, Sat and Sun
    Events,       \* slot -> [day, hour, minute] of the events in ALARMS.ICS
    NumTones,     \* TONES
    RingRepeats,  \* ALARM_REPEATS, 4 in the badge
    RepeatSecs,   \* ALARM_REPEAT_INTERVAL_SECS, 8 in the badge
    LastDay,      \* bound: days
    MaxClockSets, MaxPresses, MaxBoots \* bounds: changes of the clock, presses, restarts

ASSUME AlarmConstants ==
    /\ {SecsPerMin, MinsPerHour, HoursPerDay, DaysPerWeek, NumTones, RingRepeats, RepeatSecs}
         \subseteq Nat \ {0}
    /\ Weekend \subseteq 0..DaysPerWeek - 1
    /\ NoTime \notin Nat

VARIABLES
    wall,     \* the local wall clock in seconds, or NoTime
    wakeIn,   \* seconds until minute_tick_task wakes
    slots,    \* the alarm slots
    face,     \* WATCH_FACE
    edit,     \* [on, field, active]: WATCH_MODE, EDIT_FIELD, EDIT_ACTIVE
    ringing,  \* ALARM_RINGING
    ringSig,  \* ALARM_RING_SIGNAL
    ringTask, \* [left, due]: plays left and seconds to the next; left 0 = waiting
    dirty,    \* SETTINGS_DIRTY_SIGNAL
    writing,  \* keys the persister still has to write
    flash,    \* the "watch" namespace
    steady,   \* history: seconds since the clock or an alarm was set, at most a minute
    sinceRing,\* history: seconds since an alarm last went off
    clockSets, presses, boots

timeVars == <<wall, wakeIn, steady>>
ringVars == <<ringing, ringSig, ringTask, sinceRing>>
keepVars == <<dirty, writing, flash>>
countVars == <<clockSets, presses, boots>>
alarmVars == <<timeVars, slots, face, edit, ringVars, keepVars, countVars>>

SecsPerDay == SecsPerMin * MinsPerHour * HoursPerDay
Day(w) == w \div SecsPerDay
Hour(w) == (w \div (SecsPerMin * MinsPerHour)) % HoursPerDay
Minute(w) == (w \div SecsPerMin) % MinsPerHour
Weekday(w) == Day(w) % DaysPerWeek
Week == 0..DaysPerWeek - 1

NoDay == -1
DefaultAlarm == [on |-> FALSE, hour |-> 0, minute |-> 0, days |-> Week, day |-> NoDay, tone |-> 0]
(* import_alarms_from_fat12: every boot, whatever was there. *)
Imported(alarm) ==
    [s \in {0} \union DOMAIN Events |->
        IF s = 0 THEN alarm
        ELSE [DefaultAlarm EXCEPT !.on = TRUE, !.day = Events[s].day,
                                  !.hour = Events[s].hour, !.minute = Events[s].minute]]

NormalMode == [on |-> FALSE, field |-> "Hour", active |-> FALSE]
TaskWaits == [left |-> 0, due |-> 0]
Long == RingRepeats * RepeatSecs + 2
FaceKeys == {"Digital", "Analog"}
Keys == <<"hour", "minute", "on", "days", "tone", "face">>
Value(k) == IF k = "face" THEN face ELSE slots[0][k]

AlarmInit ==
    /\ wall = NoTime /\ wakeIn = SecsPerMin /\ steady = 0
    /\ \E on \in BOOLEAN : slots = Imported([DefaultAlarm EXCEPT !.on = on]) \* as flash has it
    /\ face = "Digital" /\ edit = NormalMode
    /\ ringing = FALSE /\ ringSig = FALSE /\ ringTask = TaskWaits /\ sinceRing = Long
    /\ dirty = FALSE /\ writing = << >>
    /\ flash = [k \in {Keys[i] : i \in DOMAIN Keys} |-> Value(k)]
    /\ clockSets = 0 /\ presses = 0 /\ boots = 0

-----------------------------------------------------------------------------
(* Time. *)

(* Whether slot s goes off in the minute of w. *)
Due(s, w) ==
    /\ slots[s].on /\ slots[s].hour = Hour(w) /\ slots[s].minute = Minute(w)
    /\ IF slots[s].day # NoDay THEN slots[s].day = Day(w) ELSE Weekday(w) \in slots[s].days

(* A plausible slip: a minute from now, wherever in the minute that is. *)
AMinuteOn(w) == SecsPerMin
(* minute_tick_task sleeps to the next full minute, a minute without a clock. *)
ToNextMinute(w) == IF w = NoTime THEN SecsPerMin ELSE SecsPerMin - (w % SecsPerMin)

(* check_and_fire_alarm: one melody, and every event due is done with. *)
MinuteTick ==
    /\ wakeIn = 0 /\ wakeIn' = ToNextMinute(wall)
    /\ LET due == IF wall = NoTime THEN {} ELSE {s \in DOMAIN slots : Due(s, wall)}
           done == {s \in due : slots[s].day # NoDay}
       IN  /\ slots' = [s \in DOMAIN slots |-> [slots[s] EXCEPT !.on = @ /\ s \notin done]]
           /\ dirty' = (dirty \/ done # {})
           /\ ringing' = (ringing \/ due # {})
           /\ ringSig' = (ringSig \/ due # {})
           /\ sinceRing' = IF due # {} THEN 0 ELSE sinceRing
    /\ UNCHANGED <<wall, steady, face, edit, ringTask, writing, flash, countVars>>

(* A plausible slip: only a dismissed alarm ends the task. *)
RingRepeatForever ==
    /\ ringTask.left > 0 /\ ringTask.due = 0
    /\ ringTask' = IF ringing THEN [left |-> ringTask.left, due |-> RepeatSecs] ELSE TaskWaits
    /\ UNCHANGED <<timeVars, slots, face, edit, ringing, ringSig, sinceRing, keepVars, countVars>>
(* alarm_ring_timeout_task: plays again and again unless dismissed, then    *)
(* stops the ringing.                                                       *)
RingStarts ==
    /\ ringSig /\ ringTask.left = 0 /\ ringSig' = FALSE
    /\ ringTask' = [left |-> RingRepeats, due |-> RepeatSecs]
    /\ UNCHANGED <<timeVars, slots, face, edit, ringing, sinceRing, keepVars, countVars>>
RingRepeat ==
    /\ ringTask.left > 0 /\ ringTask.due = 0
    /\ IF ringing /\ ringTask.left > 1
       THEN ringTask' = [left |-> ringTask.left - 1, due |-> RepeatSecs] /\ UNCHANGED ringing
       ELSE ringTask' = TaskWaits /\ ringing' = FALSE
    /\ UNCHANGED <<timeVars, slots, face, edit, ringSig, sinceRing, keepVars, countVars>>

TimeMayPass == wakeIn > 0 /\ (ringTask.left > 0 => ringTask.due > 0)
               /\ ~(ringSig /\ ringTask.left = 0)
Second ==
    /\ TimeMayPass /\ wakeIn' = wakeIn - 1
    /\ IF wall = NoTime THEN UNCHANGED <<wall, steady>>
       ELSE /\ Day(wall + 1) <= LastDay /\ wall' = wall + 1
            /\ steady' = IF steady < SecsPerMin THEN steady + 1 ELSE steady
    /\ ringTask' = IF ringTask.left > 0 THEN [ringTask EXCEPT !.due = @ - 1] ELSE ringTask
    /\ sinceRing' = IF sinceRing < Long THEN sinceRing + 1 ELSE Long
    /\ UNCHANGED <<slots, face, edit, ringing, ringSig, keepVars, countVars>>

(* The mesh or the companion app sets the clock, at any moment. *)
SetClock(w) ==
    /\ clockSets < MaxClockSets /\ clockSets' = clockSets + 1
    /\ wall' = w /\ steady' = 0
    /\ UNCHANGED <<wakeIn, slots, face, edit, ringVars, keepVars, presses, boots>>

-----------------------------------------------------------------------------
(* Buttons.  A press while an alarm rings only silences it (menu.rs:530).   *)

Fields == <<"Hour", "Minute", "Days", "Tone", "Enabled">>
FieldAt(f) == CHOOSE i \in DOMAIN Fields : Fields[i] = f
MoveTo(i) == IF i \in DOMAIN Fields THEN edit' = [edit EXCEPT !.field = Fields[i]]
             ELSE UNCHANGED edit

Presets == <<Week, Week \ Weekend, Weekend, {}>>
Preset(days, step) ==
    IF \A i \in DOMAIN Presets : Presets[i] # days THEN Week
    ELSE LET i == CHOOSE i \in DOMAIN Presets : Presets[i] = days
         IN  Presets[((i - 1 + step) % 4) + 1]

Alarm(a) == slots' = [slots EXCEPT ![0] = a] /\ dirty' = TRUE
(* step_current_field: step is 1 for up, -1 for down. *)
StepField(step) ==
    LET a == slots[0]
    IN  CASE edit.field = "Hour" -> Alarm([a EXCEPT !.hour = (@ + step) % HoursPerDay])
          [] edit.field = "Minute" -> Alarm([a EXCEPT !.minute = (@ + step) % MinsPerHour])
          [] edit.field = "Days" -> Alarm([a EXCEPT !.days = Preset(@, step)])
          [] edit.field = "Tone" -> Alarm([a EXCEPT !.tone = (@ + step) % NumTones])

EditPress(btn) ==
    IF edit.active
    THEN IF btn \in {"Fire", "Cancel"}
         THEN edit' = [edit EXCEPT !.active = FALSE] /\ UNCHANGED <<slots, dirty>>
         ELSE StepField(IF btn = "Up" THEN 1 ELSE -1) /\ UNCHANGED edit
    ELSE CASE btn = "Up" -> MoveTo(FieldAt(edit.field) - 1) /\ UNCHANGED <<slots, dirty>>
           [] btn = "Down" -> MoveTo(FieldAt(edit.field) + 1) /\ UNCHANGED <<slots, dirty>>
           [] btn = "Cancel" -> edit' = [edit EXCEPT !.on = FALSE] /\ UNCHANGED <<slots, dirty>>
           [] btn = "Fire" -> IF edit.field = "Enabled"
                              THEN Alarm([slots[0] EXCEPT !.on = ~@]) /\ UNCHANGED edit
                              ELSE edit' = [edit EXCEPT !.active = TRUE] /\ UNCHANGED <<slots, dirty>>

FacePress(btn) ==
    \/ /\ btn \in {"Up", "Down"} /\ face' = IF face = "Digital" THEN "Analog" ELSE "Digital"
       /\ dirty' = TRUE /\ UNCHANGED <<slots, edit>>
    \/ /\ btn = "Fire" /\ edit' = [NormalMode EXCEPT !.on = TRUE]
       /\ UNCHANGED <<slots, dirty, face>>

WatchPress(btn) ==
    /\ presses < MaxPresses /\ presses' = presses + 1
    /\ IF ringing THEN ringing' = FALSE /\ UNCHANGED <<slots, dirty, face, edit>>
       ELSE /\ UNCHANGED ringing
            /\ IF edit.on THEN EditPress(btn) /\ UNCHANGED face ELSE FacePress(btn)
    /\ steady' = IF slots' = slots THEN steady ELSE 0
    /\ UNCHANGED <<wall, wakeIn, ringSig, ringTask, sinceRing, writing, flash, clockSets, boots>>

-----------------------------------------------------------------------------
(* settings_persister_task writes one key after another, each with the      *)
(* value of that moment; a boot reads them back.                            *)

PersistStarts ==
    /\ dirty /\ writing = << >> /\ dirty' = FALSE /\ writing' = Keys
    /\ UNCHANGED <<timeVars, slots, face, edit, ringVars, flash, countVars>>

PersistKey ==
    /\ writing # << >> /\ writing' = Tail(writing)
    /\ flash' = [flash EXCEPT ![Head(writing)] = Value(Head(writing))]
    /\ UNCHANGED <<timeVars, slots, face, edit, ringVars, dirty, countVars>>

Reboot ==
    /\ boots < MaxBoots /\ boots' = boots + 1
    /\ wall' = NoTime /\ wakeIn' = SecsPerMin /\ steady' = 0
    /\ slots' = Imported([DefaultAlarm EXCEPT !.hour = flash.hour, !.minute = flash.minute,
                              !.on = flash.on, !.days = flash.days, !.tone = flash.tone])
    /\ face' = flash.face /\ edit' = NormalMode
    /\ ringing' = FALSE /\ ringSig' = FALSE /\ ringTask' = TaskWaits /\ sinceRing' = Long
    /\ dirty' = (DOMAIN Events # {}) /\ writing' = << >>
    /\ UNCHANGED <<flash, clockSets, presses>>

AlarmNext ==
    \/ MinuteTick \/ RingStarts \/ RingRepeat \/ Second
    \/ \E w \in 0..(LastDay + 1) * SecsPerDay - 1 : SetClock(w)
    \/ \E btn \in {"Up", "Down", "Fire", "Cancel"} : WatchPress(btn)
    \/ PersistStarts \/ PersistKey \/ Reboot

AlarmSpec == AlarmInit /\ [][AlarmNext]_alarmVars

-----------------------------------------------------------------------------
(* Properties. *)

(* Whenever the clock and the alarms were last set, once a minute has gone  *)
(* by an alarm goes off in the first second of its minute (embassy.rs:1639- *)
(* 1646, alarm.rs:690-735).                                                 *)
RingsOnTime ==
    [][ wall # NoTime /\ wall' = wall + 1 /\ clockSets' = clockSets
          /\ steady = SecsPerMin /\ wall % SecsPerMin = 0
          => \A s \in DOMAIN slots : Due(s, wall) => sinceRing = 0 ]_alarmVars

(* However alarms, presses and jumps of the clock overlap, an alarm nobody  *)
(* silences stops by itself after its repeats (alarm.rs:752-787).           *)
StopsByItself == ringing => sinceRing <= RingRepeats * RepeatSecs

(* Once the persister rests, flash holds the alarm and the face as they     *)
(* are set (watch/mod.rs:93-112).                                           *)
AlarmIsKept == ~dirty /\ writing = << >> => \A k \in DOMAIN flash : flash[k] = Value(k)

(* The state of the alarm clock between two minutes: it does not ring for   *)
(* ever, and what it rings for next survives a restart (watch/mod.rs:93-    *)
(* 112, alarm.rs:752-787).                                                  *)
AlarmsAreSound == StopsByItself /\ AlarmIsKept
=============================================================================
