------------------------------- MODULE Settings -------------------------------
(***************************************************************************)
(* The device settings (src/fw/mesh/settings.rs): atomics in RAM that the  *)
(* menu and the companion app change, the keys of the key-value store that *)
(* keep them, the persister task (persister.rs) that writes one key at a   *)
(* time when its signal fires, and the tasks that act on them: the radio   *)
(* listener with its standby (meshcore.rs:212-316), the advert ticker      *)
(* (bin/embassy.rs:1535-1573) and the outer loop of the BLE task           *)
(* (ble.rs:556-640, 1536-1720, 2096-2160).                                 *)
(*                                                                         *)
(* A field is 0 or 1; 1 is the value somebody chose.  "tz" stands for      *)
(* every setting only the menu changes and nothing but the persister waits *)
(* for (timezone, boost-RX, ignore-blink).  A Signal of embassy holds one  *)
(* value for whoever takes it first.                                       *)
(***************************************************************************)
EXTENDS Naturals, Sequences, FiniteSets

CONSTANTS
    MaxSettings,  \* bound: changes made by the menu and the app
    MaxReboots,  \* bound: losses of power
    MaxFaults    \* bound: flash operations that fail

ASSUME SettingsConstants == {MaxSettings, MaxReboots, MaxFaults} \subseteq Nat

(* The keys the persister writes, in the order its select polls them, and  *)
(* the fields each of them holds (settings.rs keys "tz", "radio", "other", *)
(* "advert", "path_hash", "lora_en", "ble_en").                            *)
PollOrder == <<"tz", "radio", "other", "advert", "path", "lora", "ble">>
ParamKeys == {PollOrder[i] : i \in DOMAIN PollOrder}
RadioFields == {"freq", "power"}
OtherFields == {"manual", "loc", "tele"}
FieldsOf(k) == CASE k = "radio" -> RadioFields
                 [] k = "other" -> OtherFields
                 [] OTHER -> {k}
ParamFields == UNION {FieldsOf(k) : k \in ParamKeys}
KeyOf(f) == CHOOSE k \in ParamKeys : f \in FieldsOf(k)

VARIABLES
    live,      \* the atomics; "manual" has none and is always 0 here
    flashParams,     \* the key-value store
    raised,    \* the signals that hold a value: keys, and "apply"
    persister, \* the key it works on, its stage and the values it holds
    radioTask, \* "rx" or "standby", and the parameters the chip runs with
    ticker,    \* "start", "waiting" or "sleeping"
    ble,       \* the BLE task: place, copies of the settings, flash job
    settingsMade, reboots, faults

setVars == <<live, flashParams, raised, persister, radioTask, ticker, ble, settingsMade, reboots, faults>>

NoJob == [key |-> "none", stage |-> "none", buf |-> << >>]
Only(F, fields) == [x \in fields |-> F[x]]
Overlay(F, part) == [x \in DOMAIN F |-> IF x \in DOMAIN part THEN part[x] ELSE F[x]]

(* What boot makes of the store: embassy.rs:446-498 fills the atomics, the  *)
(* listener and the BLE task read copies of their own.                      *)
LiveAfterBoot(F) == [F EXCEPT !["manual"] = 0]
RadioAfterBoot(F) == [mode |-> "rx", tuned |-> Only(F, RadioFields)]
BleAfterBoot(F) == [at |-> "top", radio |-> Only(F, RadioFields),
                    other |-> Only(F, OtherFields), job |-> "none", arg |-> 0]

SettingsInit ==
    /\ flashParams = [f \in ParamFields |-> 0]
    /\ live = LiveAfterBoot(flashParams) /\ radioTask = RadioAfterBoot(flashParams)
    /\ ble = BleAfterBoot(flashParams)
    /\ raised = {} /\ persister = NoJob /\ ticker = "start"
    /\ settingsMade = 0 /\ reboots = 0 /\ faults = 0

Fault(ok) == IF ok THEN UNCHANGED faults ELSE faults < MaxFaults /\ faults' = faults + 1

-----------------------------------------------------------------------------
(* The menu changes an atomic and raises the signal of its key. *)
MenuSets(f) ==
    /\ settingsMade < MaxSettings /\ settingsMade' = settingsMade + 1
    /\ live' = [live EXCEPT ![f] = 1 - @] /\ raised' = raised \union {KeyOf(f)}
    /\ UNCHANGED <<flashParams, persister, radioTask, ticker, ble, reboots, faults>>

-----------------------------------------------------------------------------
(* The persister. *)

(* settings_dispatch_loop: of the signals that hold a value the first in    *)
(* poll order is taken.  dispatch loads the atomics at once, except for the *)
(* two keys that are read from flash before.                                *)
PersisterTakes(k) ==
    /\ persister = NoJob /\ k \in raised
    /\ \A i, j \in DOMAIN PollOrder : PollOrder[i] = k /\ PollOrder[j] \in raised => i <= j
    /\ raised' = raised \ {k}
    /\ persister' = [key |-> k, stage |-> IF k \in {"radio", "other"} THEN "read" ELSE "write",
                     buf |-> Only(live, FieldsOf(k))]
    /\ UNCHANGED <<live, flashParams, radioTask, ticker, ble, settingsMade, reboots, faults>>

(* The read returns; all fields but "manual" are then loaded from atomics.  *)
(* A failed read counts as nothing stored.                                  *)
PersisterReads(ok) ==
    /\ persister.stage = "read" /\ Fault(ok)
    /\ persister' = [persister EXCEPT !.stage = "write", !.buf =
          [f \in FieldsOf(persister.key) |->
              IF f = "manual" THEN (IF ok THEN flashParams["manual"] ELSE 0) ELSE live[f]]]
    /\ UNCHANGED <<live, flashParams, raised, radioTask, ticker, ble, settingsMade, reboots>>

(* A plausible slip: the signal is cleared when the write is done. *)
PersisterWritesThenClears(ok) ==
    /\ persister.stage = "write" /\ Fault(ok)
    /\ flashParams' = IF ok THEN Overlay(flashParams, persister.buf) ELSE flashParams
    /\ raised' = (IF persister.key = "radio" THEN raised \union {"apply"} ELSE raised)
                     \ {persister.key}
    /\ persister' = NoJob
    /\ UNCHANGED <<live, radioTask, ticker, ble, settingsMade, reboots>>

(* The write returns.  The listener is told of new radio parameters whether *)
(* or not they could be written.                                            *)
PersisterWrites(ok) ==
    /\ persister.stage = "write" /\ Fault(ok)
    /\ flashParams' = IF ok THEN Overlay(flashParams, persister.buf) ELSE flashParams
    /\ raised' = IF persister.key = "radio" THEN raised \union {"apply"} ELSE raised
    /\ persister' = NoJob
    /\ UNCHANGED <<live, radioTask, ticker, ble, settingsMade, reboots>>

-----------------------------------------------------------------------------
(* The radio listener. *)

(* The top of its loop, reached at the latest when a reception times out:   *)
(* standby while the radio is switched off, else new parameters are applied.*)
ListenerLoops ==
    /\ radioTask.mode = "rx" /\ (live["lora"] = 1 \/ "apply" \in raised)
    /\ IF live["lora"] = 1
       THEN radioTask' = [radioTask EXCEPT !.mode = "standby"] /\ UNCHANGED raised
       ELSE /\ radioTask' = [radioTask EXCEPT !.tuned = Only(live, RadioFields)]
            /\ raised' = raised \ {"apply"}
    /\ UNCHANGED <<live, flashParams, persister, ticker, ble, settingsMade, reboots, faults>>

(* In standby only LORA_DISABLED_CHANGED wakes it - if it is the one that   *)
(* takes the value: the persister waits for the same signal.                *)
ListenerWakes ==
    /\ radioTask.mode = "standby" /\ "lora" \in raised
    /\ raised' = raised \ {"lora"}
    /\ radioTask' = [radioTask EXCEPT !.mode = IF live["lora"] = 0 THEN "rx" ELSE @]
    /\ UNCHANGED <<live, flashParams, persister, ticker, ble, settingsMade, reboots, faults>>

(* The advert ticker sleeps while adverts are on ("advert" = 0) and waits   *)
(* for the signal while they are off; it shares it with the persister.      *)
TickerRuns ==
    /\ \/ ticker = "start" /\ UNCHANGED raised
       \/ ticker = "sleeping" /\ UNCHANGED raised                \* the timer elapsed
       \/ ticker # "start" /\ "advert" \in raised /\ raised' = raised \ {"advert"}
    /\ ticker' = IF live["advert"] = 1 THEN "waiting" ELSE "sleeping"
    /\ UNCHANGED <<live, flashParams, persister, radioTask, ble, settingsMade, reboots, faults>>

-----------------------------------------------------------------------------
(* The BLE task. *)

(* The top of the outer loop copies the atomics, then advertises unless     *)
(* BLE is switched off; the switch is not looked at again until it is back. *)
BleTop ==
    /\ ble.at = "top"
    /\ ble' = [ble EXCEPT !.radio = Only(live, RadioFields),
                          !.other = Overlay(@, Only(live, {"loc", "tele"})),
                          !.at = IF live["ble"] = 1 THEN "off" ELSE "advertising"]
    /\ UNCHANGED <<live, flashParams, raised, persister, radioTask, ticker, settingsMade, reboots, faults>>

(* Polled every 200 ms while off; a companion connects; it disconnects.     *)
BleMoves ==
    /\ \/ ble.at = "off" /\ live["ble"] = 0 /\ ble' = [ble EXCEPT !.at = "advertising"]
       \/ ble.at = "advertising" /\ ble' = [ble EXCEPT !.at = "connected"]
       \/ ble.at = "connected" /\ ble.job = "none" /\ ble' = [ble EXCEPT !.at = "top"]
    /\ UNCHANGED <<live, flashParams, raised, persister, radioTask, ticker, settingsMade, reboots, faults>>

Commanded == /\ ble.at = "connected" /\ ble.job = "none"
             /\ settingsMade < MaxSettings /\ settingsMade' = settingsMade + 1

(* SET_RADIO_PARAMS and SET_RADIO_TX_POWER: the other radio fields are      *)
(* those of the copy; the atomics take them all and the persister is told.  *)
BleSetsRadio(f, v) ==
    /\ Commanded
    /\ ble' = [ble EXCEPT !.radio = [@ EXCEPT ![f] = v]]
    /\ live' = Overlay(live, ble'.radio) /\ raised' = raised \union {"radio"}
    /\ UNCHANGED <<flashParams, persister, radioTask, ticker, reboots, faults>>

(* SET_OTHER_PARAMS: copy and atomics first - the telemetry mode has an     *)
(* atomic too, but the handler does not store it - then the write.          *)
BleSetsOther(o) ==
    /\ Commanded
    /\ ble' = [ble EXCEPT !.other = o, !.job = "other"]
    /\ live' = [live EXCEPT !["loc"] = o["loc"]]
    /\ UNCHANGED <<flashParams, raised, persister, radioTask, ticker, reboots, faults>>

(* SET_PATH_HASH_MODE: written first, stored in the atomic on success.      *)
BleSetsPath(v) ==
    /\ Commanded
    /\ ble' = [ble EXCEPT !.job = "path", !.arg = v]
    /\ UNCHANGED <<live, flashParams, raised, persister, radioTask, ticker, reboots, faults>>

(* The write of the handler returns. *)
BleWrites(ok) ==
    /\ ble.job # "none" /\ Fault(ok)
    /\ LET part == IF ble.job = "other" THEN ble.other ELSE [path |-> ble.arg]
       IN  /\ flashParams' = IF ok THEN Overlay(flashParams, part) ELSE flashParams
           /\ live' = IF ok /\ ble.job = "path" THEN Overlay(live, part) ELSE live
    /\ ble' = [ble EXCEPT !.job = "none"]
    /\ UNCHANGED <<raised, persister, radioTask, ticker, settingsMade, reboots>>

-----------------------------------------------------------------------------
(* Power is lost and returns, or the badge is reset. *)
BadgeRestarts ==
    /\ reboots < MaxReboots /\ reboots' = reboots + 1
    /\ live' = LiveAfterBoot(flashParams') /\ radioTask' = RadioAfterBoot(flashParams')
    /\ ble' = BleAfterBoot(flashParams')
    /\ raised' = {} /\ persister' = NoJob /\ ticker' = "start"
    /\ UNCHANGED <<settingsMade, faults>>
PowerCycle == flashParams' = flashParams /\ BadgeRestarts

(* Factory reset: asked for in the menu, it is the persister that formats   *)
(* the store; asked for by the app, the BLE task does.  Both then reset.    *)
MenuFactoryReset ==
    /\ settingsMade < MaxSettings /\ settingsMade' = settingsMade + 1
    /\ raised' = raised \union {"factory"}
    /\ UNCHANGED <<live, flashParams, persister, radioTask, ticker, ble, reboots, faults>>
FactoryReset ==
    /\ \/ persister = NoJob /\ "factory" \in raised /\ raised \intersect ParamKeys = {}
       \/ ble.at = "connected" /\ ble.job = "none"
    /\ flashParams' = [f \in ParamFields |-> 0] /\ BadgeRestarts

SettingsNext ==
    \/ \E f \in ParamFields \ {"manual"} : MenuSets(f)
    \/ \E k \in ParamKeys : PersisterTakes(k)
    \/ \E ok \in BOOLEAN : PersisterReads(ok) \/ PersisterWrites(ok) \/ BleWrites(ok)
    \/ ListenerLoops \/ ListenerWakes \/ TickerRuns
    \/ BleTop \/ BleMoves
    \/ \E f \in RadioFields, v \in 0..1 : BleSetsRadio(f, v)
    \/ \E o \in [OtherFields -> 0..1] : BleSetsOther(o)
    \/ \E v \in 0..1 : BleSetsPath(v)
    \/ PowerCycle \/ MenuFactoryReset \/ FactoryReset

SettingsSpec == SettingsInit /\ [][SettingsNext]_setVars

-----------------------------------------------------------------------------
(* Properties. *)

(* When the persister has nothing left to do and no write failed, the store *)
(* holds the latest value of what it alone persists, and a radio that       *)
(* listens with no change to apply runs with exactly the stored parameters, *)
(* however changes of the menu and of the app overlapped with the writes    *)
(* (persister.rs:80-92, 157-183; meshcore.rs:262-283, 300-316).             *)
Settled == persister = NoJob /\ raised \intersect {"tz", "radio"} = {} /\ faults = 0
ChangesReachFlash ==
    Settled => /\ \A f \in {"tz"} \union RadioFields : flashParams[f] = live[f]
               /\ radioTask.mode = "rx" /\ "apply" \notin raised
                      => radioTask.tuned = Only(flashParams, RadioFields)

(* The radio is never left in standby with nothing to wake it after it was  *)
(* switched on again (lib.rs:383: "Fired when LORA_DISABLED changes so the  *)
(* meshcore task wakes up").                                                *)
RadioComesBack ==
    radioTask.mode = "standby" /\ live["lora"] = 0 => "lora" \in raised

(* The switch of the radio survives a reset once the persister is idle.     *)
SwitchIsKept ==
    persister = NoJob /\ "lora" \notin raised /\ faults = 0 => flashParams["lora"] = live["lora"]

(* Switched off, the badge stops advertising (lib.rs:387).                  *)
BleOffStopsAdvertising ==
    live["ble"] = 1 /\ "ble" \notin raised /\ persister = NoJob => ble.at # "advertising"

(* A companion's approval policy is not undone by a change of the menu.     *)
PolicyIsKept ==
    ble.at = "connected" /\ ble.job = "none" /\ persister = NoJob /\ faults = 0
        => flashParams["manual"] = ble.other["manual"]

(* A companion's telemetry mode takes effect.                               *)
TelemetryModeTakesEffect ==
    ble.at = "connected" /\ ble.job = "none" /\ persister = NoJob /\ "other" \notin raised
        => live["tele"] = flashParams["tele"]
=============================================================================
