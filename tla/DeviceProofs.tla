---------------------------- MODULE DeviceProofs -----------------------------
(***************************************************************************)
(* Theorems about the settings with their persister (Settings), the alarm  *)
(* clock (Alarms), the Contacts screen (ContactScreen), the calendar       *)
(* (Calendar) and what is kept in flash (Dfu, UsbDrive, FatFile,           *)
(* ContactBoot), for every set of values and every bound.                  *)
(***************************************************************************)
EXTENDS MCDevice, FiniteSetTheorems,
        SequenceTheorems, WellFoundedInduction, TLAPS

(***************************************************************************)
(* The settings and their persister.                                       *)
(***************************************************************************)

Values == [ParamFields -> 0..1]
Jobs == {NoJob} \union
        UNION {[key : {k}, stage : {"read", "write"}, buf : [FieldsOf(k) -> 0..1]] : k \in ParamKeys}
SetTypeOK ==
    /\ live \in Values /\ flashParams \in Values
    /\ persister \in Jobs
    /\ radioTask \in [mode : {"rx", "standby"}, tuned : [RadioFields -> 0..1]]
    /\ ble \in [at : {"top", "off", "advertising", "connected"}, radio : [RadioFields -> 0..1],
                other : [OtherFields -> 0..1], job : {"none", "other", "path"}, arg : 0..1]
    /\ faults \in Nat

(* What the persister alone writes: a value that is not in flash is still   *)
(* announced or in hand, and a value in hand that is not the latest is      *)
(* announced again.                                                         *)
Followed == {"tz"} \union RadioFields
Announced(f) == KeyOf(f) \in raised
InHand(f) == persister.key = KeyOf(f)
NotForgotten(f) == Announced(f) \/ InHand(f) \/ flashParams[f] = live[f]
NotStale(f) == InHand(f) /\ persister.stage = "write" => Announced(f) \/ persister.buf[f] = live[f]
(* The same of the radio's parameters, on the way to the listener.          *)
RadioFollows ==
    "apply" \in raised \/ "radio" \in raised \/ persister.key = "radio"
        \/ \A f \in RadioFields : radioTask.tuned[f] = live[f]

SetIInv == /\ SetTypeOK /\ RadioFollows
           /\ faults = 0 => \A f \in Followed : NotForgotten(f) /\ NotStale(f)

LEMMA Params ==
    /\ ParamKeys = {"tz", "radio", "other", "advert", "path", "lora", "ble"}
    /\ FieldsOf("tz") = {"tz"} /\ FieldsOf("radio") = RadioFields /\ FieldsOf("other") = OtherFields
    /\ FieldsOf("advert") = {"advert"} /\ FieldsOf("path") = {"path"}
    /\ FieldsOf("lora") = {"lora"} /\ FieldsOf("ble") = {"ble"}
    /\ ParamFields = {"tz", "freq", "power", "manual", "loc", "tele", "advert", "path", "lora", "ble"}
    /\ KeyOf("tz") = "tz" /\ \A f \in RadioFields : KeyOf(f) = "radio"
    /\ Followed = {"tz", "freq", "power"} /\ RadioFields = {"freq", "power"}
<1>1. 1..7 = {1, 2, 3, 4, 5, 6, 7}
  OBVIOUS
<1>2. ParamKeys = {"tz", "radio", "other", "advert", "path", "lora", "ble"}
  BY <1>1 DEF ParamKeys, PollOrder
<1>3. /\ FieldsOf("tz") = {"tz"} /\ FieldsOf("radio") = RadioFields /\ FieldsOf("other") = OtherFields
      /\ FieldsOf("advert") = {"advert"} /\ FieldsOf("path") = {"path"}
      /\ FieldsOf("lora") = {"lora"} /\ FieldsOf("ble") = {"ble"}
  BY DEF FieldsOf
<1>4. ParamFields = {"tz", "freq", "power", "manual", "loc", "tele", "advert", "path", "lora", "ble"}
  BY <1>2, <1>3 DEF ParamFields, RadioFields, OtherFields
<1>5. KeyOf("tz") = "tz"
  <2>1. \A k \in ParamKeys : "tz" \in FieldsOf(k) <=> k = "tz"
    BY <1>2, <1>3 DEF RadioFields, OtherFields
  <2> QED
    BY <1>2, <2>1 DEF KeyOf
<1>6. ASSUME NEW f \in RadioFields PROVE KeyOf(f) = "radio"
  <2>1. \A k \in ParamKeys : f \in FieldsOf(k) <=> k = "radio"
    BY <1>2, <1>3 DEF RadioFields, OtherFields
  <2> QED
    BY <1>2, <2>1 DEF KeyOf
<1> QED
  BY <1>2, <1>3, <1>4, <1>5, <1>6 DEF Followed, RadioFields

LEMMA OverlayType ==
    ASSUME NEW F \in Values, NEW K, K \subseteq ParamFields, NEW p \in [K -> 0..1]
    PROVE  /\ Overlay(F, p) \in Values
           /\ \A x \in ParamFields : Overlay(F, p)[x] = IF x \in K THEN p[x] ELSE F[x]
BY DEF Overlay, Values

LEMMA OnlyType ==
    ASSUME NEW F \in Values, NEW K, K \subseteq ParamFields
    PROVE  /\ Only(F, K) \in [K -> 0..1] /\ \A x \in K : Only(F, K)[x] = F[x]
BY DEF Only, Values

LEMMA JobFields ==
    ASSUME NEW j \in Jobs
    PROVE  /\ j = NoJob \/ /\ j.key \in ParamKeys /\ j.stage \in {"read", "write"}
                           /\ j.buf \in [FieldsOf(j.key) -> 0..1]
           /\ j.stage \in {"read", "write"} => j # NoJob
           /\ j.stage \in {"read", "write"} => /\ j.key \in ParamKeys /\ j.buf \in [FieldsOf(j.key) -> 0..1]
                                            /\ j = [key |-> j.key, stage |-> j.stage, buf |-> j.buf]
BY DEF Jobs, NoJob

LEMMA Resting == NoJob.key = "none" /\ NoJob.stage = "none" /\ \A f \in Followed : KeyOf(f) # "none"
BY Params DEF NoJob

LEMMA JobType ==
    ASSUME NEW k \in ParamKeys, NEW st \in {"read", "write"}, NEW v \in [FieldsOf(k) -> 0..1]
    PROVE  [key |-> k, stage |-> st, buf |-> v] \in Jobs
BY DEF Jobs

LEMMA KeyFields == \A k \in ParamKeys : FieldsOf(k) \subseteq ParamFields
BY DEF ParamFields

LEMMA SetInitInv == SettingsInit => SetIInv
<1> SUFFICES ASSUME SettingsInit PROVE SetIInv
  OBVIOUS
<1> USE DEF SettingsInit
<1>1. flashParams \in Values /\ live \in Values /\ \A f \in Followed : flashParams[f] = live[f]
  BY Params DEF Values, LiveAfterBoot
<1>2. /\ Only(flashParams, RadioFields) \in [RadioFields -> 0..1]
      /\ Only(flashParams, OtherFields) \in [OtherFields -> 0..1]
  BY <1>1, OnlyType, Params DEF RadioFields, OtherFields
<1>3. SetTypeOK
  BY <1>1, <1>2 DEF SetTypeOK, Jobs, RadioAfterBoot, BleAfterBoot
<1>4. RadioFollows
  BY <1>1, Params DEF RadioFollows, RadioAfterBoot, Only
<1> QED
  BY <1>1, <1>3, <1>4, JobFields, Params DEF SetIInv, NotForgotten, NotStale, InHand, Jobs, SetTypeOK

(* Signals raised, values changed: whoever changes a followed value raises  *)
(* its key.                                                                 *)
LEMMA ChangeInv ==
    ASSUME SetIInv, live' \in Values, raised \subseteq raised',
           UNCHANGED <<flashParams, persister, radioTask, faults>>,
           \A f \in Followed : live'[f] # live[f] => KeyOf(f) \in raised'
    PROVE  /\ RadioFollows'
           /\ faults' = 0 => \A f \in Followed : NotForgotten(f)' /\ NotStale(f)'
<1>1. RadioFollows'
  BY Params DEF SetIInv, RadioFollows
<1>2. ASSUME faults' = 0, NEW f \in Followed PROVE NotForgotten(f)' /\ NotStale(f)'
  BY <1>2 DEF SetIInv, NotForgotten, NotStale, Announced, InHand
<1> QED
  BY <1>1, <1>2

LEMMA BootInv == ASSUME SetIInv, flashParams' \in Values, BadgeRestarts PROVE SetIInv'
<1> USE DEF BadgeRestarts
<1>1. live' \in Values /\ \A f \in Followed : flashParams'[f] = live'[f]
  BY Params DEF Values, LiveAfterBoot
<1>2. /\ Only(flashParams', RadioFields) \in [RadioFields -> 0..1]
      /\ Only(flashParams', OtherFields) \in [OtherFields -> 0..1]
      /\ \A f \in RadioFields : Only(flashParams', RadioFields)[f] = flashParams'[f]
  BY OnlyType, Params DEF RadioFields, OtherFields
<1>3. SetTypeOK'
  BY <1>1, <1>2 DEF SetIInv, SetTypeOK, Jobs, RadioAfterBoot, BleAfterBoot
<1>4. RadioFollows'
  BY <1>1, <1>2, Params DEF RadioFollows, RadioAfterBoot
<1>5. \A f \in Followed : NotForgotten(f)' /\ NotStale(f)'
  BY <1>1, JobFields DEF NotForgotten, NotStale, InHand, Jobs
<1> QED
  BY <1>3, <1>4, <1>5 DEF SetIInv

(* A step that leaves these alone disturbs no part of the invariant.        *)
LEMMA RestInv ==
    ASSUME SetIInv, raised' = raised \/ (\E k \in {"advert", "factory"} : raised' \in {raised \ {k}, raised \union {k}}),
           \A f \in RadioFields : radioTask'.tuned[f] = radioTask.tuned[f],
           UNCHANGED <<live, flashParams, persister, faults>>
    PROVE  /\ RadioFollows'
           /\ faults' = 0 => \A f \in Followed : NotForgotten(f)' /\ NotStale(f)'
<1>0. \A k \in {"apply", "radio", "tz", "lora"} : k \in raised' <=> k \in raised
  OBVIOUS
<1>1. RadioFollows'
  BY <1>0 DEF SetIInv, RadioFollows
<1>2. ASSUME faults' = 0, NEW f \in Followed PROVE NotForgotten(f)' /\ NotStale(f)'
  <2>1. KeyOf(f) \in {"tz", "radio"}
    BY Params
  <2> QED
    BY <1>0, <1>2, <2>1 DEF SetIInv, NotForgotten, NotStale, Announced, InHand
<1> QED
  BY <1>1, <1>2

LEMMA MenuSetsInv == ASSUME SetIInv, NEW f \in ParamFields \ {"manual"}, MenuSets(f) PROVE SetIInv'
<1> USE DEF MenuSets
<1>1. live' \in Values
  BY DEF SetIInv, SetTypeOK, Values
<1>2. \A g \in Followed : live'[g] # live[g] => KeyOf(g) \in raised'
  BY DEF SetIInv, SetTypeOK, Values
<1>3. SetTypeOK'
  BY <1>1 DEF SetIInv, SetTypeOK
<1> QED
  BY <1>1, <1>2, <1>3, ChangeInv DEF SetIInv

LEMMA PersisterTakesInv == ASSUME SetIInv, NEW k \in ParamKeys, PersisterTakes(k) PROVE SetIInv'
<1> USE DEF PersisterTakes
<1>1. FieldsOf(k) \subseteq ParamFields
  BY KeyFields
<1>2. /\ Only(live, FieldsOf(k)) \in [FieldsOf(k) -> 0..1]
      /\ \A f \in FieldsOf(k) : Only(live, FieldsOf(k))[f] = live[f]
  BY <1>1, OnlyType DEF SetIInv, SetTypeOK
<1>3. persister' \in Jobs
  BY <1>2, JobType
<1>4. SetTypeOK'
  BY <1>3 DEF SetIInv, SetTypeOK
<1>5. RadioFollows'
  BY Resting, Params DEF SetIInv, RadioFollows
<1>6. ASSUME faults' = 0, NEW f \in Followed PROVE NotForgotten(f)' /\ NotStale(f)'
  <2>1. NotForgotten(f)'
    BY <1>6, Resting DEF SetIInv, NotForgotten, InHand, Announced
  <2>2. k = KeyOf(f) => f \in FieldsOf(k)
    BY Params
  <2>3. NotStale(f)'
    BY <1>2, <2>2 DEF NotStale, InHand
  <2> QED
    BY <2>1, <2>3
<1> QED
  BY <1>4, <1>5, <1>6 DEF SetIInv

LEMMA PersisterReadsInv == ASSUME SetIInv, NEW ok \in BOOLEAN, PersisterReads(ok) PROVE SetIInv'
<1> USE DEF PersisterReads
<1>1. persister.key \in ParamKeys
  BY JobFields DEF SetIInv, SetTypeOK
<1>2. FieldsOf(persister.key) \subseteq ParamFields /\ "manual" \in ParamFields
  BY <1>1, KeyFields, Params
<1>3. PICK v : persister' = [persister EXCEPT !.stage = "write", !.buf = v]
               /\ v = [f \in FieldsOf(persister.key) |->
                          IF f = "manual" THEN (IF ok THEN flashParams["manual"] ELSE 0) ELSE live[f]]
  OBVIOUS
<1> HIDE DEF PersisterReads
<1>4. v \in [FieldsOf(persister.key) -> 0..1]
  BY <1>2, <1>3 DEF SetIInv, SetTypeOK, Values
<1>5. persister' = [key |-> persister.key, stage |-> "write", buf |-> v]
  <2>1. persister = [key |-> persister.key, stage |-> persister.stage, buf |-> persister.buf]
    BY JobFields DEF PersisterReads, SetIInv, SetTypeOK
  <2> QED
    BY <1>3, <2>1
<1>6. persister' \in Jobs
  <2>1. [key |-> persister.key, stage |-> "write", buf |-> v] \in Jobs
    BY <1>1, <1>4, JobType
  <2> QED
    BY <1>5, <2>1
<1>7. faults' \in Nat /\ (faults' = 0 => faults = 0)
  BY DEF PersisterReads, Fault, SetIInv, SetTypeOK
<1>8. SetTypeOK'
  BY <1>6, <1>7 DEF PersisterReads, SetIInv, SetTypeOK
<1>9. RadioFollows'
  BY <1>5 DEF PersisterReads, SetIInv, RadioFollows
<1>10. ASSUME faults' = 0, NEW f \in Followed PROVE NotForgotten(f)' /\ NotStale(f)'
  <2>1. NotForgotten(f)'
    BY <1>5, <1>7, <1>10 DEF PersisterReads, SetIInv, NotForgotten, InHand, Announced
  <2>2. f # "manual" /\ (persister.key = KeyOf(f) => f \in FieldsOf(persister.key))
    BY Params
  <2>3. NotStale(f)'
    <3>1. persister'.key = persister.key /\ persister'.buf = v /\ live' = live
      <4>1. live' = live
        BY DEF PersisterReads
      <4>2. persister'.key = persister.key /\ persister'.buf = v
        BY <1>5
      <4> QED
        BY <4>1, <4>2
    <3>2. f \in FieldsOf(persister.key) => v[f] = live[f]
      BY <1>3, <2>2
    <3> QED
      BY <2>2, <3>1, <3>2 DEF NotStale, InHand
  <2> QED
    BY <2>1, <2>3
<1> QED
  BY <1>8, <1>9, <1>10 DEF SetIInv

LEMMA PersisterWritesInv == ASSUME SetIInv, NEW ok \in BOOLEAN, PersisterWrites(ok) PROVE SetIInv'
<1> USE DEF PersisterWrites
<1>1. persister.key \in ParamKeys /\ persister.buf \in [FieldsOf(persister.key) -> 0..1]
  BY JobFields DEF SetIInv, SetTypeOK
<1>2. /\ flashParams' \in Values
      /\ ok => \A f \in ParamFields : flashParams'[f] =
                   IF f \in FieldsOf(persister.key) THEN persister.buf[f] ELSE flashParams[f]
  <2>1. FieldsOf(persister.key) \subseteq ParamFields /\ flashParams \in Values
    BY <1>1, KeyFields DEF SetIInv, SetTypeOK
  <2>2. /\ Overlay(flashParams, persister.buf) \in Values
        /\ \A f \in ParamFields : Overlay(flashParams, persister.buf)[f] =
               IF f \in FieldsOf(persister.key) THEN persister.buf[f] ELSE flashParams[f]
    BY <1>1, <2>1, OverlayType
  <2> QED
    BY <2>1, <2>2
<1>3. persister' \in Jobs /\ persister'.key = "none" /\ persister'.stage = "none"
  BY Resting DEF Jobs
<1>4. faults' \in Nat /\ (faults' = 0 => faults = 0 /\ ok)
  BY DEF Fault, SetIInv, SetTypeOK
<1>5. SetTypeOK'
  BY <1>2, <1>3, <1>4 DEF SetIInv, SetTypeOK
<1>6. RadioFollows'
  BY DEF SetIInv, RadioFollows
<1>7. ASSUME faults' = 0, NEW f \in Followed PROVE NotForgotten(f)' /\ NotStale(f)'
  <2>1. KeyOf(f) \in ParamKeys /\ f \in ParamFields
    BY Params
  <2>2. f \in FieldsOf(persister.key) <=> persister.key = KeyOf(f)
    BY <1>1, Params DEF OtherFields
  <2>3. NotForgotten(f) /\ NotStale(f)
    BY <1>4, <1>7 DEF SetIInv
  <2>4. NotForgotten(f)'
    BY <1>2, <1>4, <1>7, <2>1, <2>2, <2>3 DEF NotForgotten, NotStale, Announced, InHand
  <2>5. NotStale(f)'
    BY <1>3 DEF NotStale
  <2> QED
    BY <2>4, <2>5
<1> QED
  BY <1>5, <1>6, <1>7 DEF SetIInv

LEMMA ListenerInv == ASSUME SetIInv, ListenerLoops \/ ListenerWakes PROVE SetIInv'
<1>1. CASE ListenerLoops
  <2> USE <1>1 DEF ListenerLoops
  <2>1. Only(live, RadioFields) \in [RadioFields -> 0..1] /\ \A f \in RadioFields : Only(live, RadioFields)[f] = live[f]
    BY OnlyType, Params DEF SetIInv, SetTypeOK
  <2>2. SetTypeOK'
    BY <2>1 DEF SetIInv, SetTypeOK
  <2>3. RadioFollows'
    <3>1. CASE live["lora"] = 1
      BY <3>1 DEF SetIInv, SetTypeOK, RadioFollows
    <3>2. CASE live["lora"] # 1
      <4>1. radioTask'.tuned = Only(live, RadioFields)
        BY <3>2 DEF SetIInv, SetTypeOK
      <4> QED
        BY <2>1, <4>1 DEF RadioFollows
    <3> QED
      BY <3>1, <3>2
  <2>4. ASSUME faults' = 0, NEW f \in Followed PROVE NotForgotten(f)' /\ NotStale(f)'
    <3>1. KeyOf(f) # "apply" /\ KeyOf(f) # "lora"
      BY Params
    <3> QED
      BY <2>4, <3>1 DEF SetIInv, NotForgotten, NotStale, Announced, InHand
  <2> QED
    BY <2>2, <2>3, <2>4 DEF SetIInv
<1>2. CASE ListenerWakes
  <2> USE <1>2 DEF ListenerWakes
  <2>2. SetTypeOK'
    BY DEF SetIInv, SetTypeOK
  <2>3. RadioFollows'
    BY DEF SetIInv, SetTypeOK, RadioFollows
  <2>4. ASSUME faults' = 0, NEW f \in Followed PROVE NotForgotten(f)' /\ NotStale(f)'
    <3>1. KeyOf(f) # "apply" /\ KeyOf(f) # "lora"
      BY Params
    <3> QED
      BY <2>4, <3>1 DEF SetIInv, NotForgotten, NotStale, Announced, InHand
  <2> QED
    BY <2>2, <2>3, <2>4 DEF SetIInv
<1> QED
  BY <1>1, <1>2

LEMMA TickerInv == ASSUME SetIInv, TickerRuns PROVE SetIInv'
<1> USE DEF TickerRuns
<1>1. SetTypeOK'
  BY DEF SetIInv, SetTypeOK
<1> QED
  BY <1>1, RestInv DEF SetIInv

LEMMA BleMovesInv == ASSUME SetIInv, BleTop \/ BleMoves \/ MenuFactoryReset PROVE SetIInv'
<1>1. CASE BleTop
  <2> USE <1>1 DEF BleTop
  <2>1. /\ Only(live, RadioFields) \in [RadioFields -> 0..1]
        /\ Only(live, {"loc", "tele"}) \in [{"loc", "tele"} -> 0..1]
    BY OnlyType, Params DEF SetIInv, SetTypeOK
  <2>2. Overlay(ble.other, Only(live, {"loc", "tele"})) \in [OtherFields -> 0..1]
    BY <2>1 DEF Overlay, SetIInv, SetTypeOK, OtherFields
  <2>3. SetTypeOK'
    BY <2>1, <2>2 DEF SetIInv, SetTypeOK
  <2> QED
    BY <2>3, RestInv DEF SetIInv
<1>2. CASE BleMoves
  <2> USE <1>2 DEF BleMoves
  <2>1. SetTypeOK'
    BY DEF SetIInv, SetTypeOK
  <2> QED
    BY <2>1, RestInv DEF SetIInv
<1>3. CASE MenuFactoryReset
  <2> USE <1>3 DEF MenuFactoryReset
  <2>1. SetTypeOK'
    BY DEF SetIInv, SetTypeOK
  <2> QED
    BY <2>1, RestInv DEF SetIInv
<1> QED
  BY <1>1, <1>2, <1>3

LEMMA BleSetsRadioInv ==
    ASSUME SetIInv, NEW f \in RadioFields, NEW v \in 0..1, BleSetsRadio(f, v) PROVE SetIInv'
<1> USE DEF BleSetsRadio, Commanded
<1>1. ble'.radio \in [RadioFields -> 0..1]
  BY DEF SetIInv, SetTypeOK
<1>2. live' \in Values /\ \A x \in ParamFields : x \notin RadioFields => live'[x] = live[x]
  BY <1>1, OverlayType, Params DEF SetIInv, SetTypeOK
<1>3. SetTypeOK'
  BY <1>1, <1>2 DEF SetIInv, SetTypeOK
<1>4. \A g \in Followed : live'[g] # live[g] => KeyOf(g) \in raised'
  BY <1>2, Params
<1> QED
  BY <1>2, <1>3, <1>4, ChangeInv DEF SetIInv

LEMMA BleSetsInv ==
    ASSUME SetIInv, (\E o \in [OtherFields -> 0..1] : BleSetsOther(o)) \/ (\E v \in 0..1 : BleSetsPath(v))
    PROVE  SetIInv'
<1>1. ASSUME NEW o \in [OtherFields -> 0..1], BleSetsOther(o) PROVE SetIInv'
  <2> USE <1>1 DEF BleSetsOther, Commanded
  <2>1. o["loc"] \in 0..1
    BY DEF OtherFields
  <2>2. live' \in Values /\ \A g \in Followed : live'[g] = live[g]
    BY <2>1, Params DEF SetIInv, SetTypeOK, Values
  <2>3. SetTypeOK'
    BY <2>2 DEF SetIInv, SetTypeOK
  <2> QED
    BY <2>2, <2>3, ChangeInv DEF SetIInv
<1>2. ASSUME NEW v \in 0..1, BleSetsPath(v) PROVE SetIInv'
  <2> USE <1>2 DEF BleSetsPath, Commanded
  <2>3. SetTypeOK'
    BY DEF SetIInv, SetTypeOK
  <2> QED
    BY <2>3, RestInv DEF SetIInv
<1> QED
  BY <1>1, <1>2

LEMMA BleWritesInv == ASSUME SetIInv, NEW ok \in BOOLEAN, BleWrites(ok) PROVE SetIInv'
<1> USE DEF BleWrites
<1>1. PICK K, piece :
          /\ piece \in [K -> 0..1] /\ K \subseteq ParamFields /\ K \intersect Followed = {}
          /\ piece = IF ble.job = "other" THEN ble.other ELSE [path |-> ble.arg]
  <2>1. CASE ble.job = "other"
    <3>1. OtherFields \subseteq ParamFields /\ OtherFields \intersect Followed = {}
      BY Params DEF OtherFields
    <3>2. ble.other \in [OtherFields -> 0..1]
      BY DEF SetIInv, SetTypeOK
    <3> QED
      BY <2>1, <3>1, <3>2
  <2>2. CASE ble.job # "other"
    <3>1. {"path"} \subseteq ParamFields /\ {"path"} \intersect Followed = {}
      BY Params
    <3>2. [path |-> ble.arg] \in [{"path"} -> 0..1]
      BY DEF SetIInv, SetTypeOK
    <3> QED
      BY <2>2, <3>1, <3>2
  <2> QED
    BY <2>1, <2>2
<1>2. /\ flashParams' = IF ok THEN Overlay(flashParams, piece) ELSE flashParams
      /\ live' = IF ok /\ ble.job = "path" THEN Overlay(live, piece) ELSE live
  BY <1>1
<1>3. /\ flashParams' \in Values /\ live' \in Values
      /\ \A f \in Followed : flashParams'[f] = flashParams[f] /\ live'[f] = live[f]
  BY <1>1, <1>2, OverlayType, Params DEF SetIInv, SetTypeOK
<1>4. faults' \in Nat /\ (faults' = 0 => faults = 0)
  BY DEF Fault, SetIInv, SetTypeOK
<1>5. SetTypeOK'
  BY <1>3, <1>4 DEF SetIInv, SetTypeOK
<1>6. RadioFollows'
  BY <1>3, Params DEF SetIInv, RadioFollows
<1>7. ASSUME faults' = 0, NEW f \in Followed PROVE NotForgotten(f)' /\ NotStale(f)'
  BY <1>3, <1>4, <1>7 DEF SetIInv, NotForgotten, NotStale, Announced, InHand
<1> QED
  BY <1>5, <1>6, <1>7 DEF SetIInv

LEMMA ResetInv == ASSUME SetIInv, PowerCycle \/ FactoryReset PROVE SetIInv'
<1>1. flashParams' \in Values /\ BadgeRestarts
  BY DEF PowerCycle, FactoryReset, SetIInv, SetTypeOK, Values
<1> QED
  BY <1>1, BootInv

LEMMA SetNextInv == SetIInv /\ [SettingsNext]_setVars => SetIInv'
<1> SUFFICES ASSUME SetIInv, [SettingsNext]_setVars PROVE SetIInv'
  OBVIOUS
<1>1. CASE UNCHANGED setVars
  <2>1. SetTypeOK'
    BY <1>1 DEF SetIInv, SetTypeOK, setVars
  <2> QED
    BY <1>1, <2>1, RestInv DEF SetIInv, setVars
<1>2. CASE SettingsNext
  BY <1>2, MenuSetsInv, PersisterTakesInv, PersisterReadsInv, PersisterWritesInv, ListenerInv,
     TickerInv, BleMovesInv, BleSetsRadioInv, BleSetsInv, BleWritesInv, ResetInv DEF SettingsNext
<1> QED
  BY <1>1, <1>2

(* However changes of the menu and of the app overlap with the writes of    *)
(* the persister (persister.rs:80-92, 157-183), what it alone persists is   *)
(* in flash once it rests, and a listening radio with no change to apply    *)
(* runs with exactly the stored parameters, as long as no write failed.     *)
THEOREM SettingsReachFlash == SettingsSpec => []ChangesReachFlash
<1>1. SetIInv => ChangesReachFlash
  <2> SUFFICES ASSUME SetIInv, Settled PROVE
        /\ \A f \in {"tz"} \union RadioFields : flashParams[f] = live[f]
        /\ radioTask.mode = "rx" /\ "apply" \notin raised => radioTask.tuned = Only(flashParams, RadioFields)
    BY DEF ChangesReachFlash
  <2>1. ASSUME NEW f \in Followed PROVE flashParams[f] = live[f]
    BY Resting, Params DEF Settled, SetIInv, NotForgotten, Announced, InHand
  <2>2. ASSUME "apply" \notin raised PROVE radioTask.tuned = Only(flashParams, RadioFields)
    <3>1. persister.key # "radio" /\ "radio" \notin raised
      BY Resting DEF Settled
    <3>2. \A f \in RadioFields : radioTask.tuned[f] = flashParams[f]
      BY <2>1, <2>2, <3>1, Params DEF SetIInv, RadioFollows
    <3>3. radioTask.tuned \in [RadioFields -> 0..1]
      BY DEF SetIInv, SetTypeOK
    <3> QED
      BY <3>2, <3>3 DEF Only
  <2> QED
    BY <2>1, <2>2 DEF Followed
<1> QED
  BY <1>1, SetInitInv, SetNextInv, PTL DEF SettingsSpec

-----------------------------------------------------------------------------

(***************************************************************************)
(* The alarm clock.                                                        *)
(***************************************************************************)

KeySet == {"hour", "minute", "on", "days", "tone", "face"}
AlarmRecord(a) ==
    /\ a = [on |-> a.on, hour |-> a.hour, minute |-> a.minute,
            days |-> a.days, day |-> a.day, tone |-> a.tone]
    /\ a.on \in BOOLEAN

AlarmTypeOK ==
    /\ wall = NoTime \/ wall \in Nat
    /\ clockSets \in Nat
    /\ wakeIn \in 0..SecsPerMin /\ steady \in 0..SecsPerMin
    /\ slots = [s \in {0} \union DOMAIN Events |-> slots[s]] /\ \A s \in DOMAIN slots : AlarmRecord(slots[s])
    /\ edit = [on |-> edit.on, field |-> edit.field, active |-> edit.active]
    /\ edit.field \in {"Hour", "Minute", "Days", "Tone", "Enabled"}
    /\ edit.active \in BOOLEAN /\ (edit.active => edit.field # "Enabled")
    /\ ringing \in BOOLEAN /\ ringSig \in BOOLEAN /\ dirty \in BOOLEAN
    /\ sinceRing \in 0..Long
    /\ ringTask \in [left : 0..RingRepeats, due : 0..RepeatSecs]
    /\ writing \in Seq(KeySet)
    /\ flash = [k \in KeySet |-> flash[k]] /\ flash["on"] \in BOOLEAN

(* What rings is either announced to the task this very second, or the task *)
(* is playing it and has not been at it for longer than its repeats say.    *)
RingEnds ==
    ringing => IF ringTask.left = 0 THEN ringSig /\ sinceRing = 0
               ELSE sinceRing <= (RingRepeats - ringTask.left) * RepeatSecs
                                     + (RepeatSecs - ringTask.due)

(* A key that flash does not hold as it is set is still to be written.      *)
KeyPending(k) == dirty \/ (\E i \in 1..Len(writing) : writing[i] = k) \/ flash[k] = Value(k)
KeptInTime == \A k \in KeySet : KeyPending(k)

(* Either the tick is aligned with the minutes of the clock, or the clock   *)
(* has been set since the last tick and the next one comes before it has    *)
(* been steady for a minute.                                                *)
Aligned(w, x) == \E q \in Int : w + x = q * SecsPerMin
TickInTime == wall # NoTime => steady + wakeIn <= SecsPerMin \/ Aligned(wall, wakeIn)
(* An alarm still due after the tick of its minute has just gone off.       *)
TickedAndRung ==
    wall # NoTime /\ wakeIn = SecsPerMin /\ steady = SecsPerMin
        => \A s \in DOMAIN slots : Due(s, wall) => sinceRing = 0

AlarmIInv == AlarmTypeOK /\ RingEnds /\ KeptInTime /\ TickInTime /\ TickedAndRung

-----------------------------------------------------------------------------
LEMMA Multiples ==
    /\ \A a, b \in Nat : a * b \in Nat
    /\ \A a, b \in Int : a * b \in Int
    /\ \A a, b \in Int : (a + 1) * b = a * b + b /\ (a - 1) * b = a * b - b
    /\ \A a \in Nat : 0 * a = 0
    /\ \A a, b, c \in Nat : a <= b => a * c <= b * c
<1>1. \A a, b, c \in Nat : a <= b => a * c <= b * c
  <2> SUFFICES ASSUME NEW a \in Nat, NEW b \in Nat, NEW c \in Nat, a <= b PROVE a * c <= b * c
    OBVIOUS
  <2>1. b - a \in Nat /\ (b - a) * c \in Nat
    OBVIOUS
  <2>2. b * c = a * c + (b - a) * c
    OBVIOUS
  <2> QED
    BY <2>1, <2>2
<1> QED
  BY <1>1

LEMMA Division ==
    \A w \in Nat, n \in Nat : n > 0 =>
        w % n \in 0..n - 1 /\ w \div n \in Int /\ w = (w \div n) * n + (w % n)
OBVIOUS

LEMMA Sizes ==
    /\ SecsPerMin \in Nat \ {0} /\ RepeatSecs \in Nat \ {0} /\ RingRepeats \in Nat \ {0}
    /\ RingRepeats * RepeatSecs \in Nat /\ Long = RingRepeats * RepeatSecs + 2
BY AlarmConstants, Multiples DEF Long

LEMMA KeysAreKeys ==
    /\ Len(Keys) = 6 /\ Keys \in Seq(KeySet)
    /\ \A k \in KeySet : \E i \in 1..Len(Keys) : Keys[i] = k
    /\ {Keys[i] : i \in DOMAIN Keys} = KeySet
<1>1. Len(Keys) = 6 /\ Keys \in Seq(KeySet) /\ 1..6 = {1, 2, 3, 4, 5, 6} /\ DOMAIN Keys = 1..6
  BY DEF Keys, KeySet
<1>2. \A k \in KeySet : \E i \in 1..6 : Keys[i] = k
  BY DEF Keys, KeySet
<1>3. \A i \in 1..6 : Keys[i] \in KeySet
  BY DEF Keys, KeySet
<1> QED
  BY <1>1, <1>2, <1>3

LEMMA ImportedType ==
    ASSUME NEW a, AlarmRecord(a)
    PROVE  /\ Imported(a) = [s \in {0} \union DOMAIN Events |-> Imported(a)[s]]
           /\ Imported(a)[0] = a
           /\ \A s \in {0} \union DOMAIN Events : AlarmRecord(Imported(a)[s])
<1>1. ASSUME NEW s \in {0} \union DOMAIN Events PROVE AlarmRecord(Imported(a)[s])
  BY DEF Imported, DefaultAlarm, AlarmRecord
<1> QED
  BY <1>1 DEF Imported

LEMMA AlarmInitInv == AlarmInit => AlarmIInv
<1> SUFFICES ASSUME AlarmInit PROVE AlarmIInv
  OBVIOUS
<1>1. PICK on \in BOOLEAN : slots = Imported([DefaultAlarm EXCEPT !.on = on])
  BY DEF AlarmInit
<1>2. AlarmRecord([DefaultAlarm EXCEPT !.on = on])
  BY DEF DefaultAlarm, AlarmRecord
<1>3. /\ slots = [s \in {0} \union DOMAIN Events |-> slots[s]]
      /\ slots[0] = [DefaultAlarm EXCEPT !.on = on] /\ slots[0].on \in BOOLEAN
      /\ \A s \in {0} \union DOMAIN Events : AlarmRecord(slots[s])
  <2>1. [DefaultAlarm EXCEPT !.on = on].on = on
    BY DEF DefaultAlarm
  <2> DEFINE a == [DefaultAlarm EXCEPT !.on = on]
  <2>2. AlarmRecord(a) /\ slots = Imported(a)
    BY <1>1, <1>2
  <2> HIDE DEF a
  <2>3. slots = [s \in {0} \union DOMAIN Events |-> slots[s]] /\ slots[0] = a
        /\ \A s \in {0} \union DOMAIN Events : AlarmRecord(slots[s])
    BY <2>2, ImportedType, Zenon
  <2> USE DEF a
  <2> QED
    BY <2>1, <2>3
<1>4. flash = [k \in KeySet |-> Value(k)]
  BY KeysAreKeys DEF AlarmInit
<1>5. flash["on"] = slots[0].on
  BY <1>4 DEF KeySet, Value
<1>6. /\ edit = [on |-> FALSE, field |-> "Hour", active |-> FALSE]
      /\ ringTask = [left |-> 0, due |-> 0] /\ writing = << >> /\ sinceRing = Long
      /\ ringing = FALSE /\ ringSig = FALSE /\ dirty = FALSE
      /\ wall = NoTime /\ wakeIn = SecsPerMin /\ steady = 0 /\ clockSets = 0
  BY DEF AlarmInit, NormalMode, TaskWaits
<1>7. AlarmTypeOK
  <2>1. DOMAIN slots = {0} \union DOMAIN Events
    BY <1>3
  <2>2. flash = [k \in KeySet |-> flash[k]] /\ flash["on"] \in BOOLEAN
    BY <1>3, <1>4, <1>5
  <2>3. sinceRing \in 0..Long /\ writing \in Seq(KeySet)
    BY <1>6, Sizes
  <2>4. ringTask \in [left : 0..RingRepeats, due : 0..RepeatSecs]
    BY <1>6, Sizes
  <2>5. /\ edit = [on |-> edit.on, field |-> edit.field, active |-> edit.active]
        /\ edit.field \in {"Hour", "Minute", "Days", "Tone", "Enabled"}
        /\ edit.active \in BOOLEAN /\ (edit.active => edit.field # "Enabled")
    BY <1>6
  <2> QED
    <3>1. wall = NoTime /\ clockSets \in Nat /\ wakeIn \in 0..SecsPerMin /\ steady \in 0..SecsPerMin
      BY <1>6, Sizes
    <3>2. ringing \in BOOLEAN /\ ringSig \in BOOLEAN /\ dirty \in BOOLEAN
      BY <1>6
    <3> QED
      BY <1>3, <2>1, <2>2, <2>3, <2>4, <2>5, <3>1, <3>2, Zenon DEF AlarmTypeOK
<1>8. KeptInTime
  BY <1>4 DEF KeptInTime, KeyPending
<1> QED
  BY <1>6, <1>7, <1>8, Sizes DEF AlarmIInv, RingEnds, TickInTime, TickedAndRung

-----------------------------------------------------------------------------
(* The clock and the alarm that rings keep their parts of the invariant in  *)
(* a step that does not touch them, and the same for what flash is owed.    *)
LEMMA SameTimes ==
    ASSUME AlarmIInv, UNCHANGED <<wall, wakeIn>>, steady' = steady \/ steady' = 0,
           steady' = steady => slots' = slots, sinceRing' = sinceRing
    PROVE  TickInTime' /\ TickedAndRung'
<1>1. TickInTime'
  <2>1. wall' # NoTime => Aligned(wall, wakeIn) \/ steady + wakeIn <= SecsPerMin
    BY DEF AlarmIInv, TickInTime
  <2>2. Aligned(wall, wakeIn) => Aligned(wall, wakeIn)'
    BY DEF Aligned
  <2>3. steady' + wakeIn' <= SecsPerMin \/ steady' + wakeIn' = steady + wakeIn
    BY Sizes DEF AlarmIInv, AlarmTypeOK
  <2> QED
    BY <2>1, <2>2, <2>3 DEF TickInTime
<1>2. TickedAndRung'
  BY Sizes DEF AlarmIInv, TickedAndRung, Due
<1> QED
  BY <1>1, <1>2

LEMMA SameKept ==
    ASSUME AlarmIInv, UNCHANGED <<writing, flash>>,
           dirty' \/ ((dirty => dirty') /\ face' = face /\ slots'[0] = slots[0])
    PROVE  KeptInTime'
BY DEF AlarmIInv, KeptInTime, KeyPending, Value

LEMMA TickAligns == ASSUME NEW w \in Nat PROVE
    /\ ToNextMinute(w) \in 1..SecsPerMin \/ w = NoTime
    /\ w # NoTime => Aligned(w, ToNextMinute(w))
<1>1. w % SecsPerMin \in 0..SecsPerMin - 1 /\ w \div SecsPerMin \in Int
      /\ w = (w \div SecsPerMin) * SecsPerMin + (w % SecsPerMin)
  <2>1. SecsPerMin \in Nat /\ SecsPerMin > 0
    BY Sizes
  <2> QED
    BY <2>1, Division
<1>2. ASSUME w # NoTime PROVE Aligned(w, ToNextMinute(w))
  <2>1. ((w \div SecsPerMin) + 1) * SecsPerMin = (w \div SecsPerMin) * SecsPerMin + SecsPerMin
    BY <1>1, Sizes, Multiples
  <2>2. w + (SecsPerMin - (w % SecsPerMin)) = ((w \div SecsPerMin) + 1) * SecsPerMin
    BY <1>1, <2>1, Sizes
  <2>3. (w \div SecsPerMin) + 1 \in Int
    BY <1>1
  <2> QED
    BY <1>2, <2>2, <2>3 DEF Aligned, ToNextMinute
<1> QED
  BY <1>1, <1>2, Sizes DEF ToNextMinute

LEMMA MinuteTickInv == ASSUME AlarmIInv, MinuteTick PROVE AlarmIInv'
<1> DEFINE due == IF wall = NoTime THEN {} ELSE {s \in DOMAIN slots : Due(s, wall)}
<1> DEFINE spent == {s \in due : slots[s].day # NoDay}
<1>1. /\ wakeIn = 0 /\ wakeIn' = ToNextMinute(wall)
      /\ slots' = [s \in DOMAIN slots |-> [slots[s] EXCEPT !.on = @ /\ s \notin spent]]
      /\ dirty' = (dirty \/ spent # {})
      /\ ringing' = (ringing \/ due # {})
      /\ ringSig' = (ringSig \/ due # {})
      /\ sinceRing' = IF due # {} THEN 0 ELSE sinceRing
      /\ UNCHANGED <<wall, steady, face, edit, ringTask, writing, flash, countVars>>
  BY DEF MinuteTick
<1>2. 0 \in DOMAIN slots /\ DOMAIN slots = {0} \union DOMAIN Events
  BY DEF AlarmIInv, AlarmTypeOK
<1>3. DOMAIN slots' = {0} \union DOMAIN Events /\ slots' = [s \in {0} \union DOMAIN Events |-> slots'[s]]
      /\ \A s \in DOMAIN slots : slots'[s] = [slots[s] EXCEPT !.on = @ /\ s \notin spent]
  BY <1>1, <1>2
<1>4. ASSUME NEW s \in DOMAIN slots
      PROVE  /\ AlarmRecord(slots'[s]) /\ (spent = {} => slots'[s] = slots[s])
             /\ slots'[s].hour = slots[s].hour /\ slots'[s].minute = slots[s].minute
             /\ slots'[s].day = slots[s].day /\ slots'[s].days = slots[s].days
             /\ slots'[s].on => slots[s].on
  <2> HIDE DEF spent
  <2>1. AlarmRecord(slots[s]) /\ slots'[s] = [slots[s] EXCEPT !.on = @ /\ s \notin spent]
    BY <1>3 DEF AlarmIInv, AlarmTypeOK
  <2>2. slots'[s] = [on |-> slots[s].on /\ s \notin spent, hour |-> slots[s].hour, minute |-> slots[s].minute,
                     days |-> slots[s].days, day |-> slots[s].day, tone |-> slots[s].tone]
    BY <2>1 DEF AlarmRecord
  <2>3. AlarmRecord(slots'[s])
    BY <2>2 DEF AlarmRecord
  <2>4. spent = {} => (slots[s].on /\ s \notin spent) = slots[s].on
    BY <2>1 DEF AlarmRecord
  <2> QED
    BY <2>1, <2>2, <2>3, <2>4 DEF AlarmRecord
<1> HIDE DEF spent
<1>5. wakeIn' \in 1..SecsPerMin /\ (wall # NoTime => Aligned(wall, wakeIn'))
  <2>1. CASE wall = NoTime
    BY <1>1, <2>1, Sizes DEF ToNextMinute
  <2>2. CASE wall # NoTime
    BY <1>1, <2>2, TickAligns DEF AlarmIInv, AlarmTypeOK
  <2> QED
    BY <2>1, <2>2
<1>6. AlarmTypeOK'
  <2>1. dirty' \in BOOLEAN /\ ringing' \in BOOLEAN /\ ringSig' \in BOOLEAN /\ sinceRing' \in 0..Long
    BY <1>1, Sizes DEF AlarmIInv, AlarmTypeOK
  <2>2. wakeIn' \in 0..SecsPerMin
    BY <1>5, Sizes
  <2> HIDE DEF due
  <2> QED
    BY <1>1, <1>3, <1>4, <2>1, <2>2 DEF AlarmIInv, AlarmTypeOK, countVars
<1>7. RingEnds'
  <2>1. CASE due = {}
    BY <1>1, <2>1 DEF AlarmIInv, RingEnds
  <2>2. CASE due # {}
    <3>1. ringSig' = TRUE /\ sinceRing' = 0 /\ ringTask' = ringTask
      BY <1>1, <2>2
    <3>2. RingRepeats - ringTask.left \in Nat /\ RepeatSecs - ringTask.due \in Nat
      <4>1. ringTask.left \in 0..RingRepeats /\ ringTask.due \in 0..RepeatSecs
        BY DEF AlarmIInv, AlarmTypeOK
      <4> QED
        BY <4>1, Sizes
    <3>3. (RingRepeats - ringTask.left) * RepeatSecs \in Nat
      BY <3>2, Sizes, Multiples
    <3> QED
      BY <3>1, <3>2, <3>3 DEF RingEnds
  <2> QED
    BY <2>1, <2>2
<1>8. KeptInTime'
  <2>1. CASE spent = {}
    BY <1>1, <1>2, <1>4, <2>1, SameKept DEF AlarmIInv, AlarmTypeOK
  <2>2. CASE spent # {}
    <3>1. dirty'
      BY <1>1, <2>2
    <3> QED
      BY <3>1 DEF KeptInTime, KeyPending
  <2> QED
    BY <2>1, <2>2
<1>9. TickInTime' /\ TickedAndRung'
  <2>1. TickInTime'
    BY <1>1, <1>5 DEF TickInTime, Aligned
  <2>2. ASSUME wall' # NoTime, NEW s \in DOMAIN slots', Due(s, wall)' PROVE sinceRing' = 0
    <3>1. s \in DOMAIN slots /\ slots'[s] = [slots[s] EXCEPT !.on = @ /\ s \notin spent]
      BY <1>1, <2>2
    <3>2. Due(s, wall)
      BY <1>1, <1>4, <2>2, <3>1 DEF Due
    <3> QED
      BY <1>1, <2>2, <3>1, <3>2
  <2> QED
    BY <2>1, <2>2 DEF TickedAndRung
<1> QED
  BY <1>6, <1>7, <1>8, <1>9 DEF AlarmIInv

LEMMA RingTaskInv == ASSUME AlarmIInv, RingStarts \/ RingRepeat PROVE AlarmIInv'
<1> DEFINE L == ringTask.left
<1>0. /\ L \in 0..RingRepeats /\ ringTask.due \in 0..RepeatSecs /\ sinceRing \in 0..Long
      /\ ringTask = [left |-> L, due |-> ringTask.due]
  BY DEF AlarmIInv, AlarmTypeOK
<1>1. /\ UNCHANGED <<timeVars, slots, face, edit, sinceRing, keepVars, countVars>>
      /\ ringTask' \in [left : 0..RingRepeats, due : 0..RepeatSecs]
      /\ ringing' \in BOOLEAN /\ ringSig' \in BOOLEAN
  <2>1. UNCHANGED <<timeVars, slots, face, edit, sinceRing, keepVars, countVars>>
    BY DEF RingStarts, RingRepeat
  <2>2. ringing' \in BOOLEAN /\ ringSig' \in BOOLEAN
    BY DEF RingStarts, RingRepeat, AlarmIInv, AlarmTypeOK
  <2>3. ringTask' \in [left : 0..RingRepeats, due : 0..RepeatSecs]
    <3>1. TaskWaits \in [left : 0..RingRepeats, due : 0..RepeatSecs]
      BY Sizes DEF TaskWaits
    <3>2. \A x \in 0..RingRepeats : [left |-> x, due |-> RepeatSecs] \in [left : 0..RingRepeats, due : 0..RepeatSecs]
      BY Sizes
    <3>3. L > 0 => L - 1 \in 0..RingRepeats /\ RingRepeats \in 0..RingRepeats
      BY <1>0, Sizes
    <3>4. RingRepeats \in 0..RingRepeats
      BY Sizes
    <3> QED
      BY <3>1, <3>2, <3>3, <3>4 DEF RingStarts, RingRepeat
  <2> QED
    BY <2>1, <2>2, <2>3
<1>2. AlarmTypeOK'
  BY <1>1 DEF AlarmIInv, AlarmTypeOK, timeVars, keepVars, countVars
<1>3. RingEnds'
  <2>1. CASE RingStarts
    <3>1. /\ L = 0 /\ ringTask'.left = RingRepeats /\ ringTask'.due = RepeatSecs /\ ringing' = ringing
          /\ sinceRing' = sinceRing /\ RingRepeats # 0
      BY <2>1, Sizes DEF RingStarts
    <3>2. RingRepeats - RingRepeats = 0 /\ 0 * RepeatSecs = 0 /\ RepeatSecs - RepeatSecs = 0
      BY Sizes
    <3>3. ringing => sinceRing = 0
      BY <3>1 DEF AlarmIInv, RingEnds
    <3> QED
      BY <3>1, <3>2, <3>3 DEF RingEnds
  <2>2. CASE RingRepeat /\ ringing /\ L > 1
    <3>1. /\ ringTask'.left = L - 1 /\ ringTask'.due = RepeatSecs /\ ringTask.due = 0
          /\ sinceRing' = sinceRing /\ L # 0 /\ L - 1 # 0
      BY <1>0, <2>2 DEF RingRepeat
    <3>2. (RingRepeats - (L - 1)) * RepeatSecs = (RingRepeats - L) * RepeatSecs + RepeatSecs
      <4>1. RingRepeats - L \in Int /\ RingRepeats - (L - 1) = (RingRepeats - L) + 1
        BY <1>0, Sizes
      <4> QED
        BY <4>1, Multiples, Sizes
    <3>3. sinceRing <= (RingRepeats - L) * RepeatSecs + (RepeatSecs - 0)
      BY <2>2, <3>1 DEF AlarmIInv, RingEnds
    <3>4. (RingRepeats - L) * RepeatSecs \in Int /\ sinceRing \in Int /\ RepeatSecs \in Int
      BY <1>0, Sizes, Multiples
    <3> HIDE DEF L
    <3>5. sinceRing <= (RingRepeats - (L - 1)) * RepeatSecs + (RepeatSecs - RepeatSecs)
      BY <3>2, <3>3, <3>4
    <3> QED
      BY <3>1, <3>5 DEF RingEnds
  <2>3. CASE RingRepeat /\ ~(ringing /\ L > 1)
    BY <2>3 DEF RingRepeat, RingEnds
  <2> QED
    BY <2>1, <2>2, <2>3
<1>4. KeptInTime'
  BY <1>1, SameKept DEF keepVars
<1>5. TickInTime' /\ TickedAndRung'
  BY <1>1, SameTimes DEF timeVars
<1> QED
  BY <1>2, <1>3, <1>4, <1>5 DEF AlarmIInv

LEMMA SecondInv == ASSUME AlarmIInv, Second PROVE AlarmIInv'
<1> DEFINE L == ringTask.left
<1>0. /\ L \in 0..RingRepeats /\ ringTask.due \in 0..RepeatSecs /\ sinceRing \in 0..Long
      /\ ringTask = [left |-> L, due |-> ringTask.due]
      /\ wakeIn \in 1..SecsPerMin /\ steady \in 0..SecsPerMin
  BY DEF AlarmIInv, AlarmTypeOK, Second, TimeMayPass
<1>1. /\ wakeIn' = wakeIn - 1 /\ wakeIn' \in 0..SecsPerMin - 1 /\ steady' \in 0..SecsPerMin
      /\ UNCHANGED <<slots, face, edit, ringing, ringSig, keepVars, countVars>>
      /\ wall' = NoTime \/ wall' \in Nat
  <2>1. wakeIn' = wakeIn - 1 /\ UNCHANGED <<slots, face, edit, ringing, ringSig, keepVars, countVars>>
    BY DEF Second
  <2>2. wakeIn' \in 0..SecsPerMin - 1
    BY <1>0, <2>1, Sizes
  <2>3. steady' \in 0..SecsPerMin
    BY <1>0, Sizes DEF Second
  <2>4. wall' = NoTime \/ wall' \in Nat
    BY DEF Second, AlarmIInv, AlarmTypeOK
  <2> QED
    BY <2>1, <2>2, <2>3, <2>4
<1>2. sinceRing' = IF sinceRing < Long THEN sinceRing + 1 ELSE Long
  BY DEF Second
<1>3. /\ ringTask' = [left |-> L, due |-> IF L > 0 THEN ringTask.due - 1 ELSE ringTask.due]
      /\ L > 0 => ringTask.due > 0
      /\ ringSig => L # 0
  BY <1>0 DEF Second, TimeMayPass
<1>4. AlarmTypeOK'
  <2>1. sinceRing' \in 0..Long
    BY <1>0, <1>2, Sizes
  <2>2. ringTask' \in [left : 0..RingRepeats, due : 0..RepeatSecs]
    BY <1>0, <1>3, Sizes
  <2>3. wakeIn' \in 0..SecsPerMin
    BY <1>1, Sizes
  <2> QED
    BY <1>1, <2>1, <2>2, <2>3 DEF AlarmIInv, AlarmTypeOK, keepVars, countVars
<1>5. RingEnds'
  <2> SUFFICES ASSUME ringing PROVE RingEnds'
    BY <1>1 DEF RingEnds
  <2>1. L # 0
    BY <1>3 DEF AlarmIInv, RingEnds
  <2>2. sinceRing <= (RingRepeats - L) * RepeatSecs + (RepeatSecs - ringTask.due)
    BY <2>1 DEF AlarmIInv, RingEnds
  <2>3. ringTask'.left = L /\ ringTask'.due = ringTask.due - 1
    BY <1>0, <1>3, <2>1
  <2>4. (RingRepeats - L) * RepeatSecs \in Int /\ RepeatSecs \in Int
    BY <1>0, Sizes, Multiples
  <2> HIDE DEF L
  <2>5. sinceRing' <= (RingRepeats - L) * RepeatSecs + (RepeatSecs - (ringTask.due - 1))
    BY <1>0, <1>2, <2>2, <2>4, Sizes
  <2> QED
    BY <2>1, <2>3, <2>5 DEF RingEnds
<1>6. KeptInTime'
  BY <1>1, SameKept DEF keepVars
<1>7. TickInTime'
  <2> SUFFICES ASSUME wall' # NoTime PROVE steady' + wakeIn' <= SecsPerMin \/ Aligned(wall, wakeIn)'
    BY DEF TickInTime
  <2>1. wall # NoTime /\ wall' = wall + 1 /\ steady' = IF steady < SecsPerMin THEN steady + 1 ELSE steady
    BY DEF Second
  <2>2. CASE Aligned(wall, wakeIn)
    <3>1. wall \in Nat /\ wall' + wakeIn' = wall + wakeIn
      BY <1>0, <1>1, <2>1 DEF AlarmIInv, AlarmTypeOK
    <3> QED
      BY <2>2, <3>1 DEF Aligned
  <2>3. CASE steady + wakeIn <= SecsPerMin
    BY <1>0, <1>1, <2>1, <2>3, Sizes
  <2> QED
    BY <2>1, <2>2, <2>3 DEF AlarmIInv, TickInTime
<1>8. TickedAndRung'
  BY <1>1, Sizes DEF TickedAndRung
<1> QED
  BY <1>4, <1>5, <1>6, <1>7, <1>8 DEF AlarmIInv

LEMMA SetClockInv == ASSUME AlarmIInv, NEW w \in Nat, SetClock(w) PROVE AlarmIInv'
<1> USE DEF SetClock, ringVars, keepVars
<1>1. AlarmTypeOK'
  <2>1. steady' \in 0..SecsPerMin /\ wall' \in Nat
    BY Sizes
  <2>2. clockSets' \in Nat
    BY DEF AlarmIInv, AlarmTypeOK
  <2> QED
    BY <2>1, <2>2 DEF AlarmIInv, AlarmTypeOK
<1>2. RingEnds'
  BY DEF AlarmIInv, RingEnds
<1>3. KeptInTime'
  BY SameKept
<1>4. TickInTime' /\ TickedAndRung'
  BY Sizes DEF AlarmIInv, AlarmTypeOK, TickInTime, TickedAndRung
<1> QED
  BY <1>1, <1>2, <1>3, <1>4 DEF AlarmIInv

FieldSet == {"Hour", "Minute", "Days", "Tone", "Enabled"}
EditOK(e) ==
    /\ e = [on |-> e.on, field |-> e.field, active |-> e.active]
    /\ e.field \in FieldSet /\ e.active \in BOOLEAN /\ (e.active => e.field # "Enabled")

LEMMA MoveType == ASSUME EditOK(edit), ~edit.active, NEW n, MoveTo(n) PROVE EditOK(edit')
<1>1. \A i \in DOMAIN Fields : Fields[i] \in FieldSet
  <2>1. DOMAIN Fields = {1, 2, 3, 4, 5}
    BY DEF Fields
  <2> QED
    BY <2>1 DEF Fields, FieldSet
<1>2. CASE n \in DOMAIN Fields
  <2>1. PICK f \in FieldSet : edit' = [edit EXCEPT !.field = f]
    BY <1>1, <1>2 DEF MoveTo
  <2> QED
    BY <2>1 DEF EditOK
<1>3. CASE n \notin DOMAIN Fields
  BY <1>3 DEF MoveTo
<1> QED
  BY <1>2, <1>3

(* What a press on the edit screen can do to the alarm. *)
LEMMA AlarmSet ==
    ASSUME AlarmTypeOK, NEW a, AlarmRecord(a), Alarm(a)
    PROVE  /\ dirty' /\ dirty' \in BOOLEAN
           /\ slots' = [s \in {0} \union DOMAIN Events |-> slots'[s]]
           /\ \A s \in DOMAIN slots' : AlarmRecord(slots'[s])
<1>1. DOMAIN slots = {0} \union DOMAIN Events /\ \A s \in DOMAIN slots : AlarmRecord(slots[s])
  BY DEF AlarmTypeOK
<1>2. slots' = [slots EXCEPT ![0] = a]
  BY DEF Alarm
<1>3. dirty' /\ dirty' \in BOOLEAN
  BY DEF Alarm
<1> QED
  BY <1>1, <1>2, <1>3

LEMMA StepSets ==
    ASSUME AlarmTypeOK, edit.active, NEW step, StepField(step)
    PROVE  \E a : AlarmRecord(a) /\ Alarm(a)
<1>1. AlarmRecord(slots[0])
  BY DEF AlarmTypeOK
<1>2. edit.field \in {"Hour", "Minute", "Days", "Tone"}
  BY DEF AlarmTypeOK
<1>3. CASE edit.field = "Hour"
  <2>1. PICK v : Alarm([slots[0] EXCEPT !.hour = v])
    BY <1>3 DEF StepField
  <2>2. AlarmRecord([slots[0] EXCEPT !.hour = v])
    BY <1>1 DEF AlarmRecord
  <2> QED
    BY <2>1, <2>2
<1>4. CASE edit.field = "Minute"
  <2>1. PICK v : Alarm([slots[0] EXCEPT !.minute = v])
    BY <1>4 DEF StepField
  <2>2. AlarmRecord([slots[0] EXCEPT !.minute = v])
    BY <1>1 DEF AlarmRecord
  <2> QED
    BY <2>1, <2>2
<1>5. CASE edit.field = "Days"
  <2>1. PICK v : Alarm([slots[0] EXCEPT !.days = v])
    BY <1>5 DEF StepField
  <2>2. AlarmRecord([slots[0] EXCEPT !.days = v])
    BY <1>1 DEF AlarmRecord
  <2> QED
    BY <2>1, <2>2
<1>6. CASE edit.field = "Tone"
  <2>1. PICK v : Alarm([slots[0] EXCEPT !.tone = v])
    BY <1>6 DEF StepField
  <2>2. AlarmRecord([slots[0] EXCEPT !.tone = v])
    BY <1>1 DEF AlarmRecord
  <2> QED
    BY <2>1, <2>2
<1> QED
  BY <1>2, <1>3, <1>4, <1>5, <1>6

(* A press changes nothing that is kept unless it says so. *)
LEMMA PressEffect ==
    ASSUME AlarmTypeOK, NEW btn \in {"Up", "Down", "Fire", "Cancel"}, WatchPress(btn)
    PROVE  /\ EditOK(edit')
           /\ dirty' \/ (dirty' = dirty /\ slots' = slots /\ face' = face)
           /\ dirty' \in BOOLEAN
           /\ slots' = [s \in {0} \union DOMAIN Events |-> slots'[s]]
           /\ \A s \in DOMAIN slots' : AlarmRecord(slots'[s])
<1> DEFINE Goal ==
        /\ EditOK(edit')
        /\ dirty' \/ (dirty' = dirty /\ slots' = slots /\ face' = face)
        /\ dirty' \in BOOLEAN
        /\ slots' = [s \in {0} \union DOMAIN Events |-> slots'[s]]
        /\ \A s \in DOMAIN slots' : AlarmRecord(slots'[s])
<1>1. /\ slots = [s \in {0} \union DOMAIN Events |-> slots[s]] /\ dirty \in BOOLEAN
      /\ \A s \in DOMAIN slots : AlarmRecord(slots[s])
  BY DEF AlarmTypeOK
<1>2. EditOK(edit)
  BY DEF AlarmTypeOK, EditOK, FieldSet
<1>3. ASSUME slots' = slots, dirty' = dirty, face' = face, EditOK(edit') PROVE Goal
  BY <1>1, <1>3
<1>4. ASSUME NEW a, AlarmRecord(a), Alarm(a), edit' = edit PROVE Goal
  <2>1. EditOK(edit')
    BY <1>2, <1>4
  <2>2. /\ dirty' /\ dirty' \in BOOLEAN
        /\ slots' = [s \in {0} \union DOMAIN Events |-> slots'[s]]
        /\ \A s \in DOMAIN slots' : AlarmRecord(slots'[s])
    BY <1>4, AlarmSet
  <2>3. dirty' \/ (dirty' = dirty /\ slots' = slots /\ face' = face)
    BY <2>2
  <2> QED
    BY <2>1, <2>2, <2>3
<1>5. ASSUME NEW e, e = [edit EXCEPT !.active = FALSE] \/ e = [edit EXCEPT !.on = FALSE]
      PROVE  EditOK(e)
  BY <1>2, <1>5 DEF EditOK
<1>6. ASSUME NEW e, edit.field # "Enabled", e = [edit EXCEPT !.active = TRUE] PROVE EditOK(e)
  BY <1>2, <1>6 DEF EditOK
<1>7. ASSUME NEW e, e = [NormalMode EXCEPT !.on = TRUE] PROVE EditOK(e)
  BY <1>7 DEF EditOK, NormalMode, FieldSet
<1>8. AlarmRecord(slots[0])
  BY <1>1
<1>9. CASE ringing
  BY <1>2, <1>3, <1>9 DEF WatchPress
<1>10. CASE ~ringing /\ ~edit.on
  <2>1. FacePress(btn)
    BY <1>10 DEF WatchPress
  <2>2. CASE btn \in {"Up", "Down"}
    <3>1. dirty' /\ dirty' \in BOOLEAN /\ UNCHANGED <<slots, edit>>
      BY <2>1, <2>2 DEF FacePress
    <3> QED
      <4>1. EditOK(edit')
        BY <1>2, <3>1
      <4>2. dirty' \/ (dirty' = dirty /\ slots' = slots /\ face' = face)
        BY <3>1
      <4>3. /\ slots' = [s \in {0} \union DOMAIN Events |-> slots'[s]]
            /\ \A s \in DOMAIN slots' : AlarmRecord(slots'[s])
        BY <1>1, <3>1
      <4> QED
        BY <3>1, <4>1, <4>2, <4>3
  <2>3. CASE btn \notin {"Up", "Down"}
    BY <1>3, <1>7, <2>1, <2>3 DEF FacePress
  <2> QED
    BY <2>2, <2>3
<1>11. CASE ~ringing /\ edit.on /\ edit.active
  <2>1. EditPress(btn) /\ UNCHANGED face
    BY <1>11 DEF WatchPress
  <2>2. CASE btn \in {"Fire", "Cancel"}
    BY <1>3, <1>5, <1>11, <2>1, <2>2 DEF EditPress
  <2>3. CASE btn \notin {"Fire", "Cancel"}
    <3>1. PICK n : StepField(n) /\ UNCHANGED edit
      BY <1>11, <2>1, <2>3 DEF EditPress
    <3> QED
      BY <1>4, <1>11, <3>1, StepSets
  <2> QED
    BY <2>2, <2>3
<1>12. CASE ~ringing /\ edit.on /\ ~edit.active
  <2>1. EditPress(btn) /\ UNCHANGED face
    BY <1>12 DEF WatchPress
  <2>2. CASE btn \in {"Up", "Down"}
    <3>1. PICK n : MoveTo(n) /\ UNCHANGED <<slots, dirty>>
      BY <1>12, <2>1, <2>2 DEF EditPress
    <3>2. EditOK(edit')
      BY <1>2, <1>12, <3>1, MoveType
    <3> QED
      BY <1>3, <2>1, <3>1, <3>2
  <2>3. CASE btn = "Cancel"
    BY <1>3, <1>5, <1>12, <2>1, <2>3 DEF EditPress
  <2>4. CASE btn = "Fire" /\ edit.field = "Enabled"
    <3>1. Alarm([slots[0] EXCEPT !.on = ~@]) /\ edit' = edit
      BY <1>12, <2>1, <2>4 DEF EditPress
    <3>2. AlarmRecord([slots[0] EXCEPT !.on = ~@])
      BY <1>8 DEF AlarmRecord
    <3> QED
      BY <1>4, <3>1, <3>2
  <2>5. CASE btn = "Fire" /\ edit.field # "Enabled"
    <3>1. UNCHANGED <<slots, dirty>> /\ edit' = [edit EXCEPT !.active = TRUE]
      BY <1>12, <2>1, <2>5 DEF EditPress
    <3> QED
      BY <1>3, <1>6, <2>1, <2>5, <3>1
  <2> QED
    BY <2>2, <2>3, <2>4, <2>5
<1> QED
  BY <1>9, <1>10, <1>11, <1>12

LEMMA WatchPressInv ==
    ASSUME AlarmIInv, NEW btn \in {"Up", "Down", "Fire", "Cancel"}, WatchPress(btn) PROVE AlarmIInv'
<1>1. /\ steady' = IF slots' = slots THEN steady ELSE 0
      /\ UNCHANGED <<wall, wakeIn, ringSig, ringTask, sinceRing, writing, flash, clockSets, boots>>
      /\ ringing' = ringing \/ ringing' = FALSE
  BY DEF WatchPress
<1>2. /\ EditOK(edit')
      /\ dirty' \/ (dirty' = dirty /\ slots' = slots /\ face' = face)
      /\ dirty' \in BOOLEAN
      /\ slots' = [s \in {0} \union DOMAIN Events |-> slots'[s]]
      /\ \A s \in DOMAIN slots' : AlarmRecord(slots'[s])
  BY PressEffect DEF AlarmIInv
<1>3. AlarmTypeOK'
  <2>1. steady' \in 0..SecsPerMin
    <3>1. steady \in 0..SecsPerMin /\ 0 \in 0..SecsPerMin
      BY Sizes DEF AlarmIInv, AlarmTypeOK
    <3> QED
      BY <1>1, <3>1
  <2>2. ringing' \in BOOLEAN
    BY <1>1 DEF AlarmIInv, AlarmTypeOK
  <2> QED
    BY <1>1, <1>2, <2>1, <2>2 DEF AlarmIInv, AlarmTypeOK, EditOK, FieldSet
<1>4. RingEnds'
  BY <1>1 DEF AlarmIInv, RingEnds
<1>5. KeptInTime'
  <2>1. dirty' \/ ((dirty => dirty') /\ face' = face /\ slots'[0] = slots[0])
    BY <1>2
  <2> QED
    BY <1>1, <2>1, SameKept
<1>6. TickInTime' /\ TickedAndRung'
  <2>1. CASE slots' = slots
    BY <1>1, <2>1, SameTimes
  <2>2. CASE slots' # slots
    <3>1. steady' = 0 /\ steady' # SecsPerMin /\ wakeIn' <= SecsPerMin
      BY <1>1, <2>2, Sizes DEF AlarmIInv, AlarmTypeOK
    <3>2. steady' + wakeIn' <= SecsPerMin
      BY <1>1, <3>1, Sizes DEF AlarmIInv, AlarmTypeOK
    <3> QED
      BY <3>1, <3>2 DEF TickInTime, TickedAndRung
  <2> QED
    BY <2>1, <2>2
<1> QED
  BY <1>3, <1>4, <1>5, <1>6 DEF AlarmIInv

LEMMA PersistInv == ASSUME AlarmIInv, PersistStarts \/ PersistKey PROVE AlarmIInv'
<1>1. CASE PersistStarts
  <2> USE <1>1 DEF PersistStarts, timeVars, ringVars, countVars
  <2>1. AlarmTypeOK'
    <3>1. writing' \in Seq(KeySet)
      BY KeysAreKeys
    <3> QED
      BY <3>1 DEF AlarmIInv, AlarmTypeOK
  <2>2. RingEnds' /\ TickInTime' /\ TickedAndRung'
    <3>1. RingEnds'
      BY DEF AlarmIInv, RingEnds
    <3> QED
      BY <3>1, SameTimes
  <2>3. KeptInTime'
    BY KeysAreKeys DEF KeptInTime, KeyPending
  <2> QED
    BY <2>1, <2>2, <2>3 DEF AlarmIInv
<1>2. CASE PersistKey
  <2> USE <1>2 DEF PersistKey, timeVars, ringVars, countVars
  <2> DEFINE n == Len(writing)
  <2>0. writing \in Seq(KeySet) /\ writing # << >>
    BY DEF AlarmIInv, AlarmTypeOK
  <2>1. /\ n \in Nat \ {0} /\ Tail(writing) \in Seq(KeySet) /\ Len(Tail(writing)) = n - 1
        /\ \A i \in 1..n - 1 : Tail(writing)[i] = writing[i + 1]
        /\ Head(writing) = writing[1] /\ writing[1] \in KeySet
    BY <2>0, HeadTailProperties, EmptySeq, LenProperties
  <2>2. PICK h \in KeySet : h = writing[1] /\ flash' = [flash EXCEPT ![h] = Value(h)]
    BY <2>1
  <2>3. /\ \A k \in KeySet : flash'[k] = IF k = h THEN Value(h) ELSE flash[k]
        /\ flash' = [k \in KeySet |-> flash'[k]]
    BY <2>2 DEF AlarmIInv, AlarmTypeOK
  <2>4. AlarmTypeOK'
    <3>1. flash'["on"] \in BOOLEAN
      <4>1. Value("on") = slots[0].on
        BY DEF Value
      <4>2. slots[0].on \in BOOLEAN /\ flash["on"] \in BOOLEAN
        BY DEF AlarmIInv, AlarmTypeOK, AlarmRecord
      <4>3. flash'["on"] = IF "on" = h THEN Value(h) ELSE flash["on"]
        BY <2>3 DEF KeySet
      <4> QED
        BY <4>1, <4>2, <4>3
    <3> QED
      BY <2>1, <2>3, <3>1 DEF AlarmIInv, AlarmTypeOK
  <2>5. RingEnds' /\ TickInTime' /\ TickedAndRung'
    <3>1. RingEnds'
      BY DEF AlarmIInv, RingEnds
    <3> QED
      BY <3>1, SameTimes
  <2>6. ASSUME NEW k \in KeySet PROVE KeyPending(k)'
    <3>1. KeyPending(k)
      BY DEF AlarmIInv, KeptInTime
    <3>2. Value(k)' = Value(k)
      BY DEF Value
    <3>3. CASE k = h
      BY <2>3, <3>2, <3>3 DEF KeyPending
    <3>4. ASSUME k # h, NEW i \in 1..n, writing[i] = k
          PROVE  \E j \in 1..Len(writing') : writing'[j] = k
      <4>1. i # 1 /\ i - 1 \in 1..n - 1 /\ Tail(writing)[i - 1] = writing[i]
        BY <2>1, <2>2, <3>4
      <4> QED
        BY <2>1, <3>4, <4>1
    <3>5. dirty' = dirty
      OBVIOUS
    <3> QED
      BY <2>3, <3>1, <3>2, <3>3, <3>4, <3>5 DEF KeyPending
  <2> QED
    BY <2>4, <2>5, <2>6 DEF AlarmIInv, KeptInTime
<1> QED
  BY <1>1, <1>2

LEMMA RebootInv == ASSUME AlarmIInv, Reboot PROVE AlarmIInv'
<1>0. PICK a : a = [DefaultAlarm EXCEPT !.hour = flash.hour, !.minute = flash.minute,
                              !.on = flash.on, !.days = flash.days, !.tone = flash.tone]
  OBVIOUS
<1>1. /\ slots' = Imported(a) /\ face' = flash.face /\ edit' = NormalMode
      /\ wall' = NoTime /\ wakeIn' = SecsPerMin /\ steady' = 0
      /\ ringing' = FALSE /\ ringSig' = FALSE /\ ringTask' = TaskWaits /\ sinceRing' = Long
      /\ dirty' = (DOMAIN Events # {}) /\ writing' = << >> /\ flash' = flash
  BY <1>0 DEF Reboot
<1>2. AlarmRecord(a) /\ \A k \in KeySet \ {"face"} : a[k] = flash[k]
  BY <1>0 DEF AlarmIInv, AlarmTypeOK, DefaultAlarm, AlarmRecord, KeySet
<1>3. /\ slots' = [s \in {0} \union DOMAIN Events |-> slots'[s]] /\ slots'[0] = a
      /\ \A s \in {0} \union DOMAIN Events : AlarmRecord(slots'[s])
  BY <1>1, <1>2, ImportedType
<1>4. AlarmTypeOK'
  <2>1. /\ wakeIn' \in 0..SecsPerMin /\ steady' \in 0..SecsPerMin /\ sinceRing' \in 0..Long
        /\ writing' \in Seq(KeySet) /\ dirty' \in BOOLEAN
    BY <1>1, Sizes
  <2>2. ringTask' \in [left : 0..RingRepeats, due : 0..RepeatSecs]
    BY <1>1, Sizes DEF TaskWaits
  <2>3. DOMAIN slots' = {0} \union DOMAIN Events
    BY <1>3
  <2> QED
    <3>1. clockSets' \in Nat
      BY DEF Reboot, AlarmIInv, AlarmTypeOK
    <3>2. EditOK(edit')
      BY <1>1 DEF EditOK, FieldSet, NormalMode
    <3>3. flash' = [k \in KeySet |-> flash'[k]] /\ flash'["on"] \in BOOLEAN
      BY <1>1 DEF AlarmIInv, AlarmTypeOK
    <3> QED
      BY <1>1, <1>3, <2>1, <2>2, <2>3, <3>1, <3>2, <3>3 DEF AlarmTypeOK, EditOK, FieldSet
<1>5. KeptInTime'
  BY <1>1, <1>2, <1>3 DEF KeptInTime, KeyPending, Value, KeySet
<1> QED
  BY <1>1, <1>4, <1>5, Sizes DEF AlarmIInv, RingEnds, TickInTime, TickedAndRung

LEMMA AlarmNextInv == AlarmIInv /\ [AlarmNext]_alarmVars => AlarmIInv'
<1> SUFFICES ASSUME AlarmIInv, [AlarmNext]_alarmVars PROVE AlarmIInv'
  OBVIOUS
<1>1. CASE UNCHANGED alarmVars
  <2> USE <1>1 DEF alarmVars, timeVars, ringVars, keepVars, countVars
  <2>1. AlarmTypeOK'
    BY DEF AlarmIInv, AlarmTypeOK
  <2>2. RingEnds'
    BY DEF AlarmIInv, RingEnds
  <2> QED
    BY <2>1, <2>2, SameKept, SameTimes DEF AlarmIInv
<1>2. ASSUME NEW w \in 0..(LastDay + 1) * SecsPerDay - 1, SetClock(w) PROVE AlarmIInv'
  BY <1>2, SetClockInv
<1>3. CASE AlarmNext
  BY <1>2, <1>3, MinuteTickInv, RingTaskInv, SecondInv, WatchPressInv, PersistInv, RebootInv DEF AlarmNext
<1> QED
  BY <1>1, <1>3

(* However alarms, presses and jumps of the clock overlap, an alarm nobody  *)
(* silences stops after its repeats (alarm.rs:752-787), and once the        *)
(* persister rests flash holds the alarm and the face as they are set       *)
(* (watch/mod.rs:93-112).                                                   *)
THEOREM AlarmsStopAndAreKept == AlarmSpec => []AlarmsAreSound
<1>1. AlarmIInv => AlarmsAreSound
  <2> SUFFICES ASSUME AlarmIInv PROVE AlarmsAreSound
    OBVIOUS
  <2>1. StopsByItself
    <3> DEFINE L == ringTask.left
    <3>1. /\ L \in 0..RingRepeats /\ ringTask.due \in 0..RepeatSecs /\ sinceRing \in 0..Long
      BY DEF AlarmIInv, AlarmTypeOK
    <3>2. L # 0 => (RingRepeats - L) * RepeatSecs <= (RingRepeats - 1) * RepeatSecs
      <4>1. L # 0 => RingRepeats - L \in Nat /\ RingRepeats - 1 \in Nat /\ RingRepeats - L <= RingRepeats - 1
        BY <3>1, Sizes
      <4> QED
        BY <4>1, Multiples, Sizes
    <3>3. (RingRepeats - 1) * RepeatSecs = RingRepeats * RepeatSecs - RepeatSecs
      BY Multiples, Sizes
    <3>4. (RingRepeats - L) * RepeatSecs \in Int
      BY <3>1, Multiples, Sizes
    <3>5. ringing => IF L = 0 THEN sinceRing = 0
                     ELSE sinceRing <= (RingRepeats - L) * RepeatSecs + (RepeatSecs - ringTask.due)
      BY DEF AlarmIInv, RingEnds
    <3> HIDE DEF L
    <3> QED
      BY <3>1, <3>2, <3>3, <3>4, <3>5, Sizes DEF StopsByItself
  <2>2. AlarmIsKept
    <3> SUFFICES ASSUME ~dirty, writing = << >>, NEW k \in DOMAIN flash PROVE flash[k] = Value(k)
      BY DEF AlarmIsKept
    <3>1. k \in KeySet
      BY DEF AlarmIInv, AlarmTypeOK
    <3> QED
      BY <3>1 DEF AlarmIInv, KeptInTime, KeyPending
  <2> QED
    BY <2>1, <2>2 DEF AlarmsAreSound
<1> QED
  BY <1>1, AlarmInitInv, AlarmNextInv, PTL DEF AlarmSpec

(* Whenever the clock or an alarm was last set, once a minute has gone by   *)
(* an alarm goes off in the first second of its minute: the tick of the     *)
(* minute task cannot drift away from the minutes of the clock              *)
(* (embassy.rs:1639-1646, alarm.rs:690-735).                                *)
THEOREM AlarmsRingOnTime == AlarmSpec => RingsOnTime
<1>1. ASSUME AlarmIInv, [AlarmNext]_alarmVars, wall # NoTime, wall' = wall + 1, clockSets' = clockSets,
             steady = SecsPerMin, wall % SecsPerMin = 0, NEW s \in DOMAIN slots, Due(s, wall)
      PROVE  sinceRing = 0
  <2>0. wall \in Nat /\ SecsPerMin \in Nat /\ SecsPerMin > 0 /\ wall' # wall
    <3>1. wall \in Nat
      BY <1>1 DEF AlarmIInv, AlarmTypeOK
    <3> QED
      BY <1>1, <3>1, Sizes
  <2>1. Second
    <3>1. \A w : ~SetClock(w)
      BY <1>1 DEF SetClock, AlarmIInv, AlarmTypeOK
    <3>2. ~Reboot
      BY <1>1, <2>0, AlarmConstants DEF Reboot
    <3> QED
      BY <1>1, <2>0, <3>1, <3>2 DEF AlarmNext, MinuteTick, RingStarts, RingRepeat, WatchPress,
         PersistStarts, PersistKey, alarmVars, timeVars
  <2>2. wakeIn \in 1..SecsPerMin
    BY <1>1, <2>1 DEF Second, TimeMayPass, AlarmIInv, AlarmTypeOK
  <2>3. Aligned(wall, wakeIn)
    BY <1>1, <2>0, <2>2 DEF AlarmIInv, TickInTime
  <2>4. wakeIn = SecsPerMin
    <3>1. PICK q \in Int : wall + wakeIn = q * SecsPerMin
      BY <2>3 DEF Aligned
    <3>2. wall \div SecsPerMin \in Int /\ wall = (wall \div SecsPerMin) * SecsPerMin
      <4>1. wall \div SecsPerMin \in Int /\ wall = (wall \div SecsPerMin) * SecsPerMin + (wall % SecsPerMin)
        BY <2>0, Division
      <4> QED
        BY <1>1, <4>1, <2>0
    <3>3. PICK d \in Int : wakeIn = d * SecsPerMin
      <4>1. wakeIn = (q - (wall \div SecsPerMin)) * SecsPerMin
        BY <2>0, <2>2, <3>1, <3>2
      <4> QED
        BY <3>2, <4>1
    <3> QED
      BY <2>0, <2>2, <3>3
  <2> QED
    BY <1>1, <2>4 DEF AlarmIInv, TickedAndRung
<1>2. AlarmIInv /\ [AlarmNext]_alarmVars =>
        [wall # NoTime /\ wall' = wall + 1 /\ clockSets' = clockSets
          /\ steady = SecsPerMin /\ wall % SecsPerMin = 0
          => \A s \in DOMAIN slots : Due(s, wall) => sinceRing = 0]_alarmVars
  BY <1>1
<1> QED
  BY <1>2, AlarmInitInv, AlarmNextInv, PTL DEF AlarmSpec, RingsOnTime
-----------------------------------------------------------------------------

(***************************************************************************)
(* The Contacts screen.  While it is not stale, no mutation is under way   *)
(* and nothing was cut, each key the history does not call astray is       *)
(* followed: in a scan, the rows so far tell what the slots read so far    *)
(* hold of it; outside, the cache tells what the store holds of it, or an  *)
(* edit of it is queued that would still change the store (ScreenInv).     *)
(***************************************************************************)

LEMMA LeastNatural ==
  ASSUME NEW S \in SUBSET Nat, S # {}
  PROVE  \E x \in S : \A y \in S : x <= y
<1>1. PICK m \in S : TRUE
  OBVIOUS
<1> DEFINE low == {x \in S : x <= m}
           down == {0 .. x : x \in low}
<1>2. IsWellFoundedOn(StrictSubsetOrdering(0 .. m), SUBSET (0 .. m))
  <2>1. IsFiniteSet(0 .. m)
    BY FS_Interval
  <2>2. FiniteSubsetsOf(0 .. m) = SUBSET (0 .. m)
    BY <2>1, FS_FiniteSubsetsOfFinite
  <2> QED
    BY <2>2, FS_StrictSubsetOrderingWellFounded, Zenon
<1>3. down \subseteq SUBSET (0 .. m) /\ down # {}
  BY <1>1
<1>4. PICK d \in down :
        \A e \in down : <<e, d>> \notin StrictSubsetOrdering(0 .. m)
  BY <1>2, <1>3, WFMin
<1>5. PICK x \in low : d = 0 .. x
  BY <1>4
<1>6. \A y \in low : ~(y < x)
  <2> SUFFICES ASSUME NEW y \in low, y < x PROVE FALSE
    OBVIOUS
  <2>1. 0 .. y \subseteq 0 .. x /\ x \notin 0 .. y /\ x \in 0 .. x
    OBVIOUS
  <2>2. 0 .. y \in down
    OBVIOUS
  <2>3. <<0 .. y, d>> \in StrictSubsetOrdering(0 .. m)
    BY <2>1, <2>2, <1>5, <1>3, <1>4 DEF StrictSubsetOrdering
  <2> QED
    BY <2>2, <2>3, <1>4
<1> QED
  BY <1>1, <1>6

(* The rows at some places are these rows, each of them.                   *)
LEMMA RowsAtPlaces ==
  ASSUME NEW S, NEW rows \in Seq(S), NEW places \in SUBSET DOMAIN rows
  PROVE  /\ RowsAt(rows, places) \in Seq(S)
         /\ \A n \in DOMAIN RowsAt(rows, places) :
               \E i \in places : RowsAt(rows, places)[n] = rows[i]
         /\ \A i \in places :
               \E n \in DOMAIN RowsAt(rows, places) : RowsAt(rows, places)[n] = rows[i]
<1> DEFINE upto(i) == {j \in places : j <= i}
           c == Cardinality(places)
           rank == [i \in places |-> Cardinality(upto(i))]
           at(n) == CHOOSE i \in places : Cardinality(upto(i)) = n
           out == RowsAt(rows, places)
<1>1. IsFiniteSet(places) /\ c \in Nat /\ DOMAIN rows = 1 .. Len(rows) /\ Len(rows) \in Nat
  <2>1. DOMAIN rows = 1 .. Len(rows) /\ Len(rows) \in Nat
    BY LenProperties
  <2>2. IsFiniteSet(1 .. Len(rows))
    BY <2>1, FS_Interval
  <2>3. IsFiniteSet(places)
    BY <2>1, <2>2, FS_Subset
  <2> QED
    BY <2>1, <2>3, FS_CardinalityType
<1>2. ASSUME NEW i \in places
      PROVE  IsFiniteSet(upto(i)) /\ rank[i] = Cardinality(upto(i)) /\ rank[i] \in 1 .. c
  <2>1. IsFiniteSet(upto(i)) /\ Cardinality(upto(i)) <= c
    BY <1>1, FS_Subset
  <2>2. Cardinality(upto(i)) \in Nat
    BY <2>1, FS_CardinalityType
  <2>3. i \in upto(i)
    BY <1>1
  <2>4. Cardinality(upto(i)) # 0
    BY <2>1, <2>3, FS_EmptySet
  <2> QED
    BY <1>1, <2>1, <2>2, <2>4
<1>3. ASSUME NEW i \in places, NEW j \in places, i < j PROVE rank[i] # rank[j]
  <2>1. i \in Nat /\ j \in Nat
    BY <1>1
  <2>2. upto(i) \subseteq upto(j) /\ j \in upto(j) /\ j \notin upto(i)
    BY <1>1, <1>3, <2>1
  <2>3. upto(i) # upto(j)
    BY <2>2
  <2> HIDE DEF upto
  <2> QED
    BY <1>2, <2>2, <2>3, FS_Subset
<1>4. rank \in Injection(places, 1 .. c)
  <2>1. rank \in [places -> 1 .. c]
    BY <1>2
  <2>2. \A i, j \in places : rank[i] = rank[j] => i = j
    <3> SUFFICES ASSUME NEW i \in places, NEW j \in places, i # j PROVE rank[i] # rank[j]
      OBVIOUS
    <3>1. i \in Nat /\ j \in Nat
      BY <1>1
    <3>2. i < j \/ j < i
      BY <3>1
    <3> HIDE DEF rank
    <3> QED
      BY <1>3, <3>2
  <2> HIDE DEF rank
  <2> QED
    BY <2>1, <2>2 DEF Injection, IsInjective
<1>5. rank \in Surjection(places, 1 .. c)
  <2>1. IsFiniteSet(1 .. c) /\ Cardinality(1 .. c) = c
    BY <1>1, FS_Interval
  <2> HIDE DEF rank
  <2> QED
    BY <1>4, <2>1, FS_Injection
<1>6. ASSUME NEW n \in 1 .. c PROVE at(n) \in places /\ rank[at(n)] = n
  <2>1. \E i \in places : rank[i] = n
    <3> HIDE DEF rank
    <3> QED
      BY <1>5 DEF Surjection
  <2>2. \E i \in places : Cardinality(upto(i)) = n
    BY <2>1
  <2> QED
    BY <2>2
<1>7. out = [n \in 1 .. c |-> rows[at(n)]]
  BY DEF RowsAt
<1>8. out \in Seq(S) /\ DOMAIN out = 1 .. c
  <2>1. \A n \in 1 .. c : rows[at(n)] \in S
    <3> SUFFICES ASSUME NEW n \in 1 .. c PROVE rows[at(n)] \in S
      OBVIOUS
    <3>1. at(n) \in 1 .. Len(rows)
      BY <1>1, <1>6
    <3> HIDE DEF at
    <3> QED
      BY <3>1, ElementOfSeq
  <2> HIDE DEF at, out, c
  <2> QED
    BY <1>1, <1>7, <2>1
<1>9. \A n \in DOMAIN out : \E i \in places : out[n] = rows[i]
  BY <1>6, <1>7, <1>8
<1>10. ASSUME NEW i \in places PROVE \E n \in DOMAIN out : out[n] = rows[i]
  <2>1. rank[i] \in 1 .. c
    BY <1>2
  <2>2. at(rank[i]) = i
    <3>1. at(rank[i]) \in places /\ rank[at(rank[i])] = rank[i]
      BY <1>6, <2>1
    <3> HIDE DEF at, rank
    <3> QED
      BY <1>4, <3>1 DEF Injection, IsInjective
  <2>3. out[rank[i]] = rows[at(rank[i])]
    <3> HIDE DEF at, rank, c
    <3> QED
      BY <1>7, <2>1
  <2> HIDE DEF at, rank, c, out
  <2> QED
    BY <1>8, <2>1, <2>2, <2>3
<1> QED
  BY <1>8, <1>9, <1>10

(* A list is filled one row after the other, so what every placing keeps   *)
(* is kept by the whole.                                                   *)
LEMMA FillKeeps ==
  ASSUME NEW kept, NEW rows \in kept, NEW coming \in Seq(ContactRow),
         \A s \in kept : \A n \in DOMAIN coming : Placed(s, coming[n]) \in kept
  PROVE  Fill(rows, coming) \in kept
<1> DEFINE N == Len(coming)
           Step(f, n) == IF n = 0 THEN rows ELSE Placed(f[n - 1], coming[n])
           Upto(f, m) == f = [n \in 0 .. m |-> Step(f, n)]
           after == CHOOSE f : f = [n \in 0 .. N |->
                       IF n = 0 THEN rows ELSE Placed(f[n - 1], coming[n])]
<1>1. N \in Nat /\ DOMAIN coming = 1 .. N
  BY LenProperties
<1>2. ASSUME NEW m \in Nat PROVE \E f : Upto(f, m)
  <2> DEFINE bad == {k \in Nat : ~\E f : Upto(f, k)}
  <2> SUFFICES ASSUME m \in bad PROVE FALSE
    OBVIOUS
  <2>1. PICK k \in bad : \A j \in bad : k <= j
    <3>1. bad \in SUBSET Nat
      OBVIOUS
    <3> HIDE DEF bad
    <3> QED
      BY <3>1, LeastNatural
  <2>2. k \in Nat /\ ~\E f : Upto(f, k)
    OBVIOUS
  <2>3. k # 0
    <3> DEFINE f == [n \in 0 .. 0 |-> rows]
    <3>1. Upto(f, 0)
      OBVIOUS
    <3> QED
      BY <2>2, <3>1
  <2>4. k - 1 \in Nat
    BY <2>2, <2>3
  <2>5. PICK g : Upto(g, k - 1)
    <3>1. k - 1 \notin bad
      <4> HIDE DEF bad
      <4> QED
        BY <2>1, <2>2, <2>4
    <3> QED
      BY <2>4, <3>1
  <2> DEFINE f == [n \in 0 .. k |-> IF n = k THEN Placed(g[k - 1], coming[k]) ELSE g[n]]
  <2>6. ASSUME NEW n \in 0 .. k PROVE f[n] = Step(f, n)
    <3>1. CASE n = k
      <4>1. f[n] = Placed(g[k - 1], coming[k]) /\ f[k - 1] = g[k - 1]
        BY <2>2, <2>4, <3>1
      <4> QED
        BY <2>3, <3>1, <4>1
    <3>2. CASE n # k
      <4>1. n \in 0 .. (k - 1) /\ f[n] = g[n]
        BY <2>2, <2>4, <3>2
      <4>2. g[n] = Step(g, n)
        BY <2>5, <4>1
      <4>3. n # 0 => f[n - 1] = g[n - 1]
        BY <2>2, <2>4, <4>1
      <4> QED
        BY <4>1, <4>2, <4>3
    <3> QED
      BY <3>1, <3>2
  <2>7. f = [n \in 0 .. k |-> f[n]]
    OBVIOUS
  <2> HIDE DEF f
  <2>8. Upto(f, k)
    BY <2>6, <2>7
  <2> QED
    BY <2>2, <2>8
<1>3. after = [n \in 0 .. N |-> Step(after, n)]
  BY <1>1, <1>2
<1>4. ASSUME NEW m \in 0 .. N PROVE after[m] \in kept
  <2> DEFINE bad == {k \in 0 .. N : after[k] \notin kept}
  <2> HIDE DEF after
  <2> SUFFICES ASSUME m \in bad PROVE FALSE
    OBVIOUS
  <2>1. PICK k \in bad : \A j \in bad : k <= j
    <3>1. bad \in SUBSET Nat
      BY <1>1
    <3> HIDE DEF bad
    <3> QED
      BY <3>1, LeastNatural
  <2>2. k \in 0 .. N /\ after[k] = Step(after, k) /\ after[k] \notin kept
    BY <1>3
  <2>3. k # 0
    BY <2>2
  <2>4. k - 1 \in 0 .. N /\ k - 1 \notin bad /\ k \in DOMAIN coming
    BY <1>1, <2>1, <2>2, <2>3
  <2>5. after[k - 1] \in kept
    BY <2>4
  <2> QED
    BY <2>2, <2>3, <2>4, <2>5
<1>5. Fill(rows, coming) = after[N]
  BY DEF Fill
<1> HIDE DEF after
<1> QED
  BY <1>1, <1>4, <1>5

(* insert_sorted adds a row to those there are, and drops no more than one. *)
LEMMA InsertedRows ==
  ASSUME NEW rows \in Seq(ContactRow), NEW e \in ContactRow
  PROVE  LET out == InsertSorted(rows, e)
         IN  /\ out \in Seq(ContactRow)
             /\ \A i \in DOMAIN out : out[i] = e \/ \E j \in DOMAIN rows : out[i] = rows[j]
             /\ Len(out) < Len(rows) + 1
                \/ /\ \A j \in DOMAIN rows : \E i \in DOMAIN out : out[i] = rows[j]
                   /\ \E i \in DOMAIN out : out[i] = e
<1> DEFINE newer == {i \in DOMAIN rows : rows[i].at >= e.at}
           m == Cardinality(newer)
           all == InsertAt(rows, m + 1, e)
           out == InsertSorted(rows, e)
<1>1. Len(rows) \in Nat /\ DOMAIN rows = 1 .. Len(rows)
  BY LenProperties
<1>2. m \in 0 .. Len(rows)
  <2>1. IsFiniteSet(1 .. Len(rows)) /\ Cardinality(1 .. Len(rows)) = Len(rows)
    BY <1>1, FS_Interval
  <2>2. newer \subseteq 1 .. Len(rows)
    BY <1>1
  <2> HIDE DEF newer
  <2>3. IsFiniteSet(newer) /\ m <= Len(rows)
    BY <2>1, <2>2, FS_Subset
  <2>4. m \in Nat
    BY <2>3, FS_CardinalityType
  <2> QED
    BY <1>1, <2>3, <2>4
<1> HIDE DEF m
<1>3. /\ all \in Seq(ContactRow) /\ Len(all) = Len(rows) + 1
      /\ \A i \in 1 .. Len(all) :
            all[i] = IF i <= m THEN rows[i] ELSE IF i = m + 1 THEN e ELSE rows[i - 1]
  <2>1. all = SubSeq(rows, 1, m) \o <<e>> \o SubSeq(rows, m + 1, Len(rows))
    <3>1. (m + 1) - 1 = m
      BY <1>2
    <3> QED
      BY <3>1, Zenon DEF InsertAt
  <2> DEFINE a == SubSeq(rows, 1, m)
             b == SubSeq(rows, m + 1, Len(rows))
  <2>2. /\ a \in Seq(ContactRow) /\ Len(a) = m
        /\ \A i \in 1 .. m : a[i] = rows[i]
    BY <1>1, <1>2, SubSeqProperties
  <2>3. /\ b \in Seq(ContactRow) /\ Len(b) = Len(rows) - m
        /\ \A i \in 1 .. (Len(rows) - m) : b[i] = rows[m + i]
    <3>1. \A i \in (m + 1) .. Len(rows) : rows[i] \in ContactRow
      BY <1>1, <1>2
    <3>2. /\ b \in Seq(ContactRow)
          /\ Len(b) = IF m + 1 <= Len(rows) THEN Len(rows) - (m + 1) + 1 ELSE 0
          /\ \A i \in 1 .. (Len(rows) - (m + 1) + 1) : b[i] = rows[(m + 1) + i - 1]
      BY <1>1, <1>2, <3>1, SubSeqProperties
    <3> HIDE DEF b
    <3>3. Len(b) = Len(rows) - m /\ Len(rows) - (m + 1) + 1 = Len(rows) - m
      <4> DEFINE n == Len(rows)
                 d == Len(b)
      <4>1. n \in Nat /\ m \in Nat /\ m <= n
        BY <1>1, <1>2
      <4>2. d = IF m + 1 <= n THEN n - (m + 1) + 1 ELSE 0
        BY <3>2
      <4> HIDE DEF n, d
      <4>3. d = n - m /\ n - (m + 1) + 1 = n - m
        BY <4>1, <4>2
      <4> QED
        BY <4>3 DEF n, d
    <3>4. \A i \in 1 .. (Len(rows) - m) : b[i] = rows[(m + 1) + i - 1]
      BY <3>2, <3>3
    <3>5. ASSUME NEW i \in 1 .. (Len(rows) - m) PROVE b[i] = rows[m + i]
      <4>1. (m + 1) + i - 1 = m + i
        BY <1>1, <1>2
      <4> QED
        BY <3>4, <4>1
    <3> QED
      BY <3>2, <3>3, <3>5
  <2>4. all = (a \o <<e>>) \o b
    BY <2>1
  <2> HIDE DEF a, b, all
  <2>5. /\ a \o <<e>> \in Seq(ContactRow) /\ Len(a \o <<e>>) = m + 1
        /\ \A i \in 1 .. m : (a \o <<e>>)[i] = rows[i]
        /\ (a \o <<e>>)[m + 1] = e
    <3>1. <<e>> \in Seq(ContactRow) /\ Len(<<e>>) = 1 /\ <<e>>[1] = e
      OBVIOUS
    <3> DEFINE one == <<e>>
    <3> HIDE DEF one
    <3>2. /\ a \o one \in Seq(ContactRow) /\ Len(a \o one) = m + 1
          /\ \A i \in 1 .. m + 1 : (a \o one)[i] = IF i <= m THEN a[i] ELSE one[i - m]
      BY <1>2, <2>2, <3>1, ConcatProperties DEF one
    <3>3. \A i \in 1 .. m : (a \o one)[i] = rows[i]
      BY <1>2, <2>2, <3>2
    <3>4. (a \o one)[m + 1] = one[1]
      <4>1. m + 1 \in 1 .. m + 1 /\ ~(m + 1 <= m) /\ (m + 1) - m = 1
        BY <1>2
      <4> QED
        BY <3>2, <4>1
    <3> QED
      BY <3>1, <3>2, <3>3, <3>4 DEF one
  <2> DEFINE ae == a \o <<e>>
  <2>6. all = ae \o b
    BY <2>4
  <2> HIDE DEF ae
  <2>7. all \in Seq(ContactRow) /\ Len(all) = Len(rows) + 1
    BY <1>1, <1>2, <2>3, <2>5, <2>6, ConcatProperties DEF ae
  <2>8. \A i \in 1 .. Len(all) :
           all[i] = IF i <= m + 1 THEN ae[i] ELSE b[i - (m + 1)]
    BY <1>1, <1>2, <2>3, <2>5, <2>6, <2>7, ConcatProperties DEF ae
  <2>9. \A i \in 1 .. m : ae[i] = rows[i]
    BY <2>5 DEF ae
  <2>10. ae[m + 1] = e
    BY <2>5 DEF ae
  <2>11. ASSUME NEW i \in 1 .. Len(all)
         PROVE  all[i] = IF i <= m THEN rows[i] ELSE IF i = m + 1 THEN e ELSE rows[i - 1]
    <3>1. CASE i <= m
      BY <1>1, <1>2, <2>7, <2>8, <2>9, <3>1
    <3>2. CASE i = m + 1
      BY <1>1, <1>2, <2>7, <2>8, <2>10, <3>2
    <3>3. CASE i > m + 1
      <4>1. i - (m + 1) \in 1 .. (Len(rows) - m) /\ m + (i - (m + 1)) = i - 1
        BY <1>1, <1>2, <2>7, <3>3
      <4>2. all[i] = b[i - (m + 1)] /\ b[i - (m + 1)] = rows[i - 1]
        BY <1>1, <1>2, <2>3, <2>8, <3>3, <4>1
      <4> QED
        BY <1>2, <3>3, <4>2
    <3> QED
      BY <1>1, <1>2, <2>7, <3>1, <3>2, <3>3
  <2> QED
    BY <2>7, <2>11
<1>4. out = all \/ out = Front(all)
  BY DEF InsertSorted, m
<1> HIDE DEF all, out
<1>5. CASE out = all
  <2>1. \A j \in DOMAIN rows : \E i \in DOMAIN all : all[i] = rows[j]
    <3> SUFFICES ASSUME NEW j \in DOMAIN rows PROVE \E i \in DOMAIN all : all[i] = rows[j]
      OBVIOUS
    <3>1. DOMAIN all = 1 .. Len(all)
      BY <1>3
    <3>2. CASE j <= m
      BY <1>1, <1>2, <1>3, <3>1, <3>2
    <3>3. CASE j > m
      <4>1. j + 1 \in 1 .. Len(all) /\ all[j + 1] = rows[j]
        BY <1>1, <1>2, <1>3, <3>3
      <4> QED
        BY <3>1, <4>1
    <3> QED
      BY <1>1, <1>2, <3>2, <3>3
  <2>2. m + 1 \in DOMAIN all /\ all[m + 1] = e
    BY <1>1, <1>2, <1>3
  <2>3. ASSUME NEW i \in DOMAIN all PROVE all[i] = e \/ \E j \in DOMAIN rows : all[i] = rows[j]
    <3>1. i \in 1 .. Len(all)
      BY <1>3
    <3>2. CASE i <= m
      BY <1>1, <1>2, <1>3, <3>1, <3>2
    <3>3. CASE i > m + 1
      <4>1. i - 1 \in DOMAIN rows
        BY <1>1, <1>2, <1>3, <3>1, <3>3
      <4> QED
        BY <1>2, <1>3, <3>1, <3>3, <4>1
    <3> QED
      BY <1>2, <1>3, <3>1, <3>2, <3>3
  <2> QED
    BY <1>3, <1>5, <2>1, <2>2, <2>3 DEF out
<1>6. CASE out = Front(all)
  <2>1. /\ out \in Seq(ContactRow) /\ Len(out) = Len(rows)
        /\ \A i \in 1 .. Len(out) : out[i] = all[i] /\ i \in 1 .. Len(all)
    BY <1>1, <1>3, <1>6 DEF Front
  <2>2. DOMAIN out = 1 .. Len(out)
    BY <2>1
  <2>3. \A i \in DOMAIN out : out[i] = e \/ \E j \in DOMAIN rows : out[i] = rows[j]
    BY <1>1, <1>2, <1>3, <2>1, <2>2
  <2> QED
    BY <1>1, <2>1, <2>3 DEF out
<1> QED
  BY <1>4, <1>5, <1>6

Saved == [key : ContactKeys, fav : BOOLEAN]
EditKinds == {"save", "unsave", "forget", "add"}
FilterNames == {FILTERS[n] : n \in 1 .. 6}

Tallies == [heard : Nat, changes : Nat, presses : Nat, failures : Nat]

Views == [mode : {"list", "popup", "filters", "detail"}, filter : FilterNames,
          cursor : Nat, scroll : Nat, target : Nat, pos : Nat]
Browsers == {b \in Views : b.mode = "filters" => b.pos < 6}

ScreenTypes ==
    /\ stored \in [1 .. StoreSlots -> {NoContact} \cup Saved]
    /\ marking \in {"none", "slot", "meta"}
    /\ stale \in BOOLEAN /\ nudged \in BOOLEAN /\ cut \in BOOLEAN
    /\ refresh \in [pc : {"wait", "quiet", "scan"}, next : Nat \ {0}, rows : Seq(ContactRow)]
    /\ cache \in Seq(ContactRow)
    /\ heard \in [ContactKeys -> Nat] /\ found \in [ContactKeys -> Nat]
    /\ edits \in Seq([kind : EditKinds, key : ContactKeys])
    /\ browser \in Browsers
    /\ astray \subseteq ContactKeys
    /\ tallies \in Tallies

(* A row that is not of the store is no favourite, and no key is both in   *)
(* the store and out of it.                                                *)
RowsSound(rows) ==
    /\ \A i \in DOMAIN rows : ~rows[i].saved => ~rows[i].fav
    /\ \A i, j \in DOMAIN rows : rows[i].key = rows[j].key => rows[i].saved = rows[j].saved
AllSaved(rows) == \A i \in DOMAIN rows : rows[i].saved

(* Rows tell what a part of the store holds of a key.                      *)
Tells(rows, held, k) ==
    /\ \A c \in held : c.key = k => k \in SavedKeys(rows)
    /\ \A i \in DOMAIN rows : rows[i].saved /\ rows[i].key = k
                                => \E c \in held : c.key = k /\ c.fav = rows[i].fav

(* A queued edit that would change the store as it is.                     *)
EditDue(e) ==
    \/ e.kind = "add" /\ Holding(e.key) = {}
    \/ e.kind = "forget" /\ Holding(e.key) # {}
    \/ /\ e.kind \in {"save", "unsave"} /\ Holding(e.key) # {}
       /\ \A c \in Contacts : c.key = e.key => c.fav # (e.kind = "save")
Owed(k) == \E n \in DOMAIN edits : edits[n].key = k /\ EditDue(edits[n])

FirstSlots(n) == {stored[i] : i \in {i \in 1 .. StoreSlots : i < n}} \ {NoContact}
Untouched == ~stale /\ marking = "none" /\ ~cut
KeyFollowed(k) ==
    IF refresh.pc = "scan" THEN Tells(refresh.rows, FirstSlots(refresh.next), k)
    ELSE Tells(cache, Contacts, k) \/ Owed(k)

ScreenInv ==
    /\ ScreenTypes
    /\ RowsSound(cache) /\ AllSaved(refresh.rows)
    /\ stale => nudged \/ refresh.pc = "quiet"
    /\ Untouched => \A k \in ContactKeys \ astray : KeyFollowed(k)

LEMMA ScreenSizes ==
  /\ StoreSlots \in Nat \ {0} /\ IsFiniteSet(ContactKeys) /\ NoContact \notin Saved
  /\ InitialStores \subseteq [1 .. StoreSlots -> {NoContact} \cup Saved]
  /\ Len(FILTERS) = 6 /\ DOMAIN FILTERS = 1 .. 6
BY ContactScreenAssumption DEF Saved, FILTERS

LEMMA CountedUp ==
  ASSUME NEW t \in Tallies
  PROVE  /\ [t EXCEPT !.heard = @ + 1] \in Tallies
         /\ [t EXCEPT !.changes = @ + 1] \in Tallies
         /\ [t EXCEPT !.presses = @ + 1] \in Tallies
         /\ [t EXCEPT !.failures = @ + 1] \in Tallies
<1>1. t.heard + 1 \in Nat /\ t.changes + 1 \in Nat /\ t.presses + 1 \in Nat
      /\ t.failures + 1 \in Nat
  BY DEF Tallies
<1> QED
  BY <1>1, Zenon DEF Tallies

LEMMA HeldContacts ==
  ASSUME NEW k
  PROVE  Holding(k) # {} <=> \E c \in Contacts : c.key = k
BY DEF Holding, Contacts

LEMMA EverySlot ==
  ASSUME NEW n \in Nat, n > StoreSlots
  PROVE  FirstSlots(n) = Contacts
BY ScreenSizes DEF FirstSlots, Contacts

(* What is said of a key changes only with the slots, the scan, the cache  *)
(* or the queue.                                                           *)
LEMMA SameFollowed ==
  ASSUME NEW k, UNCHANGED <<stored, refresh, cache, edits>>
  PROVE  KeyFollowed(k)' = KeyFollowed(k)
<1>1. Contacts' = Contacts /\ FirstSlots(refresh.next)' = FirstSlots(refresh.next)
  BY DEF Contacts, FirstSlots
<1>2. Owed(k)' = Owed(k)
  BY <1>1 DEF Owed, EditDue, Holding
<1>3. /\ Tells(refresh.rows, FirstSlots(refresh.next), k)'
           = Tells(refresh.rows, FirstSlots(refresh.next), k)
      /\ Tells(cache, Contacts, k)' = Tells(cache, Contacts, k)
  BY <1>1 DEF Tells, SavedKeys
<1> QED
  BY <1>2, <1>3 DEF KeyFollowed

LEMMA SameOutsideScan ==
  ASSUME NEW k, UNCHANGED <<stored, cache, edits>>, refresh.pc # "scan", refresh'.pc # "scan"
  PROVE  KeyFollowed(k)' = KeyFollowed(k)
<1>1. Contacts' = Contacts
  BY DEF Contacts
<1>2. Owed(k)' = Owed(k)
  BY <1>1 DEF Owed, EditDue, Holding
<1>3. Tells(cache, Contacts, k)' = Tells(cache, Contacts, k)
  BY <1>1 DEF Tells, SavedKeys
<1> QED
  BY <1>2, <1>3 DEF KeyFollowed

LEMMA NotedTimes ==
  ASSUME ScreenTypes, NEW times \in [ContactKeys -> Nat], NEW k, NEW cap
  PROVE  Noted(times, k, cap) \in [ContactKeys -> Nat]
<1>1. tallies.heard + 1 \in Nat
  BY DEF ScreenTypes, Tallies
<1> QED
  BY <1>1 DEF Noted

LEMMA HearsInv ==
  ASSUME ScreenInv, NEW k \in ContactKeys, Hears(k)
  PROVE  ScreenInv'
<1>1. ScreenTypes
  BY DEF ScreenInv
<1>2. heard' \in [ContactKeys -> Nat] /\ found' \in [ContactKeys -> Nat]
  <2>1. heard \in [ContactKeys -> Nat] /\ found \in [ContactKeys -> Nat]
    BY <1>1 DEF ScreenTypes
  <2> QED
    BY <1>1, <2>1, NotedTimes DEF Hears
<1>3. ScreenTypes'
  <2>1. tallies' \in Tallies
    BY <1>1, CountedUp DEF Hears, ScreenTypes
  <2> QED
    BY <1>1, <1>2, <2>1 DEF Hears, ScreenTypes, storeSide
<1>4. UNCHANGED <<stored, marking, stale, refresh, cache, edits, astray, cut>> /\ nudged'
  BY DEF Hears, storeSide
<1>5. RowsSound(cache)' /\ AllSaved(refresh.rows)'
  BY <1>4 DEF ScreenInv, RowsSound, AllSaved
<1>6. Untouched' => \A j \in ContactKeys \ astray' : KeyFollowed(j)'
  BY <1>4, SameFollowed DEF ScreenInv, Untouched
<1> QED
  BY <1>3, <1>4, <1>5, <1>6 DEF ScreenInv

LEMMA SlotWritten ==
  ASSUME ScreenTypes, NEW i \in 1 .. StoreSlots, NEW c \in {NoContact} \cup Saved, Writes(i, c)
  PROVE  stored' \in [1 .. StoreSlots -> {NoContact} \cup Saved] /\ marking' \in {"slot", "meta"}
BY DEF Writes, ScreenTypes

(* While a mutation is under way nothing is said of the rows.              *)
LEMMA MarkingInv ==
  ASSUME ScreenInv, ScreenTypes', marking' # "none",
         UNCHANGED <<stale, refresh, cache>>, nudged => nudged'
  PROVE  ScreenInv'
<1>1. RowsSound(cache)' /\ AllSaved(refresh.rows)'
  BY DEF ScreenInv, RowsSound, AllSaved
<1>2. ~Untouched'
  BY DEF Untouched
<1> QED
  BY <1>1, <1>2 DEF ScreenInv

LEMMA PlacesAreSlots ==
  ASSUME NEW k
  PROVE  Places(k) \subseteq 1 .. StoreSlots /\ Holding(k) \subseteq 1 .. StoreSlots
BY DEF Places, Holding

LEMMA KeptFlag ==
  ASSUME ScreenTypes, NEW k, NEW i \in 1 .. StoreSlots
  PROVE  Kept(i, k) \in BOOLEAN
<1>1. CASE Holding(k) = {i}
  <2>1. stored[i] \in Saved
    BY <1>1 DEF Holding, ScreenTypes
  <2> QED
    BY <1>1, <2>1 DEF Kept, Saved
<1>2. CASE Holding(k) # {i}
  BY <1>2 DEF Kept
<1> QED
  BY <1>1, <1>2

LEMMA OtherTaskWritesInv ==
  ASSUME ScreenInv, NEW k \in ContactKeys, OtherTaskWrites(k)
  PROVE  ScreenInv'
<1>1. ScreenTypes
  BY DEF ScreenInv
<1>2. stored' \in [1 .. StoreSlots -> {NoContact} \cup Saved] /\ marking' \in {"slot", "meta"}
  <2>1. CASE \E i \in Places(k) : Writes(i, [key |-> k, fav |-> Kept(i, k)])
    <3>1. PICK i \in Places(k) : Writes(i, [key |-> k, fav |-> Kept(i, k)])
      BY <2>1
    <3>2. i \in 1 .. StoreSlots
      BY <3>1, PlacesAreSlots
    <3>3. Kept(i, k) \in BOOLEAN
      BY <1>1, <3>2, KeptFlag
    <3>4. [key |-> k, fav |-> Kept(i, k)] \in Saved
      BY <3>3 DEF Saved
    <3> QED
      BY <1>1, <3>1, <3>2, <3>4, SlotWritten
  <2>2. CASE \E i \in Holding(k) : Writes(i, NoContact)
    BY <1>1, <2>2, PlacesAreSlots, SlotWritten
  <2>3. CASE \E i \in Holding(k) : Writes(i, [key |-> k, fav |-> ~stored[i].fav])
    BY <1>1, <2>3, PlacesAreSlots, SlotWritten DEF Saved
  <2> QED
    BY <2>1, <2>2, <2>3 DEF OtherTaskWrites
<1>3. UNCHANGED <<stale, nudged, refresh, cache, heard, found, edits, browser, astray, cut>>
  BY DEF OtherTaskWrites
<1>4. tallies' \in Tallies
  BY <1>1, CountedUp DEF OtherTaskWrites, ScreenTypes
<1>5. ScreenTypes'
  BY <1>1, <1>2, <1>3, <1>4 DEF ScreenTypes
<1> QED
  BY <1>2, <1>3, <1>5, MarkingInv

LEMMA MarkDirtyInv ==
  ASSUME ScreenInv, MarkDirty
  PROVE  ScreenInv'
<1>1. ScreenTypes'
  BY DEF ScreenInv, MarkDirty, ScreenTypes
<1>2. RowsSound(cache)' /\ AllSaved(refresh.rows)'
  BY DEF ScreenInv, MarkDirty, RowsSound, AllSaved
<1> QED
  BY <1>1, <1>2 DEF ScreenInv, MarkDirty, Untouched

LEMMA MarkLostInv ==
  ASSUME ScreenInv, MarkLost
  PROVE  ScreenInv'
<1>1. ScreenTypes'
  <2>1. tallies' \in Tallies
    BY CountedUp DEF ScreenInv, MarkLost, Failure, ScreenTypes
  <2> QED
    BY <2>1 DEF ScreenInv, MarkLost, ScreenTypes
<1>2. RowsSound(cache)' /\ AllSaved(refresh.rows)'
  BY DEF ScreenInv, MarkLost, RowsSound, AllSaved
<1> QED
  BY <1>1, <1>2 DEF ScreenInv, MarkLost

LEMMA WakesInv ==
  ASSUME ScreenInv, Wakes
  PROVE  ScreenInv'
<1>1. ScreenTypes
  BY DEF ScreenInv
<1>2. /\ refresh' = [refresh EXCEPT !.pc = "quiet"] /\ refresh.pc \in {"wait", "quiet"}
      /\ UNCHANGED <<stored, marking, stale, cache, edits, astray, cut>>
  BY DEF Wakes, storeSide
<1>3. refresh'.pc = "quiet" /\ refresh'.rows = refresh.rows
      /\ refresh' \in [pc : {"wait", "quiet", "scan"}, next : Nat \ {0}, rows : Seq(ContactRow)]
  BY <1>1, <1>2 DEF ScreenTypes
<1>4. ScreenTypes'
  BY <1>1, <1>3 DEF Wakes, storeSide, ScreenTypes
<1>5. RowsSound(cache)' /\ AllSaved(refresh.rows)'
  BY <1>2, <1>3 DEF ScreenInv, RowsSound, AllSaved
<1>6. Untouched' => \A k \in ContactKeys \ astray' : KeyFollowed(k)'
  BY <1>2, <1>3, SameOutsideScan DEF ScreenInv, Untouched
<1> QED
  BY <1>3, <1>4, <1>5, <1>6 DEF ScreenInv

LEMMA ScanStartsInv ==
  ASSUME ScreenInv, ScanStarts
  PROVE  ScreenInv'
<1>1. ScreenTypes
  BY DEF ScreenInv
<1>2. refresh' = [pc |-> "scan", next |-> 1, rows |-> << >>] /\ stale' = FALSE
  BY DEF ScanStarts
<1>3. refresh' \in [pc : {"wait", "quiet", "scan"}, next : Nat \ {0}, rows : Seq(ContactRow)]
      /\ refresh'.pc = "scan" /\ refresh'.next = 1 /\ refresh'.rows = << >>
  BY <1>2
<1>4. ScreenTypes'
  BY <1>1, <1>3 DEF ScanStarts, ScreenTypes
<1>5. RowsSound(cache)' /\ AllSaved(refresh.rows)'
  BY <1>3 DEF ScreenInv, ScanStarts, RowsSound, AllSaved
<1>6. ASSUME NEW k PROVE KeyFollowed(k)'
  <2>1. FirstSlots(refresh.next)' = {}
    BY <1>3 DEF FirstSlots
  <2> QED
    BY <1>3, <2>1 DEF KeyFollowed, Tells
<1> QED
  BY <1>2, <1>4, <1>5, <1>6 DEF ScreenInv

(* The discovered contacts are a list, each of them an unsaved row.         *)
LEMMA DiscoveredRows ==
  ASSUME ScreenTypes, NEW coming \in SetToSeqs(Discovered)
  PROVE  coming \in Seq(ContactRow) /\ \A i \in DOMAIN coming : ~coming[i].saved /\ ~coming[i].fav
<1>1. Discovered \subseteq {r \in ContactRow : ~r.saved /\ ~r.fav}
  <2> SUFFICES ASSUME NEW k \in ContactKeys, found[k] > 0
               PROVE  FromDiscovery(k) \in {r \in ContactRow : ~r.saved /\ ~r.fav}
    BY DEF Discovered
  <2>1. found[k] \in Nat
    BY DEF ScreenTypes
  <2> QED
    BY <2>1 DEF FromDiscovery, ContactRow
<1>2. IsFiniteSet(Discovered)
  <2> DEFINE known == {k \in ContactKeys : found[k] > 0}
  <2>1. IsFiniteSet(known)
    BY ContactScreenAssumption, FS_Subset
  <2> HIDE DEF known
  <2> DEFINE row == [k \in known |-> FromDiscovery(k)]
  <2>2. Discovered = {row[k] : k \in known}
    BY DEF Discovered, known
  <2>3. row \in Surjection(known, Discovered)
    BY <2>2 DEF Surjection
  <2> QED
    BY <2>1, <2>3, FS_Surjection
<1>3. Cardinality(Discovered) \in Nat
  BY <1>2, FS_CardinalityType
<1>4. coming \in [1 .. Cardinality(Discovered) -> Discovered]
  BY DEF SetToSeqs
<1>5. coming \in Seq(Discovered)
  BY <1>3, <1>4
<1> QED
  BY <1>1, <1>3, <1>4, <1>5

(* An edit leaves the queue: another that is due still is.                 *)
LEMMA OwedLeft ==
  ASSUME ScreenTypes, NEW k, Owed(k), edits # << >>, edits' = Tail(edits), stored' = stored,
         ~(Head(edits).key = k /\ EditDue(Head(edits)))
  PROVE  Owed(k)'
<1>1. PICK n \in DOMAIN edits : edits[n].key = k /\ EditDue(edits[n])
  BY DEF Owed
<1>2. edits \in Seq([kind : EditKinds, key : ContactKeys])
  BY DEF ScreenTypes
<1>3. n # 1
  BY <1>1, <1>2
<1>4. n - 1 \in DOMAIN Tail(edits) /\ Tail(edits)[n - 1] = edits[n]
  BY <1>1, <1>2, <1>3
<1>5. n - 1 \in DOMAIN edits' /\ edits'[n - 1] = edits[n]
  BY <1>4
<1>6. Contacts' = Contacts
  BY DEF Contacts
<1>7. EditDue(edits[n - 1])'
  BY <1>1, <1>5, <1>6 DEF EditDue, Holding
<1>8. edits'[n - 1].key = k
  BY <1>1, <1>5
<1> QED
  BY <1>5, <1>7, <1>8 DEF Owed

LEMMA PersistsInv ==
  ASSUME ScreenInv, Persists
  PROVE  ScreenInv'
<1> DEFINE e == Head(edits)
<1>1. ScreenTypes
  BY DEF ScreenInv
<1>2. /\ edits # << >> /\ edits \in Seq([kind : EditKinds, key : ContactKeys])
      /\ edits' = Tail(edits) /\ nudged' = TRUE
      /\ UNCHANGED <<stale, refresh, cache, heard, found, browser, cut>>
      /\ Edit(e)
  BY <1>1 DEF Persists, ScreenTypes
<1>3. e \in [kind : EditKinds, key : ContactKeys]
      /\ edits' \in Seq([kind : EditKinds, key : ContactKeys])
  <2> DEFINE S == [kind : EditKinds, key : ContactKeys]
  <2>1. edits \in Seq(S) /\ edits # << >> /\ edits' = Tail(edits)
    BY <1>2
  <2> HIDE DEF S
  <2>2. e \in S /\ edits' \in Seq(S)
    BY <2>1, HeadTailProperties
  <2> QED
    BY <2>2 DEF S
<1>4. e.key \in ContactKeys /\ e.kind \in EditKinds
  BY <1>3
<1> HIDE DEF e
<1>5. RowsSound(cache)' /\ AllSaved(refresh.rows)'
  BY <1>2 DEF ScreenInv, RowsSound, AllSaved
<1>6. CASE stored' \in [1 .. StoreSlots -> {NoContact} \cup Saved] /\ marking' \in {"slot", "meta"}
           /\ UNCHANGED <<astray, tallies>>
  <2>1. ScreenTypes'
    BY <1>1, <1>2, <1>3, <1>6 DEF ScreenTypes
  <2> QED
    BY <1>2, <1>6, <2>1, MarkingInv
<1>7. ASSUME UNCHANGED <<stored, marking>>, astray \subseteq astray', astray' \subseteq ContactKeys,
             tallies' \in Tallies,
             EditDue(e) => e.key \in astray'
      PROVE  ScreenInv'
  <2>1. ScreenTypes'
    BY <1>1, <1>2, <1>3, <1>7 DEF ScreenTypes
  <2>2. ASSUME NEW k \in ContactKeys \ astray', KeyFollowed(k) PROVE KeyFollowed(k)'
    <3>1. Contacts' = Contacts /\ FirstSlots(refresh.next)' = FirstSlots(refresh.next)
      BY <1>2, <1>7 DEF Contacts, FirstSlots
    <3>2. /\ Tells(refresh.rows, FirstSlots(refresh.next), k)'
               = Tells(refresh.rows, FirstSlots(refresh.next), k)
          /\ Tells(cache, Contacts, k)' = Tells(cache, Contacts, k)
      BY <1>2, <3>1 DEF Tells, SavedKeys
    <3>3. Owed(k) => Owed(k)'
      BY <1>1, <1>2, <1>7, <2>2, OwedLeft DEF e
    <3> QED
      BY <1>2, <2>2, <3>2, <3>3 DEF KeyFollowed
  <2>3. Untouched' => \A k \in ContactKeys \ astray' : KeyFollowed(k)'
    BY <1>2, <1>7, <2>2 DEF ScreenInv, Untouched
  <2> QED
    BY <1>2, <1>5, <2>1, <2>3 DEF ScreenInv
<1>8. CASE /\ e.kind = "add" /\ found[e.key] > 0
           /\ \E i \in Places(e.key) : Writes(i, [key |-> e.key, fav |-> Kept(i, e.key)])
           /\ UNCHANGED <<astray, tallies>>
  <2>1. PICK i \in Places(e.key) : Writes(i, [key |-> e.key, fav |-> Kept(i, e.key)])
    BY <1>8
  <2>2. i \in 1 .. StoreSlots
    BY PlacesAreSlots
  <2>3. [key |-> e.key, fav |-> Kept(i, e.key)] \in Saved
    BY <1>1, <1>4, <2>2, KeptFlag DEF Saved
  <2> QED
    BY <1>1, <1>6, <1>8, <2>1, <2>2, <2>3, SlotWritten
<1>9. CASE /\ e.kind = "forget"
           /\ \E i \in Holding(e.key) : Writes(i, NoContact)
           /\ UNCHANGED <<astray, tallies>>
  BY <1>1, <1>6, <1>9, PlacesAreSlots, SlotWritten
<1>10. CASE /\ e.kind \in {"save", "unsave"}
            /\ \E i \in Holding(e.key) :
                  /\ stored[i].fav # (e.kind = "save")
                  /\ Writes(i, [key |-> e.key, fav |-> (e.kind = "save")])
            /\ UNCHANGED <<astray, tallies>>
  <2>1. [key |-> e.key, fav |-> (e.kind = "save")] \in Saved
    BY <1>4 DEF Saved
  <2> QED
    BY <1>1, <1>6, <1>10, <2>1, PlacesAreSlots, SlotWritten
<1>11. CASE /\ \/ e.kind = "add" /\ Holding(e.key) # {} /\ found[e.key] > 0
               \/ e.kind # "add" /\ Holding(e.key) = {}
               \/ \E c \in Contacts : c.key = e.key /\ e.kind \in {"save", "unsave"}
                                      /\ c.fav = (e.kind = "save")
            /\ UNCHANGED <<stored, marking, astray, tallies>>
  <2>1. ~EditDue(e)
    BY <1>11 DEF EditDue
  <2> QED
    BY <1>1, <1>7, <1>11, <2>1 DEF ScreenTypes
<1>12. CASE e.kind = "add" /\ found[e.key] = 0
            /\ astray' = astray \cup {e.key} /\ UNCHANGED <<stored, marking, tallies>>
  BY <1>1, <1>4, <1>7, <1>12 DEF ScreenTypes
<1>13. CASE Failure /\ astray' = astray \cup {e.key} /\ UNCHANGED <<stored, marking>>
  <2>1. tallies' \in Tallies
    BY <1>1, <1>13, CountedUp DEF Failure, ScreenTypes
  <2> QED
    BY <1>1, <1>4, <1>7, <1>13, <2>1 DEF ScreenTypes
<1> QED
  BY <1>2, <1>8, <1>9, <1>10, <1>11, <1>12, <1>13 DEF Edit

(* Pass 2 adds only unsaved rows, of keys that have none.                  *)
LEMMA MergedRows ==
  ASSUME ScreenTypes, NEW rows \in Seq(ContactRow), AllSaved(rows), NEW out \in Merged(rows)
  PROVE  /\ out \in Seq(ContactRow) /\ RowsSound(out)
         /\ \A i \in DOMAIN out : out[i].saved => \E j \in DOMAIN rows : out[i] = rows[j]
<1> DEFINE kept == {s \in Seq(ContactRow) :
                      /\ RowsSound(s)
                      /\ \A i \in DOMAIN s : s[i].saved => \E j \in DOMAIN rows : s[i] = rows[j]}
<1>1. PICK coming \in SetToSeqs(Discovered) : out = Fill(rows, coming)
  BY DEF Merged
<1>2. coming \in Seq(ContactRow) /\ \A i \in DOMAIN coming : ~coming[i].saved /\ ~coming[i].fav
  BY <1>1, DiscoveredRows
<1>3. rows \in kept
  BY DEF AllSaved, RowsSound
<1>4. ASSUME NEW s \in kept, NEW n \in DOMAIN coming PROVE Placed(s, coming[n]) \in kept
  <2> DEFINE e == coming[n]
             t == InsertSorted(s, e)
  <2>1. e \in ContactRow /\ ~e.saved /\ ~e.fav
    BY <1>2
  <2>2. CASE e.key \in RowKeys(s)
    BY <2>1, <2>2 DEF Placed
  <2>3. CASE e.key \notin RowKeys(s)
    <3>1. /\ t \in Seq(ContactRow)
          /\ \A i \in DOMAIN t : t[i] = e \/ \E j \in DOMAIN s : t[i] = s[j]
      BY <2>1, InsertedRows
    <3>2. \A j \in DOMAIN s : s[j].key # e.key
      BY <2>3 DEF RowKeys
    <3>3. Placed(s, e) = t
      BY <2>3 DEF Placed
    <3> HIDE DEF e, t
    <3>4. RowsSound(t)
      BY <2>1, <3>1, <3>2 DEF RowsSound
    <3>5. \A i \in DOMAIN t : t[i].saved => \E j \in DOMAIN rows : t[i] = rows[j]
      BY <2>1, <3>1
    <3> QED
      BY <3>1, <3>3, <3>4, <3>5 DEF e
  <2> QED
    BY <2>2, <2>3
<1> HIDE DEF kept
<1>5. out \in kept
  BY <1>1, <1>2, <1>3, <1>4, FillKeeps
<1> QED
  BY <1>5 DEF kept

(* The fast way keeps of the saved rows what the store knows of them.      *)
LEMMA CarriedRows ==
  ASSUME ScreenTypes
  PROVE  LET out == Fill(<< >>, Carried)
         IN  /\ out \in Seq(ContactRow) /\ AllSaved(out)
             /\ \A i \in DOMAIN out : \E j \in DOMAIN cache :
                   cache[j].saved /\ out[i].key = cache[j].key /\ out[i].fav = cache[j].fav
<1> DEFINE places == {i \in DOMAIN cache : cache[i].saved}
           saved == RowsAt(cache, places)
           From(r) == \E j \in DOMAIN cache :
                         cache[j].saved /\ r.key = cache[j].key /\ r.fav = cache[j].fav
           kept == {s \in Seq(ContactRow) : AllSaved(s) /\ \A i \in DOMAIN s : From(s[i])}
<1>1. cache \in Seq(ContactRow) /\ heard \in [ContactKeys -> Nat]
  BY DEF ScreenTypes
<1>2. /\ saved \in Seq(ContactRow)
      /\ \A n \in DOMAIN saved : \E i \in places : saved[n] = cache[i]
  <2>1. places \in SUBSET DOMAIN cache
    OBVIOUS
  <2> HIDE DEF places
  <2> QED
    BY <1>1, <2>1, RowsAtPlaces
<1>3. Carried = [i \in DOMAIN saved |-> [saved[i] EXCEPT !.at = heard[saved[i].key]]]
  BY DEF Carried
<1>4. ASSUME NEW n \in DOMAIN saved
      PROVE  LET r == [saved[n] EXCEPT !.at = heard[saved[n].key]]
             IN  r \in ContactRow /\ r.saved /\ From(r)
  <2>1. PICK i \in places : saved[n] = cache[i]
    BY <1>2
  <2>2. saved[n] \in ContactRow /\ saved[n].saved
    BY <1>2, <2>1
  <2>3. heard[saved[n].key] \in Nat
    BY <1>1, <2>2 DEF ContactRow
  <2> DEFINE r == [saved[n] EXCEPT !.at = heard[saved[n].key]]
  <2>4. r \in ContactRow /\ r.saved /\ r.key = saved[n].key /\ r.fav = saved[n].fav
    BY <2>2, <2>3 DEF ContactRow
  <2> HIDE DEF r
  <2>5. From(r)
    BY <2>1, <2>4
  <2> QED
    BY <2>4, <2>5 DEF r
<1> HIDE DEF saved
<1>5. Carried \in Seq(ContactRow) /\ \A n \in DOMAIN Carried : Carried[n].saved /\ From(Carried[n])
  <2>1. DOMAIN Carried = 1 .. Len(saved) /\ Len(saved) \in Nat
    BY <1>2, <1>3
  <2>2. \A n \in DOMAIN Carried : Carried[n] \in ContactRow /\ Carried[n].saved /\ From(Carried[n])
    BY <1>3, <1>4
  <2>3. Carried = [n \in 1 .. Len(saved) |-> Carried[n]]
    BY <1>3, <2>1
  <2>4. Carried \in [1 .. Len(saved) -> ContactRow]
    BY <2>1, <2>2, <2>3
  <2> QED
    BY <2>1, <2>2, <2>4
<1>6. << >> \in kept
  BY DEF AllSaved
<1>7. ASSUME NEW s \in kept, NEW n \in DOMAIN Carried PROVE Placed(s, Carried[n]) \in kept
  <2> DEFINE e == Carried[n]
             t == InsertSorted(s, e)
  <2>1. e \in ContactRow /\ e.saved /\ From(e)
    BY <1>5
  <2>2. /\ t \in Seq(ContactRow)
        /\ \A i \in DOMAIN t : t[i] = e \/ \E j \in DOMAIN s : t[i] = s[j]
    BY <2>1, InsertedRows
  <2>3. Placed(s, e) = t
    BY <2>1 DEF Placed
  <2>4. (\A i \in DOMAIN s : s[i].saved /\ From(s[i])) /\ s \in Seq(ContactRow)
    BY DEF AllSaved
  <2> HIDE DEF e, t, From
  <2>5. \A i \in DOMAIN t : t[i].saved /\ From(t[i])
    BY <2>1, <2>2, <2>4
  <2> QED
    BY <2>2, <2>3, <2>5 DEF AllSaved, e
<1> HIDE DEF kept
<1>8. Fill(<< >>, Carried) \in kept
  BY <1>5, <1>6, <1>7, FillKeeps
<1> QED
  BY <1>8 DEF kept

LEMMA FastRefreshInv ==
  ASSUME ScreenInv, FastRefresh
  PROVE  ScreenInv'
<1> DEFINE rows == Fill(<< >>, Carried)
<1>1. ScreenTypes
  BY DEF ScreenInv
<1>2. /\ refresh.pc = "quiet" /\ cache' \in Merged(rows)
      /\ cut' = (cut \/ ~(SavedKeys(cache) \subseteq SavedKeys(cache')))
      /\ refresh' = [refresh EXCEPT !.pc = "wait"] /\ ~stale
      /\ UNCHANGED <<stored, marking, stale, nudged, heard, found, edits, browser, astray, tallies>>
  BY DEF FastRefresh, storeSide, Refreshed
<1>3. /\ rows \in Seq(ContactRow) /\ AllSaved(rows)
      /\ \A i \in DOMAIN rows : \E j \in DOMAIN cache :
            cache[j].saved /\ rows[i].key = cache[j].key /\ rows[i].fav = cache[j].fav
  BY <1>1, CarriedRows
<1> HIDE DEF rows
<1>4. /\ cache' \in Seq(ContactRow) /\ RowsSound(cache')
      /\ \A i \in DOMAIN cache' : cache'[i].saved => \E j \in DOMAIN rows : cache'[i] = rows[j]
  BY <1>1, <1>2, <1>3, MergedRows
<1>5. refresh' \in [pc : {"wait", "quiet", "scan"}, next : Nat \ {0}, rows : Seq(ContactRow)]
      /\ refresh'.pc = "wait" /\ refresh'.rows = refresh.rows
  BY <1>1, <1>2 DEF ScreenTypes
<1>6. ScreenTypes'
  BY <1>1, <1>2, <1>4, <1>5 DEF ScreenTypes
<1>7. RowsSound(cache)' /\ AllSaved(refresh.rows)'
  BY <1>4, <1>5 DEF ScreenInv, RowsSound, AllSaved
<1>8. ASSUME Untouched', NEW k \in ContactKeys \ astray' PROVE KeyFollowed(k)'
  <2>1. KeyFollowed(k) /\ SavedKeys(cache) \subseteq SavedKeys(cache')
    BY <1>2, <1>8 DEF ScreenInv, Untouched
  <2>2. Contacts' = Contacts
    BY <1>2 DEF Contacts
  <2>3. CASE Owed(k)
    <3>1. Owed(k)'
      BY <1>2, <2>2, <2>3 DEF Owed, EditDue, Holding
    <3> QED
      BY <1>5, <3>1 DEF KeyFollowed
  <2>4. CASE Tells(cache, Contacts, k)
    <3>1. \A c \in Contacts : c.key = k => k \in SavedKeys(cache')
      BY <2>1, <2>4 DEF Tells
    <3>2. ASSUME NEW i \in DOMAIN cache', cache'[i].saved, cache'[i].key = k
          PROVE  \E c \in Contacts : c.key = k /\ c.fav = cache'[i].fav
      <4>1. PICK j \in DOMAIN rows : cache'[i] = rows[j]
        BY <1>4, <3>2
      <4>2. PICK m \in DOMAIN cache :
               cache[m].saved /\ rows[j].key = cache[m].key /\ rows[j].fav = cache[m].fav
        BY <1>3
      <4> QED
        BY <2>4, <3>2, <4>1, <4>2 DEF Tells
    <3>3. Tells(cache', Contacts, k)
      BY <3>1, <3>2 DEF Tells
    <3>4. Tells(cache, Contacts, k)'
      BY <2>2, <3>3 DEF Tells, SavedKeys
    <3> QED
      BY <1>5, <3>4 DEF KeyFollowed
  <2> QED
    BY <1>2, <2>1, <2>3, <2>4 DEF KeyFollowed
<1> QED
  BY <1>2, <1>6, <1>7, <1>8 DEF ScreenInv

LEMMA ScanSlotInv ==
  ASSUME ScreenInv, ScanSlot
  PROVE  ScreenInv'
<1> DEFINE c == stored[refresh.next]
           n == refresh.next
           rows == IF c = NoContact THEN refresh.rows
                   ELSE InsertSorted(refresh.rows, FromContact(c))
<1>1. ScreenTypes
  BY DEF ScreenInv
<1>2. /\ refresh.pc = "scan" /\ n <= StoreSlots
      /\ UNCHANGED <<stored, marking, stale, nudged, cache, heard, found, edits, browser, astray>>
      /\ \/ /\ refresh' = [refresh EXCEPT !.next = @ + 1, !.rows = rows]
            /\ cut' = (cut \/ Len(rows) < Len(refresh.rows) + Cardinality({c} \ {NoContact}))
            /\ UNCHANGED tallies
         \/ /\ Failure /\ cut' = TRUE
            /\ refresh' = [refresh EXCEPT !.next = @ + 1]
  BY DEF ScanSlot, storeSide
<1>3. /\ n \in 1 .. StoreSlots /\ n \in Nat /\ c \in {NoContact} \cup Saved
      /\ refresh.rows \in Seq(ContactRow) /\ AllSaved(refresh.rows)
  BY <1>1, <1>2, ScreenSizes DEF ScreenTypes, ScreenInv
<1>4. c # NoContact => /\ FromContact(c) \in ContactRow /\ FromContact(c).saved
                       /\ FromContact(c).key = c.key /\ FromContact(c).fav = c.fav
  <2> SUFFICES ASSUME c \in Saved
               PROVE  /\ FromContact(c) \in ContactRow /\ FromContact(c).saved
                      /\ FromContact(c).key = c.key /\ FromContact(c).fav = c.fav
    BY <1>3
  <2>1. c.key \in ContactKeys /\ c.fav \in BOOLEAN
    BY DEF Saved
  <2>2. heard[c.key] \in Nat
    BY <1>1, <2>1 DEF ScreenTypes
  <2> HIDE DEF c
  <2> QED
    BY <2>1, <2>2 DEF FromContact, ContactRow
<1>5. rows \in Seq(ContactRow) /\ AllSaved(rows)
  <2>1. CASE c = NoContact
    BY <1>3, <2>1
  <2>2. CASE c # NoContact
    <3> DEFINE out == InsertSorted(refresh.rows, FromContact(c))
    <3>1. /\ out \in Seq(ContactRow)
          /\ \A i \in DOMAIN out : out[i] = FromContact(c)
                                    \/ \E j \in DOMAIN refresh.rows : out[i] = refresh.rows[j]
      BY <1>3, <1>4, <2>2, InsertedRows
    <3>2. rows = out
      BY <2>2
    <3> HIDE DEF out, rows, c
    <3>3. AllSaved(out)
      BY <1>3, <1>4, <2>2, <3>1 DEF AllSaved
    <3> QED
      BY <3>1, <3>2, <3>3
  <2> QED
    BY <2>1, <2>2
<1>6. FirstSlots(n + 1) = FirstSlots(n) \cup ({c} \ {NoContact})
  <2>1. {i \in 1 .. StoreSlots : i < n + 1} = {i \in 1 .. StoreSlots : i < n} \cup {n}
    BY <1>3, ScreenSizes
  <2> HIDE DEF n
  <2> QED
    BY <2>1 DEF FirstSlots, n
<1> HIDE DEF rows
<1>7. /\ refresh' \in [pc : {"wait", "quiet", "scan"}, next : Nat \ {0}, rows : Seq(ContactRow)]
      /\ refresh'.pc = "scan" /\ refresh'.next = n + 1
      /\ refresh'.rows = rows \/ refresh'.rows = refresh.rows
  <2> HIDE DEF c, n
  <2>1. refresh \in [pc : {"wait", "quiet", "scan"}, next : Nat \ {0}, rows : Seq(ContactRow)]
        /\ refresh.pc = "scan" /\ refresh.next = n /\ n + 1 \in Nat \ {0}
    BY <1>1, <1>2, <1>3 DEF ScreenTypes, n
  <2>2. CASE refresh' = [refresh EXCEPT !.next = @ + 1, !.rows = rows]
    BY <1>5, <2>1, <2>2
  <2>3. CASE refresh' = [refresh EXCEPT !.next = @ + 1]
    BY <2>1, <2>3
  <2> QED
    BY <1>2, <2>2, <2>3
<1>8. ScreenTypes'
  <2>1. tallies' \in Tallies /\ cut' \in BOOLEAN
    BY <1>1, <1>2, CountedUp DEF ScreenTypes, Failure
  <2> QED
    BY <1>1, <1>2, <1>7, <2>1 DEF ScreenTypes
<1>9. RowsSound(cache)' /\ AllSaved(refresh.rows)'
  <2>1. AllSaved(refresh.rows)'
    BY <1>3, <1>5, <1>7 DEF AllSaved
  <2> QED
    BY <1>2, <2>1 DEF ScreenInv, RowsSound
<1>10. ASSUME Untouched', NEW k \in ContactKeys \ astray' PROVE KeyFollowed(k)'
  <2>1. /\ refresh'.rows = rows
        /\ ~(Len(rows) < Len(refresh.rows) + Cardinality({c} \ {NoContact}))
        /\ Untouched
    BY <1>1, <1>2, <1>3, <1>10 DEF Untouched, ScreenTypes
  <2>2. Tells(refresh.rows, FirstSlots(n), k)
    BY <1>2, <1>10, <2>1 DEF ScreenInv, KeyFollowed
  <2>3. Tells(rows, FirstSlots(n + 1), k)
    <3>1. CASE c = NoContact
      <4>1. FirstSlots(n + 1) = FirstSlots(n) /\ rows = refresh.rows
        BY <1>6, <3>1 DEF rows
      <4> QED
        BY <2>2, <4>1
    <3>2. CASE c # NoContact
      <4> DEFINE e == FromContact(c)
      <4>1. rows = InsertSorted(refresh.rows, e)
        BY <3>2 DEF rows
      <4>2. Cardinality({c} \ {NoContact}) = 1
        <5>1. {c} \ {NoContact} = {c}
          BY <3>2
        <5> QED
          BY <5>1, FS_Singleton
      <4>3. ~(Len(rows) < Len(refresh.rows) + 1)
        BY <2>1, <4>2
      <4>4. /\ \A i \in DOMAIN rows : rows[i] = e \/ \E j \in DOMAIN refresh.rows : rows[i] = refresh.rows[j]
            /\ \A j \in DOMAIN refresh.rows : \E i \in DOMAIN rows : rows[i] = refresh.rows[j]
            /\ \E i \in DOMAIN rows : rows[i] = e
        <5>1. e \in ContactRow /\ refresh.rows \in Seq(ContactRow)
          BY <1>3, <1>4, <3>2
        <5> HIDE DEF e, c
        <5>2. LET out == InsertSorted(refresh.rows, e)
              IN  /\ \A i \in DOMAIN out : out[i] = e \/ \E j \in DOMAIN refresh.rows : out[i] = refresh.rows[j]
                  /\ Len(out) < Len(refresh.rows) + 1
                     \/ /\ \A j \in DOMAIN refresh.rows : \E i \in DOMAIN out : out[i] = refresh.rows[j]
                        /\ \E i \in DOMAIN out : out[i] = e
          BY <5>1, InsertedRows
        <5> QED
          BY <4>1, <4>3, <5>2
      <4>5. FirstSlots(n + 1) = FirstSlots(n) \cup {c}
        BY <1>6, <3>2
      <4>6. e.saved /\ e.key = c.key /\ e.fav = c.fav
        BY <1>4, <3>2
      <4> HIDE DEF e, c, n
      <4>7. ASSUME NEW d \in FirstSlots(n + 1), d.key = k PROVE k \in SavedKeys(rows)
        <5>1. CASE d = c
          BY <4>4, <4>6, <4>7, <5>1 DEF SavedKeys
        <5>2. CASE d \in FirstSlots(n)
          <6>1. k \in SavedKeys(refresh.rows)
            BY <2>2, <4>7, <5>2 DEF Tells
          <6> QED
            BY <4>4, <6>1 DEF SavedKeys
        <5> QED
          BY <4>5, <5>1, <5>2
      <4>8. ASSUME NEW i \in DOMAIN rows, rows[i].saved, rows[i].key = k
            PROVE  \E d \in FirstSlots(n + 1) : d.key = k /\ d.fav = rows[i].fav
        <5>1. CASE rows[i] = e
          BY <4>5, <4>6, <4>8, <5>1
        <5>2. CASE \E j \in DOMAIN refresh.rows : rows[i] = refresh.rows[j]
          BY <2>2, <4>5, <4>8, <5>2 DEF Tells
        <5> QED
          BY <4>4, <5>1, <5>2
      <4> QED
        BY <4>7, <4>8 DEF Tells
    <3> QED
      BY <3>1, <3>2
  <2>4. Tells(refresh.rows, FirstSlots(refresh.next), k)'
    <3>1. FirstSlots(refresh.next)' = FirstSlots(n + 1)
      BY <1>2, <1>7 DEF FirstSlots
    <3> QED
      BY <2>1, <2>3, <3>1 DEF Tells, SavedKeys
  <2> QED
    BY <1>7, <2>4 DEF KeyFollowed
<1> QED
  BY <1>2, <1>8, <1>9, <1>10 DEF ScreenInv

LEMMA ScanEndsInv ==
  ASSUME ScreenInv, ScanEnds
  PROVE  ScreenInv'
<1>1. ScreenTypes
  BY DEF ScreenInv
<1>2. /\ refresh.pc = "scan" /\ refresh.next > StoreSlots /\ cache' \in Merged(refresh.rows)
      /\ cut' = (cut \/ ~(SavedKeys(refresh.rows) \subseteq SavedKeys(cache')))
      /\ refresh' = [pc |-> "wait", next |-> 1, rows |-> << >>]
      /\ UNCHANGED <<stored, marking, stale, nudged, heard, found, edits, browser, astray, tallies>>
  BY DEF ScanEnds, storeSide
<1>3. refresh.rows \in Seq(ContactRow) /\ AllSaved(refresh.rows) /\ refresh.next \in Nat
  BY <1>1 DEF ScreenTypes, ScreenInv
<1>4. /\ cache' \in Seq(ContactRow) /\ RowsSound(cache')
      /\ \A i \in DOMAIN cache' :
            cache'[i].saved => \E j \in DOMAIN refresh.rows : cache'[i] = refresh.rows[j]
  BY <1>1, <1>2, <1>3, MergedRows
<1>5. refresh' \in [pc : {"wait", "quiet", "scan"}, next : Nat \ {0}, rows : Seq(ContactRow)]
      /\ refresh'.pc = "wait" /\ refresh'.rows = << >>
  BY <1>2
<1>6. ScreenTypes'
  BY <1>1, <1>2, <1>4, <1>5 DEF ScreenTypes
<1>7. RowsSound(cache)' /\ AllSaved(refresh.rows)'
  BY <1>4, <1>5 DEF RowsSound, AllSaved
<1>8. ASSUME Untouched', NEW k \in ContactKeys \ astray' PROVE KeyFollowed(k)'
  <2>1. KeyFollowed(k) /\ SavedKeys(refresh.rows) \subseteq SavedKeys(cache')
    BY <1>2, <1>8 DEF ScreenInv, Untouched
  <2>2. Contacts' = Contacts
    BY <1>2 DEF Contacts
  <2>3. Tells(refresh.rows, Contacts, k)
    BY <1>2, <1>3, <2>1, EverySlot DEF KeyFollowed
  <2>4. \A c \in Contacts : c.key = k => k \in SavedKeys(cache')
    BY <2>1, <2>3 DEF Tells
  <2>5. ASSUME NEW i \in DOMAIN cache', cache'[i].saved, cache'[i].key = k
        PROVE  \E c \in Contacts : c.key = k /\ c.fav = cache'[i].fav
    <3>1. PICK j \in DOMAIN refresh.rows : cache'[i] = refresh.rows[j]
      BY <1>4, <2>5
    <3> QED
      BY <2>3, <2>5, <3>1 DEF Tells
  <2>6. Tells(cache', Contacts, k)
    BY <2>4, <2>5 DEF Tells
  <2>7. Tells(cache, Contacts, k)'
    BY <2>2, <2>6 DEF Tells, SavedKeys
  <2> QED
    BY <1>5, <2>7 DEF KeyFollowed
<1> QED
  BY <1>2, <1>6, <1>7, <1>8 DEF ScreenInv

(* Filtered rows are rows of the cache.                                    *)
LEMMA FilteredRows ==
  ASSUME NEW rows \in Seq(ContactRow), NEW f
  PROVE  /\ Filtered(rows, f) \in Seq(ContactRow)
         /\ \A n \in DOMAIN Filtered(rows, f) : \E i \in DOMAIN rows : Filtered(rows, f)[n] = rows[i]
<1> DEFINE places == {i \in DOMAIN rows : Matches(f, rows[i])}
<1>1. places \in SUBSET DOMAIN rows
  OBVIOUS
<1>2. Filtered(rows, f) = RowsAt(rows, places)
  BY DEF Filtered
<1> HIDE DEF places
<1> QED
  BY <1>1, <1>2, RowsAtPlaces

LEMMA ShownRow ==
  ASSUME ScreenTypes, NEW i \in Nat, RowAt(i) # {}
  PROVE  \E j \in DOMAIN cache : (CHOOSE r \in RowAt(i) : TRUE) = cache[j]
<1>1. cache \in Seq(ContactRow)
  BY DEF ScreenTypes
<1>2. /\ Listed \in Seq(ContactRow)
      /\ \A n \in DOMAIN Listed : \E j \in DOMAIN cache : Listed[n] = cache[j]
  BY <1>1, FilteredRows DEF Listed
<1>3. i < Len(Listed) /\ RowAt(i) = {Listed[i + 1]}
  BY DEF RowAt
<1>4. i + 1 \in DOMAIN Listed
  BY <1>2, <1>3
<1>5. (CHOOSE r \in RowAt(i) : TRUE) = Listed[i + 1]
  BY <1>3
<1> QED
  BY <1>2, <1>4, <1>5

(* The popup offers to add a row that is not saved, and to edit one that is. *)
LEMMA PopupOffers ==
  ASSUME NEW r \in ContactRow
  PROVE  /\ r.saved => PopupItems(r) \in Seq({"pm", "info", "save", "unsave", "forget", "cancel"})
         /\ ~r.saved => PopupItems(r) \in Seq({"add", "pm", "info", "cancel"})
<1> DEFINE A == {"add", "pm", "info", "cancel"}
           B == {"pm", "info", "save", "unsave", "forget", "cancel"}
<1>1. CASE r.saved
  <2> DEFINE front == IF NodeType[r.key] = "chat" THEN <<"pm">> ELSE << >>
             back == <<"info", IF r.fav THEN "unsave" ELSE "save", "forget", "cancel">>
  <2>1. front \in Seq(B) /\ back \in Seq(B)
    <3>1. front \in Seq(B)
      <4>1. <<"pm">> \in Seq(B) /\ << >> \in Seq(B)
        OBVIOUS
      <4> HIDE DEF B
      <4> QED
        BY <4>1
    <3>2. CASE r.fav
      <4>1. back = <<"info", "unsave", "forget", "cancel">>
        BY <3>2
      <4> QED
        BY <3>1, <4>1
    <3>3. CASE ~r.fav
      <4>1. back = <<"info", "save", "forget", "cancel">>
        BY <3>3
      <4> QED
        BY <3>1, <4>1
    <3> QED
      BY <3>2, <3>3
  <2>2. PopupItems(r) = front \o back
    BY <1>1 DEF PopupItems
  <2> HIDE DEF front, back, B
  <2>3. PopupItems(r) \in Seq(B)
    BY <2>1, <2>2, ConcatProperties
  <2> QED
    BY <1>1, <2>3 DEF B
<1>2. CASE ~r.saved
  <2> DEFINE front == <<"add">>
             middle == IF NodeType[r.key] = "chat" THEN <<"pm">> ELSE << >>
             back == <<"info", "cancel">>
  <2>1. front \in Seq(A) /\ middle \in Seq(A) /\ back \in Seq(A)
    <3>1. front \in Seq(A)
      OBVIOUS
    <3>2. middle \in Seq(A)
      <4>1. <<"pm">> \in Seq(A) /\ << >> \in Seq(A)
        OBVIOUS
      <4> HIDE DEF A
      <4> QED
        BY <4>1
    <3>3. back \in Seq(A)
      OBVIOUS
    <3> QED
      BY <3>1, <3>2, <3>3
  <2>2. PopupItems(r) = front \o middle \o back
    BY <1>2 DEF PopupItems
  <2> HIDE DEF front, middle, back, A
  <2>3. front \o middle \in Seq(A)
    BY <2>1, ConcatProperties
  <2>4. PopupItems(r) \in Seq(A)
    BY <2>1, <2>2, <2>3, ConcatProperties
  <2> QED
    BY <1>2, <2>4 DEF A
<1> QED
  BY <1>1, <1>2

LEMMA ItemsCount ==
  ASSUME ScreenTypes
  PROVE  Len(Items) \in Nat
<1>1. CASE RowAt(browser.target) = {}
  BY <1>1 DEF Items
<1>2. CASE RowAt(browser.target) # {}
  <2> DEFINE r == CHOOSE r \in RowAt(browser.target) : TRUE
  <2>1. r \in ContactRow
    <3>1. cache \in Seq(ContactRow) /\ browser.target \in Nat
      BY DEF ScreenTypes, Browsers, Views
    <3>2. PICK j \in DOMAIN cache : r = cache[j]
      BY <1>2, <3>1, ShownRow
    <3> HIDE DEF r
    <3> QED
      BY <3>1, <3>2
  <2>2. Items = PopupItems(r)
    BY <1>2 DEF Items
  <2> HIDE DEF r
  <2> QED
    BY <2>1, <2>2, PopupOffers, LenProperties
<1> QED
  BY <1>1, <1>2

(* Browsing moves the cursor and leaves the rest as it is.                 *)
LEMMA BrowsesInv ==
  ASSUME ScreenInv, browser' \in Browsers, NEW mode, Presses(mode),
         UNCHANGED <<cache, edits, astray>>
  PROVE  ScreenInv'
<1>1. ScreenTypes
  BY DEF ScreenInv
<1>2. UNCHANGED <<stored, marking, stale, nudged, refresh, heard, found, cut, cache, edits, astray>>
  BY DEF Presses, storeSide
<1>3. tallies' \in Tallies
  BY <1>1, CountedUp DEF Presses, ScreenTypes
<1>4. ScreenTypes'
  BY <1>1, <1>2, <1>3 DEF ScreenTypes
<1>5. RowsSound(cache)' /\ AllSaved(refresh.rows)'
  BY <1>2 DEF ScreenInv, RowsSound, AllSaved
<1>6. Untouched' => \A k \in ContactKeys \ astray' : KeyFollowed(k)'
  BY <1>2, SameFollowed DEF ScreenInv, Untouched
<1> QED
  BY <1>2, <1>4, <1>5, <1>6 DEF ScreenInv

LEMMA FilterAt ==
  /\ \A n \in 1 .. 6 : FILTERS[n] \in FilterNames
  /\ \A f \in FilterNames : (CHOOSE i \in DOMAIN FILTERS : FILTERS[i] = f) \in 1 .. 6
<1>1. \A n \in 1 .. 6 : FILTERS[n] \in FilterNames
  BY Zenon DEF FilterNames
<1>2. ASSUME NEW f \in FilterNames
      PROVE  (CHOOSE i \in DOMAIN FILTERS : FILTERS[i] = f) \in 1 .. 6
  <2>1. \E i \in DOMAIN FILTERS : FILTERS[i] = f
    BY ScreenSizes, Zenon DEF FilterNames
  <2>2. (CHOOSE i \in DOMAIN FILTERS : FILTERS[i] = f) \in DOMAIN FILTERS
    BY <2>1
  <2> QED
    BY <2>2, ScreenSizes
<1> QED
  BY <1>1, <1>2

LEMMA ViewFields ==
  ASSUME ScreenTypes
  PROVE  /\ browser \in Views /\ browser.filter \in FilterNames
         /\ browser.cursor \in Nat /\ browser.scroll \in Nat
         /\ browser.target \in Nat /\ browser.pos \in Nat
         /\ browser.mode = "filters" => browser.pos < 6
         /\ VisibleRows \in Nat \ {0}
BY ContactScreenAssumption DEF ScreenTypes, Browsers, Views

LEMMA BrowsingInv ==
  ASSUME ScreenInv,
         \/ ListUp \/ ListDown \/ OpensPopup \/ OpensPicker \/ PopupMoves \/ PickerMoves
         \/ Picks \/ Backs \/ ShowsDetail \/ LeavesPopup \/ DetailNext \/ DetailWrites
  PROVE  ScreenInv'
<1>1. ScreenTypes
  BY DEF ScreenInv
<1>2. CASE ListUp
  <2>1. Presses("list") /\ UNCHANGED <<cache, edits, astray>>
    BY <1>2 DEF ListUp, Browses
  <2> DEFINE to == browser.cursor - 1
             top == IF to < browser.scroll THEN to ELSE browser.scroll
  <2>2. to \in Nat /\ top \in Nat
    BY <1>1, <1>2, ViewFields DEF ListUp
  <2>3. browser.mode = "list" /\ browser' = [browser EXCEPT !.cursor = to, !.scroll = top]
    BY <1>2 DEF ListUp, Browses, Presses
  <2> HIDE DEF to, top
  <2>4. browser' \in Browsers
    BY <1>1, <2>2, <2>3, ViewFields DEF Browsers, Views
  <2> QED
    BY <2>1, <2>4, BrowsesInv
<1>3. CASE ListDown
  <2>1. Presses("list") /\ UNCHANGED <<cache, edits, astray>>
    BY <1>3 DEF ListDown, Browses
  <2> DEFINE to == browser.cursor + 1
             top == IF to >= browser.scroll + VisibleRows THEN to + 1 - VisibleRows ELSE browser.scroll
  <2>2. to \in Nat /\ top \in Nat
    BY <1>1, ViewFields
  <2>3. browser.mode = "list" /\ browser' = [browser EXCEPT !.cursor = to, !.scroll = top]
    BY <1>3 DEF ListDown, Browses, Presses
  <2> HIDE DEF to, top
  <2>4. browser' \in Browsers
    BY <1>1, <2>2, <2>3, ViewFields DEF Browsers, Views
  <2> QED
    BY <2>1, <2>4, BrowsesInv
<1>4. CASE OpensPopup
  <2>1. Presses("list") /\ UNCHANGED <<cache, edits, astray>>
    BY <1>4 DEF OpensPopup, Browses
  <2>2. browser' \in Browsers
    BY <1>1, <1>4, ViewFields DEF OpensPopup, Browses, Browsers, Views
  <2> QED
    BY <2>1, <2>2, BrowsesInv
<1>5. CASE OpensPicker
  <2>1. Presses("list") /\ UNCHANGED <<cache, edits, astray>>
    BY <1>5 DEF OpensPicker, Browses
  <2> DEFINE pos == (CHOOSE i \in DOMAIN FILTERS : FILTERS[i] = browser.filter) - 1
  <2>2. pos \in Nat /\ pos < 6
    <3> DEFINE place == CHOOSE i \in DOMAIN FILTERS : FILTERS[i] = browser.filter
    <3>1. browser.filter \in FilterNames
      BY <1>1, ViewFields
    <3>2. place \in 1 .. 6
      BY <3>1, FilterAt
    <3> HIDE DEF place
    <3>3. place - 1 \in Nat /\ place - 1 < 6
      BY <3>2
    <3> QED
      BY <3>3 DEF place
  <2>3. browser' = [browser EXCEPT !.mode = "filters", !.pos = pos]
    BY <1>5 DEF OpensPicker, Browses
  <2> HIDE DEF pos
  <2>4. browser' \in Browsers
    BY <1>1, <2>2, <2>3, ViewFields DEF Browsers, Views
  <2> QED
    BY <2>1, <2>4, BrowsesInv
<1>6. CASE PopupMoves
  <2>1. Presses("popup") /\ UNCHANGED <<cache, edits, astray>> /\ browser.mode = "popup"
    BY <1>6 DEF PopupMoves, Browses, Presses
  <2>2. PICK pos \in Wrap(browser.pos, Len(Items)) : browser' = [browser EXCEPT !.pos = pos]
    BY <1>6 DEF PopupMoves, Browses
  <2>3. pos \in Nat
    BY <1>1, ViewFields, ItemsCount DEF Wrap
  <2>4. browser' \in Browsers
    BY <1>1, <2>1, <2>2, <2>3, ViewFields DEF Browsers, Views
  <2> QED
    BY <2>1, <2>4, BrowsesInv
<1>7. CASE PickerMoves
  <2>1. Presses("filters") /\ UNCHANGED <<cache, edits, astray>> /\ browser.mode = "filters"
    BY <1>7 DEF PickerMoves, Browses, Presses
  <2>2. PICK pos \in Wrap(browser.pos, 6) : browser' = [browser EXCEPT !.pos = pos]
    BY <1>7, ScreenSizes DEF PickerMoves, Browses
  <2>3. pos \in Nat /\ pos < 6
    BY <1>1, <2>1, ViewFields DEF Wrap
  <2>4. browser' \in Browsers
    BY <1>1, <2>2, <2>3, ViewFields DEF Browsers, Views
  <2> QED
    BY <2>1, <2>4, BrowsesInv
<1>8. CASE Picks
  <2>1. Presses("filters") /\ UNCHANGED <<cache, edits, astray>> /\ browser.mode = "filters"
    BY <1>8 DEF Picks, Browses, Presses
  <2>2. FILTERS[browser.pos + 1] \in FilterNames
    <3>1. browser.pos + 1 \in 1 .. 6
      BY <1>1, <2>1, ViewFields
    <3> QED
      BY <3>1, FilterAt
  <2> DEFINE name == FILTERS[browser.pos + 1]
  <2>3. browser' = [browser EXCEPT !.mode = "list", !.filter = name, !.cursor = 0, !.scroll = 0]
    BY <1>8 DEF Picks, Browses
  <2>4. name \in FilterNames
    BY <2>2
  <2> HIDE DEF name
  <2>5. browser' \in Browsers
    BY <1>1, <2>3, <2>4, ViewFields DEF Browsers, Views
  <2> QED
    BY <2>1, <2>5, BrowsesInv
<1>9. CASE Backs
  <2>1. PICK mode \in {"popup", "filters", "detail"} : Presses(mode)
    BY <1>9 DEF Backs
  <2>2. UNCHANGED <<cache, edits, astray>>
    BY <1>9 DEF Backs, Browses
  <2>3. browser' \in Browsers
    BY <1>1, <1>9, ViewFields DEF Backs, Browses, Browsers, Views
  <2> QED
    BY <2>1, <2>2, <2>3, BrowsesInv
<1>10. CASE ShowsDetail
  <2>1. Presses("popup") /\ UNCHANGED <<cache, edits, astray>>
    BY <1>10 DEF ShowsDetail, Browses
  <2>2. browser' \in Browsers
    BY <1>1, <1>10, ViewFields DEF ShowsDetail, Browses, Browsers, Views
  <2> QED
    BY <2>1, <2>2, BrowsesInv
<1>11. CASE LeavesPopup
  <2>1. Presses("popup") /\ UNCHANGED <<cache, edits, astray>>
    BY <1>11 DEF LeavesPopup, Browses
  <2>2. browser' \in Browsers
    BY <1>1, <1>11, ViewFields DEF LeavesPopup, Browses, Browsers, Views
  <2> QED
    BY <2>1, <2>2, BrowsesInv
<1>12. CASE DetailNext
  <2>1. Presses("detail") /\ UNCHANGED <<cache, edits, astray>> /\ browser.mode = "detail"
    BY <1>12 DEF DetailNext, Browses, Presses
  <2>2. browser' \in Browsers
    BY <1>1, <1>12, <2>1, ViewFields DEF DetailNext, Browses, Browsers, Views
  <2> QED
    BY <2>1, <2>2, BrowsesInv
<1>13. CASE DetailWrites
  <2>1. Presses("detail") /\ UNCHANGED <<cache, edits, astray>>
    BY <1>13 DEF DetailWrites, Browses
  <2>2. browser' \in Browsers
    BY <1>1, <1>13, ViewFields DEF DetailWrites, Browses, Browsers, Views
  <2> QED
    BY <2>1, <2>2, BrowsesInv
<1> QED
  BY <1>2, <1>3, <1>4, <1>5, <1>6, <1>7, <1>8, <1>9, <1>10, <1>11, <1>12, <1>13

(* What the popup edits is a row of the cache, unsaved exactly for "add".  *)
LEMMA EditedRow ==
  ASSUME ScreenTypes, browser.pos < Len(Items), Items[browser.pos + 1] \in EditKinds
  PROVE  \E j \in DOMAIN cache :
            /\ (CHOOSE r \in RowAt(browser.target) : TRUE) = cache[j]
            /\ cache[j].saved <=> Items[browser.pos + 1] # "add"
<1> DEFINE r == CHOOSE r \in RowAt(browser.target) : TRUE
           kind == Items[browser.pos + 1]
<1>1. browser.pos \in Nat /\ browser.target \in Nat /\ cache \in Seq(ContactRow)
  BY DEF ScreenTypes, Browsers, Views
<1>2. RowAt(browser.target) # {}
  <2> SUFFICES ASSUME RowAt(browser.target) = {} PROVE FALSE
    OBVIOUS
  <2>1. Items = << >>
    BY DEF Items
  <2> QED
    BY <1>1, <2>1
<1>3. PICK j \in DOMAIN cache : r = cache[j]
  BY <1>1, <1>2, ShownRow
<1>4. Items = PopupItems(r)
  BY <1>2 DEF Items
<1> HIDE DEF r
<1>5. r \in ContactRow /\ r.saved \in BOOLEAN
  <2>1. r \in ContactRow
    BY <1>1, <1>3
  <2> QED
    BY <2>1 DEF ContactRow
<1>6. CASE r.saved
  <2> DEFINE B == {"pm", "info", "save", "unsave", "forget", "cancel"}
  <2>1. Items \in Seq(B)
    BY <1>4, <1>5, <1>6, PopupOffers
  <2>2. kind \in B
    <3> HIDE DEF B
    <3>1. browser.pos + 1 \in 1 .. Len(Items)
      BY <1>1, <2>1
    <3> QED
      BY <2>1, <3>1, ElementOfSeq
  <2> QED
    BY <1>3, <1>6, <2>2 DEF r
<1>7. CASE ~r.saved
  <2> DEFINE A == {"add", "pm", "info", "cancel"}
  <2>1. Items \in Seq(A)
    BY <1>4, <1>5, <1>7, PopupOffers
  <2>2. kind \in A
    <3> HIDE DEF A
    <3>1. browser.pos + 1 \in 1 .. Len(Items)
      BY <1>1, <2>1
    <3> QED
      BY <2>1, <3>1, ElementOfSeq
  <2>3. kind = "add"
    BY <2>2 DEF EditKinds
  <2> QED
    BY <1>3, <1>7, <2>3 DEF r
<1> QED
  BY <1>6, <1>7

(* The rows of the edited key change, the others stay as they are.         *)
LEMMA RowsAfterEdit ==
  ASSUME NEW k \in ContactKeys, NEW kind \in EditKinds, cache \in Seq(ContactRow),
         NEW out, out = RowsAfter(k, kind)
  PROVE  /\ out \in Seq(ContactRow)
         /\ kind = "forget" =>
              /\ \A i \in DOMAIN out : \E j \in DOMAIN cache : out[i] = cache[j] /\ cache[j].key # k
              /\ \A j \in DOMAIN cache : cache[j].key # k => \E i \in DOMAIN out : out[i] = cache[j]
         /\ kind # "forget" =>
              /\ DOMAIN out = DOMAIN cache
              /\ \A i \in DOMAIN cache :
                    out[i] = IF cache[i].key = k THEN Edited(cache[i], kind) ELSE cache[i]
<1>1. CASE kind = "forget"
  <2> DEFINE places == {i \in DOMAIN cache : cache[i].key # k}
  <2>1. places \in SUBSET DOMAIN cache /\ out = RowsAt(cache, places)
    BY <1>1 DEF RowsAfter
  <2>2. \A i \in places : cache[i].key # k
    OBVIOUS
  <2>3. \A i \in DOMAIN cache : cache[i].key # k => i \in places
    OBVIOUS
  <2> HIDE DEF places
  <2>4. /\ out \in Seq(ContactRow)
        /\ \A n \in DOMAIN out : \E i \in places : out[n] = cache[i]
        /\ \A i \in places : \E n \in DOMAIN out : out[n] = cache[i]
    BY <2>1, RowsAtPlaces
  <2> QED
    BY <1>1, <2>1, <2>2, <2>3, <2>4
<1>2. CASE kind # "forget"
  <2>1. out = [i \in DOMAIN cache |-> IF cache[i].key = k THEN Edited(cache[i], kind) ELSE cache[i]]
    BY <1>2 DEF RowsAfter
  <2>2. DOMAIN cache = 1 .. Len(cache) /\ Len(cache) \in Nat
    BY LenProperties
  <2>3. ASSUME NEW i \in DOMAIN cache PROVE out[i] \in ContactRow
    <3>1. cache[i] \in ContactRow
      BY <2>2, ElementOfSeq
    <3>2. Edited(cache[i], kind) \in ContactRow
      BY <1>2, <3>1 DEF Edited, EditKinds, ContactRow
    <3> QED
      BY <2>1, <3>1, <3>2
  <2>4. out \in [1 .. Len(cache) -> ContactRow]
    BY <2>1, <2>2, <2>3
  <2>5. out \in Seq(ContactRow)
    BY <2>2, <2>4
  <2> QED
    BY <1>2, <2>1, <2>5
<1> QED
  BY <1>1, <1>2

LEMMA EditChosenInv ==
  ASSUME ScreenInv, NEW k \in ContactKeys, NEW kind \in EditKinds, NEW m \in DOMAIN cache,
         cache[m].key = k, cache[m].saved <=> kind # "add",
         Presses("popup"),
         cache' = RowsAfter(k, kind),
         browser' = AfterEdit(kind, Len(Filtered(cache', browser.filter))),
         IF Len(edits) < EditCap
         THEN edits' = Append(edits, [kind |-> kind, key |-> k]) /\ UNCHANGED astray
         ELSE astray' = astray \cup {k} /\ UNCHANGED edits
  PROVE  ScreenInv'
<1> DEFINE e == [kind |-> kind, key |-> k]
<1>1. ScreenTypes /\ RowsSound(cache)
  BY DEF ScreenInv
<1>2. /\ Presses("popup") /\ kind \in EditKinds
      /\ cache' = RowsAfter(k, kind)
      /\ browser' = AfterEdit(kind, Len(Filtered(cache', browser.filter)))
      /\ IF Len(edits) < EditCap
         THEN edits' = Append(edits, e) /\ UNCHANGED astray
         ELSE astray' = astray \cup {k} /\ UNCHANGED edits
  OBVIOUS
<1>3. m \in DOMAIN cache /\ cache[m].key = k /\ (cache[m].saved <=> kind # "add")
  OBVIOUS
<1>4. cache \in Seq(ContactRow) /\ edits \in Seq([kind : EditKinds, key : ContactKeys])
  BY <1>1 DEF ScreenTypes
<1>5. \A i \in DOMAIN cache : cache[i] \in ContactRow
  BY <1>4
<1>6. k \in ContactKeys /\ e \in [kind : EditKinds, key : ContactKeys]
      /\ e.kind = kind /\ e.key = k
  OBVIOUS
<1>7. /\ cache' \in Seq(ContactRow)
      /\ kind = "forget" =>
           /\ \A i \in DOMAIN cache' : \E j \in DOMAIN cache : cache'[i] = cache[j] /\ cache[j].key # k
           /\ \A j \in DOMAIN cache : cache[j].key # k => \E i \in DOMAIN cache' : cache'[i] = cache[j]
      /\ kind # "forget" =>
           /\ DOMAIN cache' = DOMAIN cache
           /\ \A i \in DOMAIN cache :
                 cache'[i] = IF cache[i].key = k THEN Edited(cache[i], kind) ELSE cache[i]
  BY <1>2, <1>4, <1>6, RowsAfterEdit
<1>8. UNCHANGED <<stored, marking, stale, nudged, refresh, heard, found, cut>>
      /\ tallies' \in Tallies
  BY <1>1, <1>2, CountedUp DEF Presses, storeSide, ScreenTypes
<1>9. browser' \in Browsers
  <2> DEFINE n == Len(Filtered(cache', browser.filter))
             cursor == IF kind # "forget" \/ browser.cursor < n THEN browser.cursor
                       ELSE IF n = 0 THEN 0 ELSE n - 1
             top == IF browser.scroll > cursor THEN cursor ELSE browser.scroll
  <2>1. n \in Nat
    BY <1>7, FilteredRows, LenProperties
  <2>2. browser' = [browser EXCEPT !.mode = "list", !.cursor = cursor, !.scroll = top]
    BY <1>2 DEF AfterEdit
  <2> HIDE DEF n
  <2>3. cursor \in Nat /\ top \in Nat
    BY <1>1, <2>1, ViewFields
  <2> HIDE DEF cursor, top
  <2> QED
    BY <1>1, <2>2, <2>3, ViewFields DEF Browsers, Views
<1> HIDE DEF e
<1>10. astray' \subseteq ContactKeys /\ astray \subseteq astray'
       /\ edits' \in Seq([kind : EditKinds, key : ContactKeys])
  <2> DEFINE S == [kind : EditKinds, key : ContactKeys]
  <2>1. astray \subseteq ContactKeys /\ edits \in Seq(S) /\ e \in S
    BY <1>1, <1>6 DEF ScreenTypes
  <2> HIDE DEF S
  <2>2. Append(edits, e) \in Seq(S)
    BY <2>1, AppendProperties
  <2>3. edits' \in Seq(S)
    BY <1>2, <2>1, <2>2
  <2>4. astray' \subseteq ContactKeys /\ astray \subseteq astray'
    BY <1>2, <1>6, <2>1
  <2> QED
    BY <2>3, <2>4 DEF S
<1>11. ScreenTypes'
  BY <1>1, <1>7, <1>8, <1>9, <1>10 DEF ScreenTypes
<1>12. ASSUME NEW r \in ContactRow, kind # "forget"
       PROVE  /\ Edited(r, kind).key = r.key
              /\ kind # "add" => Edited(r, kind).saved = r.saved
                                 /\ Edited(r, kind).fav = (kind = "save")
              /\ kind = "add" => Edited(r, kind).saved /\ Edited(r, kind).fav = r.fav
  BY <1>2, <1>12 DEF Edited, EditKinds, ContactRow
<1>13. \A i \in DOMAIN cache : cache[i].key = k => (cache[i].saved <=> kind # "add")
  BY <1>1, <1>3 DEF RowsSound
<1>14. RowsSound(cache')
  <2>1. CASE kind = "forget"
    <3>1. \A i \in DOMAIN cache' : \E j \in DOMAIN cache : cache'[i] = cache[j]
      BY <1>7, <2>1
    <3> QED
      BY <1>1, <3>1 DEF RowsSound
  <2>2. CASE kind # "forget"
    <3>1. ASSUME NEW i \in DOMAIN cache
          PROVE  /\ cache'[i].key = cache[i].key
                 /\ cache[i].key # k => cache'[i] = cache[i]
                 /\ cache[i].key = k => cache'[i].saved
      BY <1>5, <1>7, <1>12, <1>13, <2>2
    <3>2. DOMAIN cache' = DOMAIN cache
      BY <1>7, <2>2
    <3>3. ASSUME NEW i \in DOMAIN cache, ~cache'[i].saved PROVE ~cache'[i].fav
      <4>1. cache'[i] = cache[i]
        BY <3>1, <3>3
      <4> QED
        BY <1>1, <3>3, <4>1 DEF RowsSound
    <3>4. ASSUME NEW i \in DOMAIN cache, NEW j \in DOMAIN cache, cache'[i].key = cache'[j].key
          PROVE  cache'[i].saved = cache'[j].saved
      <4>1. CASE cache[i].key = k
        <5>1. cache'[i].saved /\ cache'[j].saved
          BY <3>1, <3>4, <4>1
        <5>2. cache'[i] \in ContactRow /\ cache'[j] \in ContactRow
          BY <1>7, <3>2
        <5> QED
          BY <5>1, <5>2 DEF ContactRow
      <4>2. CASE cache[i].key # k
        BY <1>1, <3>1, <3>4, <4>2 DEF RowsSound
      <4> QED
        BY <4>1, <4>2
    <3> QED
      BY <3>2, <3>3, <3>4 DEF RowsSound
  <2> QED
    BY <2>1, <2>2
<1>15. RowsSound(cache)' /\ AllSaved(refresh.rows)'
  BY <1>8, <1>14 DEF ScreenInv, RowsSound, AllSaved
<1>16. Contacts' = Contacts /\ FirstSlots(refresh.next)' = FirstSlots(refresh.next)
  BY <1>8 DEF Contacts, FirstSlots
<1>17. \A j : Owed(j) => Owed(j)'
  <2> SUFFICES ASSUME NEW j, Owed(j) PROVE Owed(j)'
    OBVIOUS
  <2>1. PICK n \in DOMAIN edits : edits[n].key = j /\ EditDue(edits[n])
    BY DEF Owed
  <2>2. n \in DOMAIN edits' /\ edits'[n] = edits[n]
    <3>1. CASE edits' = edits
      BY <3>1
    <3>2. CASE edits' = Append(edits, e)
      BY <1>4, <3>2
    <3> QED
      BY <1>2, <3>1, <3>2
  <2>3. EditDue(edits[n])' /\ edits'[n].key = j
    BY <1>8, <1>16, <2>1, <2>2 DEF EditDue, Holding
  <2> QED
    BY <2>2, <2>3 DEF Owed
<1>18. k \notin astray' /\ EditDue(e) => Owed(k)'
  <2> SUFFICES ASSUME k \notin astray', EditDue(e) PROVE Owed(k)'
    OBVIOUS
  <2>1. edits' = Append(edits, e)
    BY <1>2
  <2>2. PICK n \in DOMAIN edits' : edits'[n] = e
    <3>1. Len(edits) + 1 \in DOMAIN edits' /\ edits'[Len(edits) + 1] = e
      BY <1>4, <2>1
    <3> QED
      BY <3>1
  <2>3. EditDue(edits[n])' /\ edits'[n].key = k
    BY <1>6, <1>8, <1>16, <2>2 DEF EditDue, Holding
  <2> QED
    BY <2>2, <2>3 DEF Owed
<1>19. ASSUME NEW j \in ContactKeys \ astray', Tells(cache, Contacts, j)
       PROVE  Tells(cache', Contacts, j) \/ Owed(j)'
  <2>1. CASE j # k
    <3>1. \A i \in DOMAIN cache' : cache'[i].key = j => \E n \in DOMAIN cache : cache'[i] = cache[n]
      BY <1>5, <1>7, <1>12, <2>1
    <3>2. \A n \in DOMAIN cache : cache[n].key = j => \E i \in DOMAIN cache' : cache'[i] = cache[n]
      BY <1>7, <2>1
    <3> QED
      BY <1>19, <3>1, <3>2 DEF Tells, SavedKeys
  <2>2. CASE j = k /\ kind = "forget"
    <3>1. CASE Holding(k) = {}
      <4>1. \A c \in Contacts : c.key # k
        BY <3>1, HeldContacts
      <4>2. \A i \in DOMAIN cache' : cache'[i].key # k
        BY <1>7, <2>2
      <4> QED
        BY <2>2, <4>1, <4>2 DEF Tells
    <3>2. CASE Holding(k) # {}
      <4>1. EditDue(e)
        BY <1>6, <2>2, <3>2 DEF EditDue
      <4>2. Owed(k)'
        BY <1>18, <1>19, <2>2, <4>1
      <4> QED
        BY <2>2, <4>2 DEF Owed
    <3> QED
      BY <3>1, <3>2
  <2>3. CASE j = k /\ kind \in {"save", "unsave"}
    <3>1. /\ \A i \in DOMAIN cache : cache[i].key = k => /\ cache'[i].saved /\ cache'[i].key = k
                                                         /\ cache'[i].fav = (kind = "save")
          /\ \A i \in DOMAIN cache' : cache'[i].key = k => cache[i].key = k /\ i \in DOMAIN cache
      BY <1>5, <1>7, <1>12, <1>13, <2>3
    <3>2. \E c \in Contacts : c.key = k
      BY <1>3, <1>19, <2>3 DEF Tells
    <3>3. k \in SavedKeys(cache')
      BY <1>3, <1>7, <2>3, <3>1 DEF SavedKeys
    <3>4. CASE \E c \in Contacts : c.key = k /\ c.fav = (kind = "save")
      BY <2>3, <3>1, <3>3, <3>4 DEF Tells
    <3>5. CASE ~\E c \in Contacts : c.key = k /\ c.fav = (kind = "save")
      <4>1. EditDue(e)
        BY <1>6, <2>3, <3>2, <3>5, HeldContacts DEF EditDue
      <4>2. Owed(k)'
        BY <1>18, <1>19, <2>3, <4>1
      <4> QED
        BY <2>3, <4>2 DEF Owed
    <3> QED
      BY <3>4, <3>5
  <2>4. CASE j = k /\ kind = "add"
    <3>1. k \notin SavedKeys(cache)
      BY <1>13, <2>4 DEF SavedKeys
    <3>2. Holding(k) = {}
      BY <1>19, <2>4, <3>1, HeldContacts DEF Tells
    <3>3. EditDue(e)
      BY <1>6, <2>4, <3>2 DEF EditDue
    <3>4. Owed(k)'
      BY <1>18, <1>19, <2>4, <3>3
    <3> QED
      BY <2>4, <3>4 DEF Owed
  <2> QED
    BY <1>2, <2>1, <2>2, <2>3, <2>4 DEF EditKinds
<1>20. ASSUME Untouched', NEW j \in ContactKeys \ astray' PROVE KeyFollowed(j)'
  <2>1. KeyFollowed(j)
    BY <1>8, <1>10, <1>20 DEF ScreenInv, Untouched
  <2>2. CASE refresh.pc = "scan"
    <3>1. Tells(refresh.rows, FirstSlots(refresh.next), j)'
             = Tells(refresh.rows, FirstSlots(refresh.next), j)
      BY <1>8, <1>16 DEF Tells, SavedKeys
    <3> QED
      BY <1>8, <2>1, <2>2, <3>1 DEF KeyFollowed
  <2>3. CASE refresh.pc # "scan"
    <3>1. Tells(cache, Contacts, j) \/ Owed(j)
      BY <2>1, <2>3 DEF KeyFollowed
    <3>2. Tells(cache', Contacts, j) \/ Owed(j)'
      BY <1>17, <1>19, <1>20, <3>1
    <3>3. Tells(cache, Contacts, j)' = Tells(cache', Contacts, j)
      BY <1>16 DEF Tells, SavedKeys
    <3> QED
      BY <1>8, <2>3, <3>2, <3>3 DEF KeyFollowed
  <2> QED
    BY <2>2, <2>3
<1> QED
  BY <1>8, <1>11, <1>15, <1>20 DEF ScreenInv

LEMMA ChoosesEditInv ==
  ASSUME ScreenInv, ChoosesEdit
  PROVE  ScreenInv'
<1> DEFINE item == Items[browser.pos + 1]
           target == (CHOOSE r \in RowAt(browser.target) : TRUE).key
<1>1. ScreenTypes /\ cache \in Seq(ContactRow)
  BY DEF ScreenInv, ScreenTypes
<1>2. /\ Presses("popup") /\ browser.pos < Len(Items) /\ item \in EditKinds
      /\ cache' = RowsAfter(target, item)
      /\ browser' = AfterEdit(item, Len(Filtered(cache', browser.filter)))
      /\ IF Len(edits) < EditCap
         THEN edits' = Append(edits, [kind |-> item, key |-> target]) /\ UNCHANGED astray
         ELSE astray' = astray \cup {target} /\ UNCHANGED edits
  BY Zenon DEF ChoosesEdit, EditKinds
<1>3. PICK m \in DOMAIN cache : cache[m].key = target /\ (cache[m].saved <=> item # "add")
  BY <1>1, <1>2, EditedRow
<1> HIDE DEF target, item
<1>4. target \in ContactKeys
  <2>1. cache[m] \in ContactRow
    BY <1>1, <1>3
  <2> QED
    BY <1>3, <2>1 DEF ContactRow
<1>5. PICK k \in ContactKeys, kind \in EditKinds : k = target /\ kind = item
  BY <1>2, <1>4
<1>6. /\ cache[m].key = k /\ (cache[m].saved <=> kind # "add")
      /\ cache' = RowsAfter(k, kind)
      /\ browser' = AfterEdit(kind, Len(Filtered(cache', browser.filter)))
      /\ IF Len(edits) < EditCap
         THEN edits' = Append(edits, [kind |-> kind, key |-> k]) /\ UNCHANGED astray
         ELSE astray' = astray \cup {k} /\ UNCHANGED edits
  BY <1>2, <1>3, <1>5
<1> QED
  BY <1>2, <1>6, EditChosenInv

LEMMA ScreenInitInv == ScreenInit => ScreenInv
<1> SUFFICES ASSUME ScreenInit PROVE ScreenInv
  OBVIOUS
<1>1. ScreenTypes
  <2>1. stored \in [1 .. StoreSlots -> {NoContact} \cup Saved]
    BY ScreenSizes DEF ScreenInit
  <2>2. refresh \in [pc : {"wait", "quiet", "scan"}, next : Nat \ {0}, rows : Seq(ContactRow)]
    BY DEF ScreenInit
  <2>3. browser \in Browsers
    <3>1. "all" \in FilterNames
      BY FilterAt DEF FILTERS
    <3> QED
      BY <3>1 DEF ScreenInit, Browsers, Views
  <2>4. tallies \in Tallies
    BY DEF ScreenInit, Tallies
  <2>5. cache \in Seq(ContactRow) /\ edits \in Seq([kind : EditKinds, key : ContactKeys])
    BY DEF ScreenInit
  <2>6. heard \in [ContactKeys -> Nat] /\ found \in [ContactKeys -> Nat]
    BY DEF ScreenInit
  <2> QED
    BY <2>1, <2>2, <2>3, <2>4, <2>5, <2>6 DEF ScreenInit, ScreenTypes
<1>2. RowsSound(cache) /\ AllSaved(refresh.rows)
  BY DEF ScreenInit, RowsSound, AllSaved
<1>3. ASSUME NEW k PROVE KeyFollowed(k)
  <2>1. refresh.pc = "scan" /\ refresh.next = 1 /\ refresh.rows = << >>
    BY DEF ScreenInit
  <2>2. FirstSlots(refresh.next) = {}
    BY <2>1 DEF FirstSlots
  <2> QED
    BY <2>1, <2>2 DEF KeyFollowed, Tells
<1> QED
  BY <1>1, <1>2, <1>3 DEF ScreenInit, ScreenInv

LEMMA ScreenNextInv == ScreenInv /\ [ScreenNext]_screenVars => ScreenInv'
<1> SUFFICES ASSUME ScreenInv, [ScreenNext]_screenVars PROVE ScreenInv'
  OBVIOUS
<1>1. CASE UNCHANGED screenVars
  <2>1. UNCHANGED <<stored, marking, stale, nudged, refresh, cache, heard, found,
                    edits, browser, astray, cut, tallies>>
    BY <1>1 DEF screenVars
  <2>2. ScreenTypes'
    BY <2>1 DEF ScreenInv, ScreenTypes
  <2>3. RowsSound(cache)' /\ AllSaved(refresh.rows)'
    BY <2>1 DEF ScreenInv, RowsSound, AllSaved
  <2>4. Untouched' => \A k \in ContactKeys \ astray' : KeyFollowed(k)'
    BY <2>1, SameFollowed DEF ScreenInv, Untouched
  <2> QED
    BY <2>1, <2>2, <2>3, <2>4 DEF ScreenInv
<1>2. CASE ScreenNext
  <2>1. CASE \E k \in ContactKeys : Hears(k) \/ OtherTaskWrites(k)
    BY <2>1, HearsInv, OtherTaskWritesInv
  <2>2. CASE MarkDirty \/ MarkLost \/ Persists
    BY <2>2, MarkDirtyInv, MarkLostInv, PersistsInv
  <2>3. CASE Wakes \/ ScanStarts \/ FastRefresh \/ ScanSlot \/ ScanEnds
    BY <2>3, WakesInv, ScanStartsInv, FastRefreshInv, ScanSlotInv, ScanEndsInv
  <2>4. CASE Browsing
    BY <2>4, BrowsingInv, ChoosesEditInv DEF Browsing
  <2> QED
    BY <1>2, <2>1, <2>2, <2>3, <2>4 DEF ScreenNext
<1> QED
  BY <1>1, <1>2

LEMMA FollowsFromInv == ScreenInv => ScreenFollowsStore
<1> SUFFICES ASSUME ScreenInv, AllSaidAndDone
             PROVE  /\ {c.key : c \in Contacts} \subseteq SavedKeys(cache)
                    /\ \A d \in Drawn :
                          /\ d.mark # "+" => \E c \in Contacts : c.key = d.key /\ c.fav = (d.mark = "*")
                          /\ d.mark = "+" => Holding(d.key) = {}
  BY DEF ScreenFollowsStore
<1>1. ScreenTypes /\ RowsSound(cache)
  BY DEF ScreenInv
<1>2. cache \in Seq(ContactRow) /\ VisibleRows \in Nat /\ browser.scroll \in Nat
  BY <1>1, ViewFields DEF ScreenTypes
<1>3. ASSUME NEW k \in ContactKeys PROVE Tells(cache, Contacts, k)
  <2>1. refresh.pc = "wait" /\ ~nudged /\ marking = "none" /\ edits = << >> /\ astray = {} /\ ~cut
    BY DEF AllSaidAndDone
  <2>2. Untouched /\ KeyFollowed(k)
    BY <2>1 DEF ScreenInv, Untouched
  <2>3. ~Owed(k)
    BY <2>1 DEF Owed
  <2> QED
    BY <2>1, <2>2, <2>3 DEF KeyFollowed
<1>4. ASSUME NEW c \in Contacts PROVE c.key \in SavedKeys(cache)
  <2>1. c \in Saved
    BY <1>1 DEF Contacts, ScreenTypes
  <2>2. c.key \in ContactKeys
    BY <2>1 DEF Saved
  <2> QED
    BY <1>3, <2>2 DEF Tells
<1>5. ASSUME NEW r \in Window PROVE \E i \in DOMAIN cache : r = cache[i]
  <2>1. /\ Listed \in Seq(ContactRow)
        /\ \A n \in DOMAIN Listed : \E j \in DOMAIN cache : Listed[n] = cache[j]
    BY <1>2, FilteredRows DEF Listed
  <2>2. \E n \in 1 .. Len(Listed) : r = Listed[n]
    BY <1>2, <2>1 DEF Window
  <2> QED
    BY <2>1, <2>2
<1>6. ASSUME NEW d \in Drawn
      PROVE  /\ d.mark # "+" => \E c \in Contacts : c.key = d.key /\ c.fav = (d.mark = "*")
             /\ d.mark = "+" => Holding(d.key) = {}
  <2>1. PICK r \in Window : d = [key |-> r.key, mark |-> Mark(r)]
    BY DEF Drawn
  <2>2. PICK i \in DOMAIN cache : r = cache[i]
    BY <1>5
  <2>3. r \in ContactRow /\ r.key \in ContactKeys /\ r.fav \in BOOLEAN
    <3>1. r \in ContactRow
      BY <1>2, <2>2
    <3> QED
      BY <3>1 DEF ContactRow
  <2>4. d.key = r.key /\ d.mark = IF r.fav THEN "*" ELSE IF r.saved THEN " " ELSE "+"
    BY <2>1 DEF Mark
  <2>5. Tells(cache, Contacts, r.key)
    BY <1>3, <2>3
  <2>6. ASSUME d.mark # "+" PROVE \E c \in Contacts : c.key = d.key /\ c.fav = (d.mark = "*")
    <3>1. r.saved
      BY <1>1, <2>2, <2>4, <2>6 DEF RowsSound
    <3>2. PICK c \in Contacts : c.key = r.key /\ c.fav = r.fav
      BY <2>2, <2>5, <3>1 DEF Tells
    <3>3. r.fav = (d.mark = "*")
      BY <2>3, <2>4
    <3> QED
      BY <2>4, <3>2, <3>3
  <2>7. ASSUME d.mark = "+" PROVE Holding(d.key) = {}
    <3>1. ~r.saved
      BY <2>4, <2>7
    <3>2. r.key \notin SavedKeys(cache)
      BY <1>1, <2>2, <3>1 DEF RowsSound, SavedKeys
    <3>3. ~\E c \in Contacts : c.key = r.key
      BY <1>4, <3>2
    <3> QED
      BY <2>4, <3>3, HeldContacts
  <2> QED
    BY <2>6, <2>7
<1> QED
  BY <1>4, <1>6

(* Once nothing is under way and nothing was lost, the Contacts screen     *)
(* tells what the store holds (ScreenFollowsStore), for any store, queue,  *)
(* cache and number of keys, whatever the radio, the phone and the popup   *)
(* do while the scan reads slot after slot.                                *)
THEOREM ScreenTellsTheStore == ScreenSpec => []ScreenFollowsStore
<1>1. ScreenInit => ScreenInv
  BY ScreenInitInv
<1>2. ScreenInv /\ [ScreenNext]_screenVars => ScreenInv'
  BY ScreenNextInv
<1>3. ScreenInv => ScreenFollowsStore
  BY FollowsFromInv
<1> QED
  BY <1>1, <1>2, <1>3, PTL DEF ScreenSpec

(***************************************************************************)
(* The calendar.                                                           *)
(***************************************************************************)

(* The list's scroll is a number of rows: the buttons and the drawing keep *)
(* it so.                                                                  *)
CalTypes == DOMAIN view = DOMAIN Passive /\ view.list \in Nat

LEMMA EventsAreListed ==
  ASSUME NEW days
  PROVE  \E n \in Nat : EventsOn(days) = [i \in 1 .. n |-> EventsOn(days)[i]]
<1> DEFINE events == {s \in EventSlots : agenda[s].on /\ agenda[s].day \in days}
           n == Cardinality(events)
<1>1. n \in Nat
  <2>1. IsFiniteSet(events)
    BY CalendarConstants, FS_Subset
  <2> QED
    BY <2>1, FS_CardinalityType
<1>2. EventsOn(days) = [i \in 1 .. n |-> EventsOn(days)[i]]
  <2> DEFINE evs == EventsOn(days)
             nth(i) == CHOOSE s \in events : Cardinality({t \in events : Earlier(t, s)}) = i - 1
  <2>1. evs = [i \in 1 .. n |-> nth(i)]
    BY DEF EventsOn
  <2> HIDE DEF evs, nth, n
  <2>2. evs = [i \in 1 .. n |-> evs[i]]
    BY <2>1
  <2> QED
    BY <2>2 DEF evs
<1> QED
  BY <1>1, <1>2

LEMMA ListTopInRange ==
  ASSUME CalTypes, NEW n \in Nat, Len(EventsOn({Cursor})) = n
  PROVE  /\ ListTop \in Nat
         /\ n > 0 => ListTop + 1 <= Clamped(ListTop + RowsVisible, 0, n)
<1>1. RowsVisible \in Nat \ {0} /\ view.list \in Nat
  BY CalendarConstants DEF CalTypes
<1>2. ListTop = Clamped(view.list, 0, IF n > RowsVisible THEN n - RowsVisible ELSE 0)
  BY DEF ListTop
<1> QED
  BY <1>1, <1>2 DEF Clamped

LEMMA ListTopCounts ==
  ASSUME CalTypes
  PROVE  ListTop \in Nat
<1>1. PICK n \in Nat : EventsOn({Cursor}) = [i \in 1 .. n |-> EventsOn({Cursor})[i]]
  BY EventsAreListed
<1>2. Len(EventsOn({Cursor})) = n
  BY <1>1
<1> QED
  BY <1>2, ListTopInRange

LEMMA CalNextTypes == CalTypes /\ [CalNext]_calVars => CalTypes'
<1> SUFFICES ASSUME CalTypes, [CalNext]_calVars PROVE CalTypes'
  OBVIOUS
<1>1. CASE UNCHANGED view
  BY <1>1 DEF CalTypes
<1>2. CASE DrawCalendar
  <2>1. ListTop \in Nat
    BY ListTopCounts
  <2>2. \/ view' = [view EXCEPT !.cursor = Cursor, !.top = TopHour]
        \/ view' = [view EXCEPT !.cursor = Cursor, !.list = ListTop]
        \/ view' = [view EXCEPT !.cursor = Cursor]
    BY <1>2 DEF DrawCalendar
  <2> QED
    BY <2>1, <2>2 DEF CalTypes, Passive
<1>3. ASSUME NEW btn \in {"Up", "Down", "Left", "Right", "Fire", "Cancel"}, CalendarPress(btn)
      PROVE  CalTypes'
  <2>1. view.list \in Nat /\ DOMAIN view = DOMAIN Passive /\ Cardinality(EventSlots) \in Nat
    BY CalendarConstants, FS_CardinalityType DEF CalTypes
  <2>2. CASE view.mode = "List"
    <3> DEFINE up == Clamped(view.list - 1, 0, Cardinality(EventSlots))
               down == Clamped(view.list + 1, 0, Cardinality(EventSlots))
    <3>1. up \in Nat /\ down \in Nat
      BY <2>1 DEF Clamped
    <3>2. \/ view' = [view EXCEPT !.list = up] \/ view' = [view EXCEPT !.list = down]
          \/ view' = [view EXCEPT !.mode = "Day"] \/ view' = view
      BY <1>3, <2>2 DEF CalendarPress, ListPress
    <3> HIDE DEF up, down
    <3> QED
      BY <2>1, <3>1, <3>2 DEF CalTypes, Passive
  <2>3. CASE view.mode = "Day"
    <3>1. \E x, y : \/ view' = [view EXCEPT !.top = x] \/ view' = [view EXCEPT !.title = x]
                    \/ view' = [view EXCEPT !.list = 0, !.mode = y]
                    \/ view' = [view EXCEPT !.title = x, !.mode = y]
      BY <1>3, <2>3 DEF CalendarPress, DayPress
    <3>2. PICK x, y : \/ view' = [view EXCEPT !.top = x] \/ view' = [view EXCEPT !.title = x]
                      \/ view' = [view EXCEPT !.list = 0, !.mode = y]
                      \/ view' = [view EXCEPT !.title = x, !.mode = y]
      BY <3>1
    <3>3. DOMAIN view' = DOMAIN view
      BY <3>2
    <3>4. view'.list = view.list \/ view'.list = 0
      BY <2>1, <3>2 DEF Passive
    <3> QED
      BY <2>1, <3>3, <3>4 DEF CalTypes
  <2>4. CASE view.mode = "Active"
    <3>1. \E x, y : \/ view' = [view EXCEPT !.cursor = x] \/ view' = view
                    \/ view' = [view EXCEPT !.top = x, !.mode = y]
                    \/ view' = [view EXCEPT !.mode = y]
      BY <1>3, <2>4 DEF CalendarPress, ActivePress, CursorMoved
    <3> QED
      BY <2>1, <3>1 DEF CalTypes, Passive
  <2>5. CASE view.mode \notin {"List", "Day", "Active"}
    <3>1. view' = [view EXCEPT !.mode = "Active"] \/ view' = view
      BY <1>3, <2>5 DEF CalendarPress
    <3> QED
      BY <2>1, <3>1 DEF CalTypes, Passive
  <2> QED
    BY <2>2, <2>3, <2>4, <2>5
<1>4. CASE QuickEvent \/ ClearImported \/ HourPasses \/ ClockComes
  BY <1>1, <1>4 DEF QuickEvent, ClearImported, HourPasses, ClockComes
<1> QED
  BY <1>1, <1>2, <1>3, <1>4 DEF CalNext, calVars

(* A drawing of the month or the list shows an event of a day that has one. *)
LEMMA DrawingShows ==
  ASSUME CalTypes, DrawCalendar, view.mode # "Day", EventsOn({Cursor}) # << >>
  PROVE  shown' # {}
<1> DEFINE evs == EventsOn({Cursor})
<1>1. PICK n \in Nat : evs = [i \in 1 .. n |-> evs[i]]
  BY EventsAreListed
<1>2. evs \in Seq({evs[i] : i \in 1 .. n}) /\ Len(evs) = n
  <2> DEFINE S == {evs[i] : i \in 1 .. n}
  <2> HIDE DEF evs
  <2>1. evs \in [1 .. n -> S]
    BY <1>1
  <2> QED
    BY <1>1, <2>1
<1>3. n > 0
  <2> HIDE DEF evs
  <2>1. evs # << >>
    BY DEF evs
  <2> QED
    BY <1>2, <2>1
<1>4. CASE view.mode = "List"
  <2> DEFINE last == Clamped(ListTop + RowsVisible, 0, n)
  <2>1. ListTop \in Nat /\ ListTop + 1 <= last
    BY <1>2, <1>3, ListTopInRange
  <2>2. last \in 0 .. n
    BY <1>1, <2>1, CalendarConstants DEF Clamped
  <2>3. Rows = SubSeq(evs, ListTop + 1, last)
    BY <1>2 DEF Rows
  <2>4. shown' = ToSet(Rows)
    BY <1>4 DEF DrawCalendar
  <2> HIDE DEF evs, last
  <2>5. 1 \in DOMAIN Rows
    BY <1>2, <2>1, <2>2, <2>3
  <2> QED
    BY <2>4, <2>5 DEF ToSet
<1>5. CASE view.mode # "List"
  <2>1. shown' = Footer
    BY <1>5 DEF DrawCalendar
  <2> QED
    BY <2>1 DEF Footer
<1> QED
  BY <1>4, <1>5

(* A day with events never looks empty under the month or in its list,     *)
(* however far the buttons scrolled and whatever rang, was added or        *)
(* cleared meanwhile (DaysAreShown), for any number of slots and rows.     *)
THEOREM DaysNeverLookEmpty == CalSpec => DaysAreShown
<1>1. CalInit => CalTypes
  BY DEF CalInit, CalTypes, Passive
<1>2. CalTypes /\ [CalNext]_calVars
        => [ (DrawCalendar /\ view.mode # "Day" /\ EventsOn({Cursor}) # << >>)
                 => shown' # {} ]_calVars
  BY DrawingShows
<1> QED
  BY <1>1, <1>2, CalNextTypes, PTL DEF CalSpec, DaysAreShown

(***************************************************************************)
(* The bootloader's download (Dfu).  While the host did not start over, it *)
(* and the badge are in step: the pages below the one the badge writes     *)
(* next hold the image's blocks, and the end is only seen by a badge that  *)
(* has them all (DfuInv).                                                  *)
(***************************************************************************)

(* Where host and badge are in a download the host did not start over: the *)
(* pages before the one the badge writes next hold the image's blocks, and *)
(* the two agree on the block, or the host has not heard of the last one   *)
(* yet.                                                                    *)
InPlace(n) == \A i \in 1 .. n : slot[i] = Block(i)
InStep ==
    /\ InPlace(dfu.at - 1) /\ dfu.at - 1 <= ImageLen
    /\ \/ /\ turn = "send" /\ dfu.at = next
          /\ dfu.state \in {"Idle", "DnloadIdle", "Error"}
       \/ /\ turn = "repeat" /\ dfu.at = next
          /\ dfu.state \in {"Idle", "Error"}
       \/ /\ turn \in {"repeat", "ask"} /\ dfu.at = next
          /\ dfu.state = "DnloadSync" /\ dfu.buf = Block(next) /\ next <= ImageLen
       \/ /\ turn \in {"repeat", "ask"} /\ dfu.at = next
          /\ dfu.state \in {"ManifestSync", "ManifestWaitReset"} /\ next = ImageLen + 1
       \/ /\ turn = "ask" /\ dfu.at = next + 1 /\ dfu.state \in {"Idle", "DnloadIdle"}

(* The end of the download is only seen once the image is whole.           *)
HandlerOK == /\ DOMAIN dfu = {"state", "buf", "at", "reset"}
             /\ dfu.at \in Nat \ {0} /\ dfu.reset \in BOOLEAN
Complete == dfu.at = ImageLen + 1
DfuInv ==
    /\ slot = [i \in Pages |-> slot[i]]
    /\ HandlerOK
    /\ copyIdle \in 0 .. CopyIdleTicks
    /\ next \in Nat \ {0} /\ done \in BOOLEAN /\ flashed \in BOOLEAN
    /\ (running = "dfu" /\ ~over) => InStep
    /\ (running = "dfu" /\ ~over /\ (done \/ dfu.reset)) => Complete
    /\ flashed => InPlace(ImageLen) /\ running # "halt"

LEMMA DfuSizes ==
    /\ SlotPages \in Nat \ {0} /\ ImageLen \in Nat \ {0} /\ ImageLen < SlotPages
    /\ CopyIdleTicks \in Nat \ {0}
  BY DfuAssumption

LEMMA NewHandler ==
    /\ DOMAIN HandlerNew = {"state", "buf", "at", "reset"}
    /\ HandlerNew.at = 1 /\ HandlerNew.reset = FALSE /\ HandlerNew.state = "Idle"
  BY DEF HandlerNew

LEMMA DfuInitInv == DfuInit => DfuInv
<1> SUFFICES ASSUME DfuInit PROVE DfuInv
  OBVIOUS
<1>1. slot = [i \in Pages |-> slot[i]]
  BY DEF DfuInit
<1>2. InPlace(0)
  BY DEF InPlace
<1>3. dfu.at = 1 /\ dfu.at - 1 = 0 /\ HandlerOK
  BY DEF DfuInit, HandlerOK, HandlerNew
<1>4. InPlace(dfu.at - 1)
  BY <1>2, <1>3
<1>5. InStep
  BY <1>3, <1>4, NewHandler, DfuSizes DEF DfuInit, InStep
<1>6. copyIdle \in 0 .. CopyIdleTicks /\ next \in Nat \ {0}
  BY DfuSizes DEF DfuInit
<1>7. done = FALSE /\ flashed = FALSE /\ running = "nothing"
  BY DEF DfuInit
<1> QED
  BY <1>1, <1>3, <1>5, <1>6, <1>7 DEF DfuInv

LEMMA PowerUpInv == ASSUME DfuInv, PowerUp PROVE DfuInv'
<1>1. /\ dfu' = HandlerNew /\ done' = FALSE /\ next' = 1 /\ turn' = "send" /\ over' = FALSE
      /\ UNCHANGED <<slot, flashed>>
      /\ running' = "halt" => ~AppIsValid /\ ~AppIsEmpty
  BY DEF PowerUp
<1>2. InPlace(0)'
  BY DEF InPlace
<1>3. InStep' /\ ~dfu'.reset /\ HandlerOK'
  <2>1. dfu'.at = 1 /\ dfu'.at - 1 = 0 /\ ~dfu'.reset /\ dfu'.state = "Idle" /\ HandlerOK'
    BY <1>1 DEF HandlerOK, HandlerNew
  <2>2. InPlace(dfu.at - 1)'
    BY <1>2, <2>1
  <2> QED
    BY <1>1, <2>1, <2>2, DfuSizes DEF InStep
<1>4. flashed => running' # "halt"
  <2> SUFFICES ASSUME flashed PROVE AppIsValid
    BY <1>1
  <2>1. slot[1] = Block(1)
    BY DfuSizes DEF DfuInv, InPlace
  <2> QED
    BY <2>1 DEF AppIsValid, Blank, Junk, Block
<1>5. next' \in Nat \ {0} /\ slot' = [i \in Pages |-> slot'[i]] /\ (flashed' => InPlace(ImageLen)')
  BY <1>1 DEF DfuInv, InPlace
<1>6. /\ done' \in BOOLEAN /\ flashed' \in BOOLEAN /\ done' = FALSE
  BY <1>1 DEF DfuInv
<1>8. copyIdle' \in 0 .. CopyIdleTicks
  BY DfuSizes DEF PowerUp
<1>7. flashed' => running' # "halt"
  BY <1>1, <1>4
<1> QED
  BY <1>1, <1>3, <1>5, <1>6, <1>7, <1>8 DEF DfuInv

LEMMA PowerLossInv == ASSUME DfuInv, PowerLoss PROVE DfuInv'
<1>1. /\ running' = "nothing" /\ UNCHANGED <<dfu, copyIdle, done, next, turn, over>>
      /\ flashed' = (flashed /\ slot' = slot)
      /\ slot' = [i \in Pages |-> slot'[i]]
  BY DEF PowerLoss, DfuInv, host
<1> QED
  BY <1>1 DEF DfuInv, InPlace, HandlerOK

(* A request but the answer that writes a block.                           *)
LEMMA RequestInv ==
  ASSUME DfuInv, Request, Download \/ Finish \/ ClearStatus \/ Abort \/ StartOver
  PROVE  DfuInv'
<1>1. /\ running = "dfu" /\ UNCHANGED <<running, copyIdle, done, slot, flashed>>
      /\ HandlerOK
  BY DEF Request, Download, Finish, ClearStatus, Abort, StartOver, DfuInv
<1>2. /\ HandlerOK'
      /\ next' \in Nat \ {0} /\ dfu'.at = dfu.at /\ dfu'.reset = dfu.reset
  <2>1. /\ DOMAIN dfu' = DOMAIN dfu /\ dfu'.at = dfu.at /\ dfu'.reset = dfu.reset
    <3>1. CASE Download
      BY <1>1, <3>1 DEF Download, Reject, HandlerOK
    <3>2. CASE Finish
      BY <1>1, <3>2 DEF Finish, Reject, HandlerOK
    <3>3. CASE ClearStatus \/ Abort \/ StartOver
      BY <1>1, <3>3 DEF ClearStatus, Abort, StartOver, HandlerOK
    <3> QED
      BY <3>1, <3>2, <3>3
  <2>2. next' \in {1, next}
    BY DEF Download, Finish, ClearStatus, Abort, StartOver, host
  <2> QED
    BY <1>1, <2>1, <2>2 DEF HandlerOK, DfuInv
<1>3. ~over' => ~over /\ next' = next
  BY DEF Download, Finish, ClearStatus, Abort, StartOver, host
<1>4. ASSUME ~over' PROVE InStep'
  <2>1. InStep /\ next \in Nat \ {0} /\ dfu.at \in Nat \ {0} /\ ImageLen \in Nat
    BY <1>1, <1>3, <1>4, DfuSizes DEF DfuInv, HandlerOK
  <2>2. InPlace(dfu.at - 1)' /\ dfu'.at - 1 <= ImageLen
    BY <1>1, <1>2, <2>1 DEF InStep, InPlace
  <2>3. CASE Download
    BY <1>1, <1>2, <1>3, <1>4, <2>1, <2>2, <2>3 DEF InStep, Download, Reject, Block, HandlerOK
  <2>4. CASE Finish
    BY <1>1, <1>2, <1>3, <1>4, <2>1, <2>2, <2>4 DEF InStep, Finish, Reject, HandlerOK
  <2>5. CASE ClearStatus \/ Abort
    BY <1>1, <1>2, <1>3, <1>4, <2>1, <2>2, <2>5 DEF InStep, ClearStatus, Abort, host, HandlerOK
  <2>6. ~StartOver
    BY <1>4 DEF StartOver
  <2> QED
    BY <2>3, <2>4, <2>5, <2>6
<1>5. (~over' /\ (done' \/ dfu'.reset)) => Complete'
  BY <1>1, <1>2, <1>3 DEF DfuInv, Complete
<1>6. flashed' => InPlace(ImageLen)' /\ running' # "halt"
  BY <1>1 DEF DfuInv, InPlace
<1> QED
  BY <1>1, <1>2, <1>4, <1>5, <1>6 DEF DfuInv

LEMMA GetStatusInv == ASSUME DfuInv, GetStatus PROVE DfuInv'
<1>1. /\ running = "dfu" /\ UNCHANGED <<running, copyIdle, done, over>> /\ turn # "repeat"
      /\ HandlerOK
      /\ next \in Nat \ {0} /\ slot = [i \in Pages |-> slot[i]]
  BY DEF GetStatus, Request, DfuInv
<1>2. PICK knows \in BOOLEAN :
          LET isIn == turn = "ask" /\ knows /\ dfu'.state = "DnloadIdle" IN
          /\ next' = IF isIn THEN next + 1 ELSE next
          /\ turn' = IF isIn THEN "send" ELSE turn
  BY DEF GetStatus
<1>3. ImageLen \in Nat /\ dfu.at \in Nat \ {0} /\ next' \in Nat \ {0}
  BY <1>1, <1>2, DfuSizes DEF HandlerOK
<1>4. CASE dfu.state = "DnloadSync" /\ ProgramBlock
  <2>1. /\ slot' = [slot EXCEPT ![dfu.at] = dfu.buf] /\ flashed' = FALSE
        /\ dfu' = [dfu EXCEPT !.at = @ + 1, !.state = "DnloadIdle"]
    BY <1>4 DEF ProgramBlock
  <2>2. /\ HandlerOK'
        /\ dfu'.at = dfu.at + 1 /\ dfu'.state = "DnloadIdle" /\ dfu'.reset = dfu.reset
        /\ slot' = [i \in Pages |-> slot'[i]]
    BY <1>1, <2>1 DEF HandlerOK
  <2>3. ASSUME ~over PROVE InStep' /\ ~done' /\ ~dfu'.reset
    <3>1. /\ InStep /\ turn = "ask" /\ dfu.at = next /\ dfu.buf = Block(next) /\ next <= ImageLen
      BY <1>1, <1>4, <2>3, DfuSizes DEF DfuInv, InStep
    <3>2. ~done /\ ~dfu.reset
      BY <1>1, <1>3, <2>3, <3>1 DEF DfuInv, Complete
    <3>3. InPlace(dfu.at - 1)
      BY <3>1 DEF InStep
    <3>4. dfu.at \in Pages /\ dfu'.at - 1 = dfu.at
      BY <1>3, <2>2, <3>1, DfuSizes DEF Pages
    <3>5. ASSUME NEW i \in 1 .. dfu.at PROVE slot'[i] = Block(i)
      <4>1. CASE i = dfu.at
        BY <1>1, <2>1, <3>1, <3>4, <4>1
      <4>2. CASE i # dfu.at
        <5>1. i \in 1 .. (dfu.at - 1) /\ i \in Pages
          BY <1>3, <3>4, <4>2, DfuSizes DEF Pages
        <5> QED
          BY <1>1, <2>1, <3>3, <4>2, <5>1 DEF InPlace
      <4> QED
        BY <4>1, <4>2
    <3>6. InPlace(dfu.at - 1)' /\ dfu'.at - 1 <= ImageLen
      BY <3>1, <3>4, <3>5 DEF InPlace
    <3>7. dfu'.at = next + 1
      BY <2>2, <3>1
    <3> QED
      BY <1>1, <1>2, <1>3, <2>2, <3>1, <3>2, <3>6, <3>7 DEF InStep
  <2> QED
    BY <1>1, <1>3, <2>1, <2>2, <2>3 DEF DfuInv
<1>5. CASE dfu.state = "ManifestSync" /\ dfu' = [dfu EXCEPT !.state = "ManifestWaitReset", !.reset = TRUE]
           /\ UNCHANGED <<slot, flashed>>
  <2>1. /\ HandlerOK'
        /\ dfu'.at = dfu.at /\ dfu'.state = "ManifestWaitReset" /\ UNCHANGED <<next, turn>>
    BY <1>1, <1>2, <1>5 DEF HandlerOK
  <2>2. ASSUME ~over PROVE InStep' /\ Complete'
    <3>1. InStep /\ dfu.at = next /\ next = ImageLen + 1 /\ turn = "ask"
      BY <1>1, <1>3, <1>5, <2>2 DEF DfuInv, InStep
    <3> QED
      BY <1>5, <2>1, <3>1 DEF InStep, InPlace, Complete
  <2> QED
    BY <1>1, <1>3, <1>5, <2>1, <2>2 DEF DfuInv, InPlace
<1>6. CASE dfu.state \notin {"DnloadSync", "ManifestSync"} /\ UNCHANGED <<slot, dfu, flashed>>
  <2>1. ASSUME ~over PROVE InStep'
    <3>1. InStep
      BY <1>1, <2>1 DEF DfuInv
    <3> QED
      BY <1>1, <1>2, <1>3, <1>6, <3>1 DEF InStep, InPlace
  <2>2. ~over /\ (done \/ dfu.reset) => Complete'
    BY <1>1, <1>6 DEF DfuInv, Complete
  <2> QED
    BY <1>1, <1>3, <1>6, <2>1, <2>2 DEF DfuInv, InPlace, HandlerOK
<1> QED
  BY <1>4, <1>5, <1>6 DEF GetStatus

LEMMA MonitorInv == ASSUME DfuInv, Monitor PROVE DfuInv'
<1>1. /\ running = "dfu" /\ UNCHANGED <<slot, running, dfu, next, turn, over>>
      /\ done' = (done \/ dfu.reset \/ dfu.state \in {"ManifestSync", "ManifestWaitReset"})
      /\ flashed' = (flashed \/ (led' = "green" /\ ~over))
  BY DEF Monitor, host
<1>6. copyIdle' \in 0 .. CopyIdleTicks
  <2>1. copyIdle \in 0 .. CopyIdleTicks
    BY DEF DfuInv
  <2>2. copyIdle' \in {0, copyIdle} \/ (copyIdle < CopyIdleTicks /\ copyIdle' = copyIdle + 1)
    <3>1. CASE copied
      BY <3>1 DEF Monitor
    <3>2. CASE ~copied
      BY <3>2 DEF Monitor
    <3> QED
      BY <3>1, <3>2
  <2> QED
    BY <2>1, <2>2, DfuSizes
<1>2. led' = "green" => done'
  <2>1. CASE dfu.state = "Error"
    BY <2>1 DEF Monitor
  <2>2. CASE dfu.state \in {"DnloadSync", "DnloadIdle"}
    BY <2>2 DEF Monitor
  <2>3. CASE dfu.state \notin {"Error", "DnloadSync", "DnloadIdle"} /\ copyIdle' < CopyIdleTicks
    BY <2>3 DEF Monitor
  <2>4. CASE dfu.state \notin {"Error", "DnloadSync", "DnloadIdle"} /\ ~(copyIdle' < CopyIdleTicks)
    <3>1. copyIdle' = CopyIdleTicks
      BY <1>6, <2>4, DfuSizes
    <3> QED
      BY <2>4, <3>1 DEF Monitor
  <2> QED
    BY <2>1, <2>2, <2>3, <2>4
<1>3. ~over => InStep
  BY <1>1 DEF DfuInv
<1>4. ASSUME ~over, done' PROVE Complete /\ InPlace(ImageLen)
  <2>1. Complete
    BY <1>1, <1>3, <1>4 DEF DfuInv, InStep, Complete
  <2> QED
    BY <1>3, <1>4, <2>1, DfuSizes DEF InStep, Complete
<1>5. flashed' => InPlace(ImageLen)' /\ running' # "halt"
  BY <1>1, <1>2, <1>4 DEF DfuInv, InPlace
<1>7. InStep => InStep'
  BY <1>1 DEF InStep, InPlace
<1>8. flashed' => InPlace(ImageLen)' /\ running' # "halt"
  BY <1>5
<1>9. (~over' /\ (done' \/ dfu'.reset)) => Complete'
  BY <1>1, <1>4 DEF Complete
<1>10. HandlerOK' /\ slot' = [i \in Pages |-> slot'[i]] /\ next' \in Nat \ {0}
       /\ done' \in BOOLEAN /\ flashed' \in BOOLEAN
  BY <1>1 DEF DfuInv, HandlerOK
<1> QED
  BY <1>1, <1>3, <1>6, <1>7, <1>8, <1>9, <1>10 DEF DfuInv

LEMMA DfuStep == DfuInv /\ [DfuNext]_dfuVars => DfuInv'
<1> SUFFICES ASSUME DfuInv, [DfuNext]_dfuVars PROVE DfuInv'
  OBVIOUS
<1>1. CASE UNCHANGED dfuVars
  BY <1>1 DEF dfuVars, DfuInv, InStep, InPlace, Complete, HandlerOK
<1>2. CASE Download \/ Finish \/ ClearStatus \/ Abort \/ StartOver
  BY <1>2, RequestInv DEF Download, Finish, ClearStatus, Abort, StartOver
<1>3. CASE CopyBlock
  <2>1. UNCHANGED <<slot, running, dfu, copyIdle, done, next, turn, over, flashed>>
    BY <1>3 DEF CopyBlock, host
  <2> QED
    BY <2>1 DEF DfuInv, InStep, InPlace, Complete, HandlerOK
<1> QED
  BY <1>1, <1>2, <1>3, PowerUpInv, PowerLossInv, GetStatusInv, MonitorInv DEF DfuNext

LEMMA DfuInvHolds == DfuInv => GreenMeansFlashed
  BY DEF DfuInv, GreenMeansFlashed, InPlace

(* Whatever requests of the host were lost, repeated or out of turn, and   *)
(* whenever the power went, a green LED after a download the host did not  *)
(* start over means a whole image, and the next start finds one to run     *)
(* (bootloader/src/dfu.rs:341-342).                                        *)
THEOREM GreenIsFlashed == DfuSpec => []GreenMeansFlashed
  BY DfuInitInv, DfuStep, DfuInvHolds, PTL DEF DfuSpec

(***************************************************************************)
(* The drive on the external flash (UsbDrive).                             *)
(***************************************************************************)

(* What the chip is still to do for the write or the format under way, and *)
(* what it makes of the blocks at risk: a block that was not spoilt before *)
(* is to hold what is meant.                                               *)
Contents == [DriveBlocks -> SUBSET Bits]
Sound(b) == b \notin hurt => chip[b] = meant[b]

NothingLeft == todo = << >> /\ atRisk = {}
SectorLeft ==
    \E b \in DriveBlocks : \E data \in [SectorOf(b) -> SUBSET Bits] :
        /\ todo = <<Erase(b), Program(data)>> /\ atRisk = SectorOf(b)
        /\ \A c \in SectorOf(b) \ hurt : data[c] = meant[c]
ProgramLeft ==
    \E S \in SUBSET DriveBlocks : \E data \in [S -> SUBSET Bits] :
        /\ todo = <<Program(data)>> /\ S \subseteq atRisk
        /\ \A c \in S \ hurt : Programmed(c, data[c]) = meant[c]
        /\ \A c \in atRisk \ S : Sound(c)

(* The steps of a format, the sectors they leave and what is to be there.  *)
FormatBlocks == SectorOf(BootBlock) \cup SectorOf(DirBlock)
FormatMeant ==
    /\ atRisk = FormatBlocks
    /\ \A c \in FormatBlocks :
          meant[c] = CASE c = BootBlock -> BootData [] c = FatBlock -> FatData [] c = DirBlock -> DirData
                       [] c \notin {BootBlock, FatBlock, DirBlock} -> Erased
AfterErase(b) == \A c \in SectorOf(b) : chip[c] = Erased
AfterBoot == \A c \in SectorOf(BootBlock) : chip[c] = IF c = BootBlock THEN BootData ELSE Erased
FormatLeft ==
    /\ FormatMeant
    /\ \/ todo = FormatSteps
       \/ /\ todo = <<Program(One(BootBlock, BootData)), Erase(DirBlock),
                      Program(One(FatBlock, FatData)), Program(One(DirBlock, DirData))>>
          /\ AfterErase(BootBlock)
       \/ /\ todo = <<Erase(DirBlock), Program(One(FatBlock, FatData)), Program(One(DirBlock, DirData))>>
          /\ AfterBoot
       \/ /\ todo = <<Program(One(FatBlock, FatData)), Program(One(DirBlock, DirData))>>
          /\ AfterBoot /\ AfterErase(DirBlock)

DriveTypes == /\ chip \in Contents /\ meant \in Contents
              /\ hurt \subseteq DriveBlocks /\ atRisk \subseteq DriveBlocks
              /\ unit = "off" => todo = << >>
DriveInv == /\ DriveTypes /\ DriveHolds
            /\ NothingLeft \/ SectorLeft \/ ProgramLeft \/ FormatLeft

LEMMA Layout ==
    /\ {BootBlock, FatBlock, DirBlock} \subseteq DriveBlocks
    /\ SectorOf(BootBlock) \cap SectorOf(DirBlock) = {}
    /\ {BootBlock, FatBlock} \subseteq SectorOf(BootBlock) /\ DirBlock \in SectorOf(DirBlock)
    /\ FatBlock # BootBlock /\ DirBlock # BootBlock /\ DirBlock # FatBlock
    /\ {BootData, FatData, DirData} \subseteq SUBSET Bits /\ BootData # Erased
<1>1. /\ Sectors \in Nat /\ Sectors >= 2 /\ PerSector \in Nat /\ PerSector >= 2
      /\ {BootData, FatData, DirData} \subseteq SUBSET Bits /\ BootData # Erased
  BY DriveAssumption
<1>2. Sectors * PerSector \in Nat /\ Sectors * PerSector >= 2 * PerSector
  BY <1>1
<1>3. 0 \div PerSector = 0 /\ 1 \div PerSector = 0 /\ PerSector \div PerSector = 1
  BY <1>1
<1> QED
  BY <1>1, <1>2, <1>3 DEF DriveBlocks, SectorOf, BootBlock, FatBlock, DirBlock

LEMMA OwnSector ==
  ASSUME NEW b \in DriveBlocks
  PROVE  b \in SectorOf(b) /\ SectorOf(b) \subseteq DriveBlocks
  BY DEF SectorOf

LEMMA DriveInitInv == DriveInit => DriveInv
<1> SUFFICES ASSUME DriveInit PROVE DriveInv
  OBVIOUS
<1>1. chip \in Contents
  BY Layout DEF DriveInit, Contents, Erased
<1> QED
  BY <1>1 DEF DriveInit, DriveInv, DriveTypes, DriveHolds, NothingLeft

(* A write puts its block or its erase sector at risk, and leaves the      *)
(* chip what makes them right.                                             *)
LEMMA HostWriteInv ==
  ASSUME DriveInv, NEW b \in 0 .. Sectors * PerSector, NEW data \in SUBSET Bits, HostWrite(b, data)
  PROVE  DriveInv'
<1>1. /\ chip \in Contents /\ meant \in Contents /\ hurt \subseteq DriveBlocks /\ unit = "up"
      /\ \A c \in DriveBlocks : c \notin atRisk => Sound(c)
      /\ UNCHANGED <<chip, unit, hurt>> /\ todo = << >>
  BY DEF DriveInv, DriveTypes, DriveHolds, HostWrite, Sound
<1>2. CASE b \notin DriveBlocks
  <2>1. UNCHANGED <<todo, meant, atRisk>>
    BY <1>2 DEF HostWrite
  <2> QED
    BY <1>1, <2>1 DEF DriveInv, DriveTypes, DriveHolds, NothingLeft, SectorLeft, ProgramLeft, FormatLeft,
         FormatMeant, AfterErase, AfterBoot, Sound, Programmed
<1>3. CASE b \in DriveBlocks
  <2>0. atRisk = {}
    BY <1>1 DEF DriveInv, NothingLeft, SectorLeft, ProgramLeft, FormatLeft, FormatSteps
  <2>1. /\ todo' = BlockWrite(b, data) /\ meant' = [meant EXCEPT ![b] = data]
        /\ atRisk' = IF data \subseteq chip[b] THEN {b} ELSE SectorOf(b)
    BY <1>3 DEF HostWrite
  <2>2. b \in SectorOf(b) /\ SectorOf(b) \subseteq DriveBlocks
    BY <1>3, OwnSector
  <2>3. meant' \in Contents /\ meant'[b] = data /\ \A c \in DriveBlocks \ {b} : meant'[c] = meant[c]
    BY <1>1, <1>3, <2>1 DEF Contents
  <2>4. DriveTypes' /\ DriveHolds'
    BY <1>1, <1>3, <2>0, <2>1, <2>2, <2>3 DEF DriveTypes, DriveHolds, Sound
  <2>5. CASE NeedsErase(b, data)
    <3> DEFINE all == [c \in SectorOf(b) |-> IF c = b THEN data ELSE chip[c]]
    <3>1. todo' = <<Erase(b), Program(all)>> /\ atRisk' = SectorOf(b)
      BY <2>1, <2>5 DEF BlockWrite, NeedsErase
    <3>2. all \in [SectorOf(b) -> SUBSET Bits]
      BY <1>1, <2>2 DEF Contents
    <3>3. \A c \in SectorOf(b) \ hurt : all[c] = meant'[c]
      BY <1>1, <2>0, <2>2, <2>3 DEF Sound
    <3> HIDE DEF all
    <3>4. SectorLeft'
      BY <1>1, <1>3, <3>1, <3>2, <3>3 DEF SectorLeft
    <3> QED
      BY <2>4, <3>4 DEF DriveInv
  <2>6. CASE ~NeedsErase(b, data)
    <3> DEFINE one == One(b, data)
    <3>1. todo' = <<Program(one)>> /\ atRisk' = {b} /\ data \subseteq chip[b]
      BY <2>1, <2>6 DEF BlockWrite, NeedsErase
    <3>2. one \in [{b} -> SUBSET Bits] /\ one[b] = data
      BY DEF One
    <3>3. (chip[b] \cap data)= data
      BY <3>1
    <3> HIDE DEF one
    <3>4. ProgramLeft'
      BY <1>1, <1>3, <2>3, <3>1, <3>2, <3>3 DEF ProgramLeft, Programmed
    <3> QED
      BY <2>4, <3>4 DEF DriveInv
  <2> QED
    BY <2>5, <2>6
<1> QED
  BY <1>2, <1>3

(* The next operation: what it leaves is what the rest of the plan needs.  *)
StepDone(o, b) == IF b \notin o.at THEN chip[b]
                  ELSE IF o.op = "erase" THEN Erased ELSE Programmed(b, o.data[b])

LEMMA LastStep ==
  ASSUME DriveTypes, DriveHolds, ProgramLeft, ChipStep
  PROVE  DriveInv'
<1>0. PICK S \in SUBSET DriveBlocks : \E data \in [S -> SUBSET Bits] :
        /\ todo = <<Program(data)>> /\ S \subseteq atRisk
        /\ \A c \in S \ hurt : Programmed(c, data[c]) = meant[c]
        /\ \A c \in atRisk \ S : Sound(c)
  BY DEF ProgramLeft
<1>1. PICK data \in [S -> SUBSET Bits] :
        /\ todo = <<Program(data)>> /\ S \subseteq atRisk
        /\ \A c \in S \ hurt : Programmed(c, data[c]) = meant[c]
        /\ \A c \in atRisk \ S : Sound(c)
  BY <1>0
<1>2. DOMAIN data = S
  OBVIOUS
<1> DEFINE o == Program(data)
<1>3. o.op # "erase" /\ o.at = S /\ o.data = data
  BY <1>2 DEF Program
<1> HIDE DEF o
<1>4. Head(todo) = o /\ Tail(todo) = << >> /\ todo # << >>
  BY <1>1 DEF o
<1>5. /\ chip' = [b \in DriveBlocks |-> IF b \in S THEN Programmed(b, data[b]) ELSE chip[b]]
      /\ todo' = << >> /\ unit' = "up" /\ UNCHANGED meant
      /\ atRisk' = {} /\ hurt' = {b \in hurt : chip'[b] # meant[b]}
  BY <1>3, <1>4 DEF ChipStep
<1>6. /\ chip \in Contents /\ meant \in Contents /\ hurt \subseteq DriveBlocks /\ atRisk \subseteq DriveBlocks
  BY DEF DriveTypes
<1>7. chip' \in Contents
  BY <1>1, <1>5, <1>6 DEF Contents, Programmed
<1>8. ASSUME NEW b \in DriveBlocks, b \notin hurt PROVE chip'[b] = meant[b]
  <2>1. CASE b \in S
    BY <1>1, <1>5, <1>8, <2>1
  <2>2. CASE b \notin S
    BY <1>1, <1>5, <1>6, <1>8, <2>2 DEF DriveHolds, Sound
  <2> QED
    BY <2>1, <2>2
<1>9. DriveTypes' /\ NothingLeft'
  BY <1>5, <1>6, <1>7 DEF DriveTypes, NothingLeft
<1>10. DriveHolds'
  BY <1>5, <1>8 DEF DriveHolds
<1> QED
  BY <1>9, <1>10 DEF DriveInv

(* An operation that is not the last, on blocks at risk.                   *)
LEMMA OneStep ==
  ASSUME DriveTypes, DriveHolds, ChipStep, NEW o, NEW rest, todo # << >>,
         Head(todo) = o, Tail(todo) = rest, rest # << >>, o.at \subseteq atRisk,
         o.op = "erase" \/ \A b \in o.at : o.data[b] \in SUBSET Bits
  PROVE  /\ DriveTypes' /\ DriveHolds' /\ todo' = rest
         /\ UNCHANGED <<meant, hurt, atRisk>>
         /\ \A b \in DriveBlocks : chip'[b] = StepDone(o, b)
<1>1. /\ chip' = [b \in DriveBlocks |-> StepDone(o, b)]
      /\ todo' = rest /\ unit' = unit /\ UNCHANGED <<meant, hurt, atRisk>> /\ todo # << >>
  BY DEF ChipStep, StepDone
<1>2. chip' \in Contents
  BY <1>1 DEF DriveTypes, Contents, StepDone, Programmed, Erased
<1> QED
  BY <1>1, <1>2 DEF DriveTypes, DriveHolds, StepDone

LEMMA ChipStepInv == ASSUME DriveInv, ChipStep PROVE DriveInv'
<1>1. DriveTypes /\ DriveHolds /\ todo # << >>
  BY DEF DriveInv, ChipStep
<1>2. CASE SectorLeft
  <2>0. PICK b \in DriveBlocks : \E data \in [SectorOf(b) -> SUBSET Bits] :
          /\ todo = <<Erase(b), Program(data)>> /\ atRisk = SectorOf(b)
          /\ \A c \in SectorOf(b) \ hurt : data[c] = meant[c]
    BY <1>2 DEF SectorLeft
  <2>1. PICK data \in [SectorOf(b) -> SUBSET Bits] :
          /\ todo = <<Erase(b), Program(data)>> /\ atRisk = SectorOf(b)
          /\ \A c \in SectorOf(b) \ hurt : data[c] = meant[c]
    BY <2>0
  <2> DEFINE o == Erase(b)
             rest == <<Program(data)>>
  <2>2. /\ todo # << >> /\ Head(todo) = o /\ Tail(todo) = rest /\ rest # << >>
        /\ o.at = SectorOf(b) /\ o.op = "erase"
    BY <2>1 DEF Erase
  <2> HIDE DEF o, rest
  <2>3. /\ DriveTypes' /\ DriveHolds' /\ todo' = rest
        /\ UNCHANGED <<meant, hurt, atRisk>>
        /\ \A c \in SectorOf(b) : chip'[c] = Bits
    BY <1>1, <2>1, <2>2, OneStep, OwnSector DEF StepDone, Erased
  <2>4. \A c \in SectorOf(b) \ hurt : chip'[c] \cap data[c] = meant[c]
    BY <2>1, <2>3
  <2>5. ProgramLeft'
    BY <2>1, <2>3, <2>4, OwnSector DEF ProgramLeft, Programmed, rest
  <2> QED
    BY <2>3, <2>5 DEF DriveInv
<1>3. CASE FormatLeft
  <2> DEFINE pBoot == Program(One(BootBlock, BootData))
             eDir == Erase(DirBlock)
             pFat == Program(One(FatBlock, FatData))
             pDir == Program(One(DirBlock, DirData))
  <2>1. /\ pBoot.at = {BootBlock} /\ pBoot.op # "erase" /\ pBoot.data[BootBlock] = BootData
        /\ pFat.at = {FatBlock} /\ pFat.op # "erase" /\ pFat.data[FatBlock] = FatData
        /\ eDir.at = SectorOf(DirBlock) /\ eDir.op = "erase"
    BY DEF Program, One, Erase
  <2>2. FormatMeant /\ atRisk = FormatBlocks
    BY <1>3 DEF FormatLeft, FormatMeant
  <2>3. SectorOf(BootBlock) \subseteq DriveBlocks /\ SectorOf(DirBlock) \subseteq DriveBlocks
    BY Layout, OwnSector
  <2> HIDE DEF pBoot, eDir, pFat, pDir
  <2>4. CASE todo = FormatSteps
    <3> DEFINE o == Erase(BootBlock)
               rest == <<pBoot, eDir, pFat, pDir>>
    <3>1. /\ todo # << >> /\ Head(todo) = o /\ Tail(todo) = rest /\ rest # << >>
          /\ o.at = SectorOf(BootBlock) /\ o.op = "erase"
      BY <2>4 DEF FormatSteps, pBoot, eDir, pFat, pDir, Erase
    <3> HIDE DEF o, rest
    <3>2. /\ DriveTypes' /\ DriveHolds' /\ todo' = rest
          /\ UNCHANGED <<meant, hurt, atRisk>>
          /\ \A c \in SectorOf(BootBlock) : chip'[c] = Erased
      BY <1>1, <2>2, <2>3, <3>1, OneStep DEF StepDone, FormatBlocks
    <3>3. FormatLeft'
      BY <2>2, <3>2 DEF FormatLeft, FormatMeant, AfterErase, rest, pBoot, eDir, pFat, pDir
    <3> QED
      BY <3>2, <3>3 DEF DriveInv
  <2>5. CASE todo = <<pBoot, eDir, pFat, pDir>> /\ AfterErase(BootBlock)
    <3> DEFINE rest == <<eDir, pFat, pDir>>
    <3>1. todo # << >> /\ Head(todo) = pBoot /\ Tail(todo) = rest /\ rest # << >>
      BY <2>5
    <3> HIDE DEF rest
    <3>2. /\ DriveTypes' /\ DriveHolds' /\ todo' = rest
          /\ UNCHANGED <<meant, hurt, atRisk>>
          /\ \A c \in SectorOf(BootBlock) : chip'[c] = StepDone(pBoot, c)
      <4>1. pBoot.at \subseteq atRisk /\ \A c \in pBoot.at : pBoot.data[c] \in SUBSET Bits
        BY <2>1, <2>2, Layout DEF FormatBlocks
      <4> QED
        BY <1>1, <2>3, <3>1, <4>1, OneStep
    <3>3. ASSUME NEW c \in SectorOf(BootBlock)
          PROVE  chip'[c] = IF c = BootBlock THEN BootData ELSE Erased
      <4>1. chip[c] = Bits
        BY <2>5 DEF AfterErase, Erased
      <4>2. Bits \cap BootData = BootData
        BY Layout
      <4> QED
        BY <2>1, <3>2, <4>1, <4>2 DEF StepDone, Programmed, Erased
    <3>4. FormatLeft'
      BY <2>2, <3>2, <3>3 DEF FormatLeft, FormatMeant, AfterBoot, rest, pBoot, eDir, pFat, pDir
    <3> QED
      BY <3>2, <3>4 DEF DriveInv
  <2>6. CASE todo = <<eDir, pFat, pDir>> /\ AfterBoot
    <3> DEFINE rest == <<pFat, pDir>>
    <3>1. todo # << >> /\ Head(todo) = eDir /\ Tail(todo) = rest /\ rest # << >>
      BY <2>6
    <3> HIDE DEF rest
    <3>2. /\ DriveTypes' /\ DriveHolds' /\ todo' = rest
          /\ UNCHANGED <<meant, hurt, atRisk>>
          /\ \A c \in DriveBlocks : chip'[c] = StepDone(eDir, c)
      BY <1>1, <2>1, <2>2, <3>1, OneStep DEF FormatBlocks
    <3>3. AfterBoot' /\ AfterErase(DirBlock)'
      BY <2>1, <2>3, <2>6, <3>2, Layout DEF StepDone, AfterBoot, AfterErase
    <3>4. FormatLeft'
      BY <2>2, <3>2, <3>3 DEF FormatLeft, FormatMeant, rest, pFat, pDir
    <3> QED
      BY <3>2, <3>4 DEF DriveInv
  <2>7. CASE todo = <<pFat, pDir>> /\ AfterBoot /\ AfterErase(DirBlock)
    <3> DEFINE rest == <<pDir>>
    <3>1. todo # << >> /\ Head(todo) = pFat /\ Tail(todo) = rest /\ rest # << >>
      BY <2>7
    <3> HIDE DEF rest
    <3>2. /\ DriveTypes' /\ DriveHolds' /\ todo' = rest
          /\ UNCHANGED <<meant, hurt, atRisk>>
          /\ \A c \in DriveBlocks : chip'[c] = StepDone(pFat, c)
      <4>1. pFat.at \subseteq atRisk /\ \A c \in pFat.at : pFat.data[c] \in SUBSET Bits
        BY <2>1, <2>2, Layout DEF FormatBlocks
      <4> QED
        BY <1>1, <3>1, <4>1, OneStep
    <3>3. ASSUME NEW c \in FormatBlocks, c # DirBlock PROVE chip'[c] = meant[c]
      <4>1. Bits \cap FatData = FatData
        BY Layout
      <4>2. CASE c = FatBlock
        BY <2>1, <2>2, <2>3, <2>7, <3>2, <4>1, <4>2, Layout
           DEF StepDone, AfterBoot, Programmed, Erased, FormatMeant, FormatBlocks
      <4>3. CASE c # FatBlock
        <5>1. chip'[c] = chip[c]
          BY <2>1, <2>3, <3>2, <4>3 DEF StepDone, FormatBlocks
        <5>2. meant[c] = IF c = BootBlock THEN BootData ELSE Erased
          BY <2>2, <3>3, <4>3, Layout DEF FormatMeant
        <5>3. chip[c] = IF c = BootBlock THEN BootData ELSE Erased
          BY <2>7, Layout DEF AfterBoot, AfterErase, FormatBlocks
        <5> QED
          BY <5>1, <5>2, <5>3
      <4> QED
        BY <4>2, <4>3
    <3>4. chip'[DirBlock] = Bits /\ meant[DirBlock] = DirData /\ Bits \cap DirData = DirData
      BY <2>1, <2>2, <2>3, <2>7, <3>2, Layout
         DEF StepDone, AfterErase, Erased, FormatMeant, FormatBlocks
    <3> DEFINE data == One(DirBlock, DirData)
    <3>5. data \in [{DirBlock} -> SUBSET Bits] /\ data[DirBlock] = DirData
      BY Layout DEF One
    <3>6. todo' = <<Program(data)>>
      BY <3>2 DEF rest, pDir
    <3> HIDE DEF data
    <3>7. ProgramLeft'
      <4>1. {DirBlock} \subseteq DriveBlocks /\ {DirBlock} \subseteq atRisk
        BY <2>2, <2>3, Layout DEF FormatBlocks
      <4>2. \A c \in atRisk \ {DirBlock} : Sound(c)'
        BY <2>2, <3>2, <3>3 DEF Sound
      <4>3. \A c \in {DirBlock} \ hurt : Programmed(c, data[c])' = meant[c]
        BY <3>4, <3>5, <3>2 DEF Programmed
      <4> QED
        BY <3>2, <3>5, <3>6, <4>1, <4>2, <4>3 DEF ProgramLeft, Programmed
    <3> QED
      BY <3>2, <3>7 DEF DriveInv
  <2> QED
    BY <1>3, <2>4, <2>5, <2>6, <2>7 DEF FormatLeft, pBoot, eDir, pFat, pDir
<1>4. CASE ProgramLeft
  BY <1>1, <1>4, LastStep
<1> QED
  BY <1>1, <1>2, <1>3, <1>4 DEF DriveInv, NothingLeft

(* A power loss or an error spoils blocks at risk only.                    *)
LEMMA InterruptInv ==
  ASSUME DriveInv, Interrupt, UNCHANGED meant
  PROVE  DriveInv'
<1>1. /\ chip \in Contents /\ meant \in Contents /\ hurt \subseteq DriveBlocks /\ atRisk \subseteq DriveBlocks
      /\ DriveHolds
  BY DEF DriveInv, DriveTypes
<1>2. todo' = << >> /\ atRisk' = {} /\ hurt' = hurt \cup atRisk
  BY DEF Interrupt
<1>3. chip' \in Contents /\ \A b \in DriveBlocks \ atRisk : chip'[b] = chip[b]
  <2>1. CASE todo = << >>
    BY <1>1, <2>1 DEF Interrupt
  <2>2. CASE todo # << >>
    <3>1. Head(todo).at \subseteq atRisk
      <4>1. CASE SectorLeft
        BY <4>1 DEF SectorLeft, Erase
      <4>2. CASE ProgramLeft
        <5>1. PICK S \in SUBSET DriveBlocks :
                 S \subseteq atRisk /\ \E data \in [S -> SUBSET Bits] : todo = <<Program(data)>>
          BY <4>2 DEF ProgramLeft
        <5>2. PICK data \in [S -> SUBSET Bits] : todo = <<Program(data)>>
          BY <5>1
        <5> QED
          BY <5>1, <5>2 DEF Program
      <4>3. CASE FormatLeft
        <5>1. atRisk = FormatBlocks
          BY <4>3 DEF FormatLeft, FormatMeant
        <5>2. Head(todo) \in {Erase(BootBlock), Program(One(BootBlock, BootData)), Erase(DirBlock),
                              Program(One(FatBlock, FatData))}
          BY <4>3 DEF FormatLeft, FormatSteps
        <5>3. Head(todo).at \in {SectorOf(BootBlock), SectorOf(DirBlock), {BootBlock}, {FatBlock}}
          BY <5>2 DEF Erase, Program, One
        <5> QED
          BY <5>1, <5>3, Layout DEF FormatBlocks
      <4> QED
        BY <2>2, <4>1, <4>2, <4>3 DEF DriveInv, NothingLeft
    <3>2. PICK left \in [Head(todo).at -> SUBSET Bits] :
             chip' = [b \in DriveBlocks |-> IF b \in Head(todo).at THEN left[b] ELSE chip[b]]
      BY <2>2 DEF Interrupt
    <3> QED
      BY <1>1, <3>1, <3>2 DEF Contents
  <2> QED
    BY <2>1, <2>2
<1>4. DriveTypes' /\ NothingLeft'
  BY <1>1, <1>2, <1>3 DEF DriveTypes, NothingLeft
<1>5. DriveHolds'
  BY <1>1, <1>2, <1>3 DEF DriveHolds
<1> QED
  BY <1>4, <1>5 DEF DriveInv

LEMMA MountInv == ASSUME DriveInv, Mount PROVE DriveInv'
<1>1. /\ chip \in Contents /\ meant \in Contents /\ hurt \subseteq DriveBlocks
      /\ DriveHolds /\ todo = << >> /\ UNCHANGED <<chip, hurt>>
  BY DEF DriveInv, DriveTypes, Mount
<1>2. NothingLeft
  BY <1>1 DEF DriveInv, SectorLeft, ProgramLeft, FormatLeft, FormatSteps
<1>3. CASE Formatted
  <2>1. unit' = "up" /\ UNCHANGED <<todo, meant, atRisk>>
    BY <1>3 DEF Mount
  <2> QED
    BY <1>1, <1>2, <2>1 DEF DriveInv, DriveTypes, DriveHolds, NothingLeft
<1>4. CASE ~Formatted
  <2>1. /\ unit' = "mounting" /\ todo' = FormatSteps
        /\ meant' = [b \in DriveBlocks |-> Fresh(b)] /\ atRisk' = FormatBlocks
    BY <1>4 DEF Mount, FormatBlocks
  <2>2. ASSUME NEW b \in DriveBlocks
        PROVE  /\ Fresh(b) \in SUBSET Bits
               /\ b \notin FormatBlocks => Fresh(b) = meant[b]
               /\ b \in FormatBlocks =>
                    Fresh(b) = CASE b = BootBlock -> BootData [] b = FatBlock -> FatData
                                 [] b = DirBlock -> DirData
                                 [] b \notin {BootBlock, FatBlock, DirBlock} -> Erased
    BY <1>1, Layout DEF Fresh, FormatBlocks, Contents, Erased
  <2>3. FormatBlocks \subseteq DriveBlocks
    BY Layout, OwnSector DEF FormatBlocks
  <2>4. DriveTypes' /\ DriveHolds'
    BY <1>1, <1>2, <2>1, <2>2, <2>3 DEF DriveTypes, DriveHolds, Contents, NothingLeft
  <2>5. FormatMeant'
    BY <2>1, <2>2, <2>3 DEF FormatMeant
  <2> QED
    BY <2>1, <2>4, <2>5 DEF DriveInv, FormatLeft
<1> QED
  BY <1>3, <1>4

LEMMA DriveStep == DriveInv /\ [DriveNext]_driveVars => DriveInv'
<1> SUFFICES ASSUME DriveInv, [DriveNext]_driveVars PROVE DriveInv'
  OBVIOUS
<1>1. CASE UNCHANGED driveVars
  BY <1>1 DEF driveVars, DriveInv, DriveTypes, DriveHolds, NothingLeft, SectorLeft, ProgramLeft, FormatLeft,
       FormatMeant, AfterErase, AfterBoot, Sound, Programmed
<1>2. CASE DrivePowerLoss \/ ChipFails
  BY <1>2, InterruptInv DEF DrivePowerLoss, ChipFails
<1> QED
  BY <1>1, <1>2, HostWriteInv, ChipStepInv, MountInv DEF DriveNext

LEMMA DriveInvHolds == DriveInv => DriveHolds
  BY DEF DriveInv

(* However often the power goes or the chip fails in the middle of a write *)
(* or of a format, every block but those the interrupted operation was     *)
(* about holds what was last put there (usb_storage.rs:92-99).             *)
THEOREM DriveKeepsBlocks == DriveSpec => []DriveHolds
  BY DriveInitInv, DriveStep, DriveInvHolds, PTL DEF DriveSpec

(***************************************************************************)
(* Reading a file (FatFile).  NthCluster is a recursive function: that it  *)
(* exists and obeys its equation is NthClusterIs, by the least length no   *)
(* chain has.                                                              *)
(***************************************************************************)

(* The chain of clusters. *)

LEMMA FatSizes ==
    /\ LastCluster \in Nat /\ ClusterBytes \in Nat \ {0} /\ MaxSize \in Nat /\ MaxLinks \in Nat
    /\ \A c \in Clusters : c \in Nat \ {0, 1}
  BY FatAssumption DEF Clusters

LEMMA DivMod ==
  ASSUME NEW b \in Nat \ {0}, NEW n \in Nat, NEW r \in 0 .. b - 1
  PROVE  (n * b + r) \div b = n /\ (n * b + r) % b = r
  OBVIOUS

LEMMA DivMono ==
  ASSUME NEW b \in Nat \ {0}, NEW n \in Nat, NEW p \in Nat, n * b <= p
  PROVE  n <= p \div b /\ n <= p
  OBVIOUS

LEMMA DivNat ==
  ASSUME NEW b \in Nat \ {0}, NEW p \in Nat PROVE p \div b \in 0 .. p
  OBVIOUS

LEMMA OneMore ==
  ASSUME NEW b \in Nat, NEW n \in Nat PROVE (n + 1) * b = n * b + b /\ n * b \in Nat
  OBVIOUS

Far == 2 * MaxSize
FirstOf == IF file.first \in Clusters THEN file.first ELSE Bad
After(c) == IF c \in Clusters THEN fat[c] ELSE Bad
IsChain(f, n) == f[0] = FirstOf /\ \A k \in 1 .. n : f[k] = After(f[k - 1])

LEMMA ChainsExist == ASSUME NEW n \in Nat PROVE \E f : IsChain(f, n)
<1> DEFINE none == {k \in Nat : ~\E f : IsChain(f, k)}
<1>1. SUFFICES ASSUME n \in none PROVE FALSE
  OBVIOUS
<1>2. PICK m \in none : \A k \in none : m <= k
  <2>1. none \in SUBSET Nat
    OBVIOUS
  <2> HIDE DEF none
  <2> QED
    BY <1>1, <2>1, LeastNatural
<1>3. m \in Nat /\ ~\E f : IsChain(f, m)
  BY <1>2
<1>4. m # 0
  <2> SUFFICES ASSUME m = 0 PROVE FALSE
    OBVIOUS
  <2>1. IsChain([k \in {0} |-> FirstOf], 0)
    BY DEF IsChain
  <2> QED
    BY <1>3, <2>1
<1>5. m - 1 \in Nat /\ m - 1 \notin none
  BY <1>2, <1>3, <1>4
<1>6. PICK f : IsChain(f, m - 1)
  BY <1>5
<1> DEFINE g == [k \in 0 .. m |-> IF k = m THEN After(f[m - 1]) ELSE f[k]]
<1>7. g[0] = FirstOf
  BY <1>3, <1>4, <1>6 DEF IsChain
<1>8. ASSUME NEW k \in 1 .. m PROVE g[k] = After(g[k - 1])
  <2>1. CASE k = m
    BY <1>3, <1>4, <2>1
  <2>2. CASE k # m
    <3>1. k \in 1 .. m - 1 /\ k - 1 \in 0 .. m /\ k - 1 # m
      BY <1>3, <2>2
    <3>2. g[k] = f[k] /\ g[k - 1] = f[k - 1]
      BY <1>3, <2>2, <3>1
    <3> QED
      BY <1>6, <3>1, <3>2 DEF IsChain
  <2> QED
    BY <2>1, <2>2
<1>9. IsChain(g, m)
  <2> HIDE DEF g
  <2> QED
    BY <1>7, <1>8 DEF IsChain
<1> QED
  BY <1>3, <1>9

LEMMA NthClusterIs == IsChain(NthCluster, Far)
<1> DEFINE Is(g) == g = [n \in 0 .. 2 * MaxSize |->
                           IF n = 0 THEN (IF file.first \in Clusters THEN file.first ELSE Bad)
                           ELSE IF g[n - 1] \in Clusters THEN fat[g[n - 1]] ELSE Bad]
<1>1. Far \in Nat /\ Far = 2 * MaxSize
  BY FatSizes DEF Far
<1>2. PICK f : IsChain(f, Far)
  BY <1>1, ChainsExist
<1> DEFINE h == [n \in 0 .. Far |-> f[n]]
<1>3. Is(h)
  <2>1. ASSUME NEW n \in 0 .. Far
        PROVE  h[n] = IF n = 0 THEN (IF file.first \in Clusters THEN file.first ELSE Bad)
                      ELSE IF h[n - 1] \in Clusters THEN fat[h[n - 1]] ELSE Bad
    <3>1. CASE n = 0
      BY <1>1, <1>2, <3>1 DEF IsChain, FirstOf
    <3>2. CASE n # 0
      <4>1. n \in 1 .. Far /\ n - 1 \in 0 .. Far
        BY <1>1, <3>2
      <4>2. h[n] = f[n] /\ h[n - 1] = f[n - 1]
        BY <4>1
      <4> HIDE DEF h
      <4> QED
        BY <1>2, <3>2, <4>1, <4>2 DEF IsChain, After
    <3> QED
      BY <3>1, <3>2
  <2> QED
    BY <1>1, <2>1
<1>4. NthCluster = CHOOSE g : Is(g)
  BY DEF NthCluster
<1>5. Is(NthCluster)
  <2> HIDE DEF Is, h
  <2> QED
    BY <1>3, <1>4
<1>6. NthCluster[0] = FirstOf
  BY <1>1, <1>5 DEF FirstOf
<1>7. ASSUME NEW k \in 1 .. Far PROVE NthCluster[k] = After(NthCluster[k - 1])
  <2>1. k \in 0 .. 2 * MaxSize /\ k # 0
    BY <1>1
  <2> QED
    BY <1>5, <2>1 DEF After
<1> QED
  BY <1>6, <1>7 DEF IsChain

-----------------------------------------------------------------------------
(* A read.  While the host relinked nothing, the reader stands on the      *)
(* cluster of the chain that its place in the file is in, all before it    *)
(* are clusters, and what it read are the bytes before its place.          *)

FileByte(i) == LET p == ask.offset + i - 1
               IN  <<NthCluster[p \div ClusterBytes], (p % ClusterBytes) + 1>>
LastOf == (ask.offset + ToRead - 1) \div ClusterBytes
Walked(n) == links = 0 => /\ NthCluster[n] = reader.cluster
                          /\ \A m \in 0 .. n : NthCluster[m] \in Clusters
FatTyped ==
    /\ file.first \in {End} \cup Clusters /\ file.size \in Nat /\ ask.offset \in 0 .. MaxSize /\ ask.len \in 1 .. MaxSize
    /\ links \in Nat /\ bytes \in Seq(Nat \X Nat)
    /\ DOMAIN reader = {"at", "cluster", "skip"} /\ reader.skip \in Nat
PlaceInv ==
    /\ reader.at \in {"start", "skipping", "reading", "linking", "done", "corrupt"}
    /\ reader.skip <= ask.offset
    /\ Len(bytes) <= ToRead
    /\ reader.at = "start" => bytes = << >> /\ links = 0
    /\ reader.at \in {"skipping", "reading", "linking"} =>
          reader.cluster \in Clusters /\ Len(bytes) < ToRead
    /\ reader.at = "skipping" =>
          /\ bytes = << >>
          /\ \E n \in Nat : n * ClusterBytes + reader.skip = ask.offset /\ Walked(n)
    /\ reader.at = "reading" =>
          /\ reader.skip < ClusterBytes
          /\ \E n \in Nat : n * ClusterBytes + reader.skip = ask.offset + Len(bytes) /\ Walked(n)
    /\ reader.at = "linking" =>
          \E n \in Nat : (n + 1) * ClusterBytes = ask.offset + Len(bytes) /\ Walked(n)
    /\ reader.at = "done" => Len(bytes) = ToRead /\ (ToRead = 0 \/ Walked(LastOf))
    /\ (reader.at = "corrupt" /\ links = 0) =>
          ToRead # 0 /\ \E n \in 0 .. LastOf : NthCluster[n] \notin Clusters
BytesInv == links = 0 => \A i \in 1 .. Len(bytes) : bytes[i] = FileByte(i)
FatInv == FatTyped /\ PlaceInv /\ BytesInv

LEMMA ReadSizes ==
  ASSUME FatTyped
  PROVE  /\ ToRead \in Nat /\ ask.offset \in Nat /\ ask.offset + ToRead <= Far /\ Far \in Nat
         /\ Len(bytes) \in Nat
         /\ ToRead # 0 => LastOf \in 0 .. Far
<1>1. /\ ToRead \in Nat /\ ask.offset \in Nat /\ ask.offset + ToRead <= Far /\ Far \in Nat
  BY FatSizes DEF FatTyped, ToRead, Far
<1>2. Len(bytes) \in Nat
  BY DEF FatTyped
<1>3. ASSUME ToRead # 0 PROVE LastOf \in 0 .. Far
  <2>1. ask.offset + ToRead - 1 \in Nat /\ ask.offset + ToRead - 1 <= Far
    BY <1>1, <1>3
  <2> QED
    BY <1>1, <2>1, DivNat, FatSizes DEF LastOf
<1> QED
  BY <1>1, <1>2, <1>3

LEMMA SameFile ==
  /\ UNCHANGED <<file, ask>> => ToRead' = ToRead /\ LastOf' = LastOf
  /\ UNCHANGED <<fat, file, ask>> =>
        /\ NthCluster' = NthCluster
        /\ \A i : FileByte(i)' = FileByte(i)
<1>1. UNCHANGED <<file, ask>> => ToRead' = ToRead
  BY DEF ToRead
<1>2. UNCHANGED <<file, ask>> => LastOf' = LastOf
  BY <1>1 DEF LastOf
<1>3. UNCHANGED <<fat, file, ask>> => NthCluster' = NthCluster
  BY DEF NthCluster
<1>4. UNCHANGED <<fat, file, ask>> => \A i : FileByte(i)' = FileByte(i)
  BY <1>3 DEF FileByte
<1> QED
  BY <1>1, <1>2, <1>3, <1>4

(* The place n clusters into the file is still to be read: the chain up to *)
(* there is as long as NthCluster is defined, and no longer than needed.   *)
LEMMA InReach ==
  ASSUME FatTyped, NEW n \in Nat, n * ClusterBytes <= ask.offset + Len(bytes), Len(bytes) < ToRead
  PROVE  n \in 0 .. Far /\ n <= LastOf /\ ToRead # 0 /\ LastOf \in Nat
<1>1. ask.offset + ToRead - 1 \in Nat /\ n * ClusterBytes <= ask.offset + ToRead - 1
  <2>1. n * ClusterBytes \in Nat
    BY FatSizes, OneMore
  <2> QED
    BY <2>1, ReadSizes
<1>2. n <= LastOf
  BY <1>1, DivMono, FatSizes DEF LastOf
<1> QED
  BY <1>2, ReadSizes

LEMMA FollowInv ==
  ASSUME FatTyped, PlaceInv, NEW n \in Nat, Walked(n), reader.cluster \in Clusters,
         (n + 1) * ClusterBytes <= ask.offset + Len(bytes), Len(bytes) < ToRead,
         NEW place, NEW skip, Follow(place, skip), UNCHANGED <<fat, file, ask, bytes, links>>
  PROVE  /\ DOMAIN reader' = {"at", "cluster", "skip"}
         /\ \/ /\ reader'.at = place /\ reader'.skip = skip /\ reader'.cluster \in Clusters
               /\ Walked(n + 1)'
            \/ /\ reader'.at = "corrupt" /\ reader'.skip = reader.skip
               /\ links' = 0 => /\ ToRead' # 0
                                /\ \E m \in 0 .. LastOf' : NthCluster'[m] \notin Clusters
<1>1. n + 1 \in 1 .. Far /\ n + 1 <= LastOf /\ ToRead # 0 /\ LastOf \in Nat
  <2>1. n + 1 \in Nat /\ n + 1 # 0
    OBVIOUS
  <2> QED
    BY <2>1, InReach
<1>2. links = 0 => NthCluster[n + 1] = fat[reader.cluster]
  <2>1. (n + 1) - 1 = n
    OBVIOUS
  <2>2. NthCluster[n + 1] = After(NthCluster[n])
    BY <1>1, <2>1, NthClusterIs DEF IsChain
  <2> QED
    BY <2>2 DEF Walked, After
<1>3. CASE fat[reader.cluster] \in Clusters
  <2>1. reader' = [at |-> place, cluster |-> fat[reader.cluster], skip |-> skip]
    BY <1>3 DEF Follow
  <2>2. links = 0 => \A m \in 0 .. n + 1 : NthCluster[m] \in Clusters
    <3>1. \A m \in 0 .. n + 1 : m \in 0 .. n \/ m = n + 1
      OBVIOUS
    <3> QED
      BY <1>2, <1>3, <3>1 DEF Walked
  <2>3. Walked(n + 1)'
    BY <1>2, <2>1, <2>2, SameFile DEF Walked
  <2> QED
    BY <1>3, <2>1, <2>3
<1>4. CASE fat[reader.cluster] \notin Clusters
  <2>1. reader' = [reader EXCEPT !.at = "corrupt"]
    BY <1>4 DEF Follow
  <2>2. n + 1 \in 0 .. LastOf
    BY <1>1
  <2> QED
    BY <1>1, <1>2, <1>4, <2>1, <2>2, SameFile DEF FatTyped
<1> QED
  BY <1>3, <1>4

LEMMA OpenInv == ASSUME FatInv, Open PROVE FatInv'
<1>1. /\ reader.at = "start" /\ bytes = << >> /\ links = 0 /\ FatTyped
      /\ UNCHANGED <<fat, file, ask, bytes, links>>
      /\ Len(bytes) = 0
  BY DEF FatInv, PlaceInv, Open
<1>2. ToRead' = ToRead /\ LastOf' = LastOf /\ NthCluster' = NthCluster
  BY <1>1, SameFile
<1>3. ToRead \in Nat /\ ask.offset \in Nat /\ (ToRead # 0 => LastOf \in Nat)
  BY <1>1, ReadSizes
<1>4. BytesInv'
  BY <1>1 DEF BytesInv
<1>5. NthCluster[0] = FirstOf
  BY NthClusterIs DEF IsChain
<1>6. CASE ToRead = 0
  <2>1. reader' = [reader EXCEPT !.at = "done"]
    BY <1>6 DEF Open
  <2>2. FatTyped'
    BY <1>1, <2>1 DEF FatTyped
  <2>3. PlaceInv'
    BY <1>1, <1>2, <1>6, <2>1 DEF FatTyped, PlaceInv, FatInv
  <2> QED
    BY <1>4, <2>2, <2>3 DEF FatInv
<1>7. CASE ToRead # 0 /\ file.first < 2
  <2>1. reader' = [reader EXCEPT !.at = "corrupt"]
    BY <1>7 DEF Open
  <2>2. FatTyped'
    BY <1>1, <2>1 DEF FatTyped
  <2>3. file.first \notin Clusters /\ Bad \notin Clusters
    BY <1>7, FatSizes DEF Clusters, Bad
  <2>4. 0 \in 0 .. LastOf /\ NthCluster[0] \notin Clusters
    BY <1>3, <1>5, <1>7, <2>3 DEF FirstOf
  <2>5. PlaceInv'
    BY <1>1, <1>2, <1>3, <1>7, <2>1, <2>4 DEF FatTyped, PlaceInv, FatInv
  <2> QED
    BY <1>4, <2>2, <2>5 DEF FatInv
<1>8. CASE ToRead # 0 /\ ~(file.first < 2)
  <2>1. reader' = [at |-> "skipping", cluster |-> file.first, skip |-> ask.offset]
    BY <1>8 DEF Open
  <2>2. FatTyped'
    BY <1>1, <1>3, <2>1 DEF FatTyped
  <2>3. file.first \in Clusters
    BY <1>1, <1>8 DEF FatTyped, End
  <2>4. Walked(0)'
    <3>1. \A m \in 0 .. 0 : m = 0
      OBVIOUS
    <3> QED
      BY <1>2, <1>5, <2>1, <2>3, <3>1 DEF Walked, FirstOf
  <2>5. 0 * ClusterBytes + ask.offset = ask.offset
    BY <1>3, FatSizes
  <2>6. PlaceInv'
    BY <1>1, <1>2, <1>3, <1>8, <2>1, <2>3, <2>4, <2>5 DEF PlaceInv
  <2> QED
    BY <1>4, <2>2, <2>6 DEF FatInv
<1> QED
  BY <1>6, <1>7, <1>8

LEMMA SkipInv == ASSUME FatInv, SkipCluster PROVE FatInv'
<1>1. /\ reader.at = "skipping" /\ bytes = << >> /\ FatTyped /\ PlaceInv
      /\ UNCHANGED <<fat, file, ask, bytes, links>>
      /\ Len(bytes) = 0 /\ reader.cluster \in Clusters /\ Len(bytes) < ToRead
  BY DEF FatInv, PlaceInv, SkipCluster
<1>2. PICK n \in Nat : n * ClusterBytes + reader.skip = ask.offset /\ Walked(n)
  BY <1>1 DEF PlaceInv
<1>3. /\ ToRead' = ToRead /\ ToRead \in Nat /\ ask.offset \in Nat /\ reader.skip \in Nat
      /\ ClusterBytes \in Nat \ {0}
  BY <1>1, SameFile, ReadSizes, FatSizes DEF FatTyped
<1>4. BytesInv'
  BY <1>1 DEF BytesInv
<1>5. CASE reader.skip >= ClusterBytes
  <2>1. Follow("skipping", reader.skip - ClusterBytes)
    BY <1>5 DEF SkipCluster
  <2>2. /\ (n + 1) * ClusterBytes + (reader.skip - ClusterBytes) = ask.offset
        /\ (n + 1) * ClusterBytes <= ask.offset + Len(bytes)
        /\ reader.skip - ClusterBytes \in Nat /\ reader.skip - ClusterBytes <= ask.offset
    <3>1. (n + 1) * ClusterBytes = n * ClusterBytes + ClusterBytes /\ n * ClusterBytes \in Nat
      BY <1>3, OneMore
    <3>2. ASSUME NEW nb \in Nat, nb + reader.skip = ask.offset
          PROVE  /\ (nb + ClusterBytes) + (reader.skip - ClusterBytes) = ask.offset
                 /\ nb + ClusterBytes <= ask.offset
                 /\ reader.skip - ClusterBytes \in Nat /\ reader.skip - ClusterBytes <= ask.offset
      BY <1>3, <1>5, <3>2
    <3>3. ask.offset + Len(bytes) = ask.offset
      BY <1>1, <1>3
    <3> QED
      BY <1>2, <3>1, <3>2, <3>3
  <2>3. /\ DOMAIN reader' = {"at", "cluster", "skip"}
        /\ \/ /\ reader'.at = "skipping" /\ reader'.skip = reader.skip - ClusterBytes
              /\ reader'.cluster \in Clusters /\ Walked(n + 1)'
           \/ /\ reader'.at = "corrupt" /\ reader'.skip = reader.skip
              /\ links' = 0 => /\ ToRead' # 0
                               /\ \E m \in 0 .. LastOf' : NthCluster'[m] \notin Clusters
    BY <1>1, <1>2, <2>1, <2>2, FollowInv
  <2>4. FatTyped'
    BY <1>1, <1>3, <2>2, <2>3 DEF FatTyped
  <2>5. n + 1 \in Nat
    OBVIOUS
  <2>6. PlaceInv'
    BY <1>1, <1>3, <2>2, <2>3, <2>5 DEF PlaceInv
  <2> QED
    BY <1>4, <2>4, <2>6 DEF FatInv
<1>6. CASE ~(reader.skip >= ClusterBytes)
  <2>1. reader' = [reader EXCEPT !.at = "reading"]
    BY <1>6 DEF SkipCluster
  <2>2. FatTyped' /\ reader'.at = "reading" /\ reader'.skip = reader.skip /\ reader'.cluster = reader.cluster
    BY <1>1, <2>1 DEF FatTyped
  <2>3. Walked(n)'
    BY <1>1, <1>2, <2>2, SameFile DEF Walked
  <2>4. n * ClusterBytes + reader'.skip = ask'.offset + Len(bytes')
    BY <1>1, <1>2, <1>3, <2>2
  <2>5. reader'.skip < ClusterBytes
    BY <1>3, <1>6, <2>2
  <2>6. PlaceInv'
    BY <1>1, <1>3, <2>2, <2>3, <2>4, <2>5 DEF PlaceInv
  <2> QED
    BY <1>4, <2>2, <2>6 DEF FatInv
<1> QED
  BY <1>5, <1>6

LEMMA LinkInv == ASSUME FatInv, LinkCluster PROVE FatInv'
<1>1. /\ reader.at = "linking" /\ FatTyped /\ PlaceInv
      /\ UNCHANGED <<fat, file, ask, bytes, links>> /\ Follow("reading", 0)
      /\ reader.cluster \in Clusters /\ Len(bytes) < ToRead
  BY DEF FatInv, PlaceInv, LinkCluster
<1>2. PICK n \in Nat : (n + 1) * ClusterBytes = ask.offset + Len(bytes) /\ Walked(n)
  BY <1>1 DEF PlaceInv
<1>3. /\ ToRead' = ToRead /\ ToRead \in Nat /\ ask.offset \in Nat /\ Len(bytes) \in Nat
      /\ ClusterBytes \in Nat \ {0} /\ reader.skip <= ask.offset
  BY <1>1, SameFile, ReadSizes, FatSizes DEF PlaceInv
<1>4. BytesInv'
  BY <1>1, SameFile DEF BytesInv, FatInv
<1>5. n + 1 \in Nat /\ (n + 1) * ClusterBytes <= ask.offset + Len(bytes)
      /\ (n + 1) * ClusterBytes + 0 = ask.offset + Len(bytes)
  BY <1>2, <1>3
<1>6. /\ DOMAIN reader' = {"at", "cluster", "skip"}
      /\ \/ /\ reader'.at = "reading" /\ reader'.skip = 0
            /\ reader'.cluster \in Clusters /\ Walked(n + 1)'
         \/ /\ reader'.at = "corrupt" /\ reader'.skip = reader.skip
            /\ links' = 0 => /\ ToRead' # 0
                             /\ \E m \in 0 .. LastOf' : NthCluster'[m] \notin Clusters
  BY <1>1, <1>2, <1>5, FollowInv
<1>7. FatTyped'
  BY <1>1, <1>6 DEF FatTyped
<1>8. PlaceInv'
  <2>1. /\ reader'.skip <= ask'.offset /\ Len(bytes') <= ToRead' /\ Len(bytes') < ToRead'
    BY <1>1, <1>3, <1>6
  <2>2. CASE reader'.at = "reading"
    <3>1. \E k \in Nat : k * ClusterBytes + reader'.skip = ask'.offset + Len(bytes') /\ Walked(k)'
      BY <1>1, <1>5, <1>6, <2>2
    <3>2. reader'.skip < ClusterBytes /\ reader'.cluster \in Clusters
      BY <1>3, <1>6, <2>2
    <3> QED
      BY <2>1, <2>2, <3>1, <3>2 DEF PlaceInv
  <2>3. CASE reader'.at = "corrupt"
    BY <1>6, <2>1, <2>3 DEF PlaceInv
  <2> QED
    BY <1>6, <2>2, <2>3
<1> QED
  BY <1>4, <1>7, <1>8 DEF FatInv

LEMMA ReadInv == ASSUME FatInv, ReadCluster PROVE FatInv'
<1> DEFINE missing == ToRead - Len(bytes)
           here    == ClusterBytes - reader.skip
           chunk   == IF missing < here THEN missing ELSE here
           more    == [i \in 1 .. chunk |-> <<reader.cluster, reader.skip + i>>]
           l       == Len(bytes)
<1>1. /\ reader.at = "reading" /\ FatTyped /\ PlaceInv /\ BytesInv
      /\ UNCHANGED <<fat, file, ask, links>>
      /\ reader.cluster \in Clusters /\ Len(bytes) < ToRead
      /\ bytes' = bytes \o more
      /\ reader' = [reader EXCEPT !.at = IF chunk < missing THEN "linking" ELSE "done"]
  BY DEF FatInv, PlaceInv, ReadCluster
<1>2. PICK n \in Nat : n * ClusterBytes + reader.skip = ask.offset + l /\ Walked(n)
  BY <1>1 DEF PlaceInv
<1>3. /\ ToRead' = ToRead /\ ToRead \in Nat /\ ask.offset \in Nat /\ l \in Nat
      /\ ClusterBytes \in Nat \ {0} /\ reader.skip \in Nat /\ reader.skip < ClusterBytes
      /\ reader.skip <= ask.offset
  BY <1>1, SameFile, ReadSizes, FatSizes DEF FatTyped, PlaceInv
<1>4. chunk \in Nat /\ chunk <= missing /\ chunk <= here /\ chunk # 0
      /\ missing \in Nat /\ here \in Nat /\ missing # 0
      /\ (chunk < missing => chunk = here) /\ (~(chunk < missing) => chunk = missing)
  BY <1>1, <1>3
<1>5. n * ClusterBytes \in Nat /\ (n + 1) * ClusterBytes = n * ClusterBytes + ClusterBytes
  BY <1>3, OneMore
<1> HIDE DEF chunk
<1>6. /\ more \in Seq(Nat \X Nat) /\ Len(more) = chunk
      /\ \A j \in 1 .. chunk : more[j] = <<reader.cluster, reader.skip + j>>
  <2>1. \A j \in 1 .. chunk : <<reader.cluster, reader.skip + j>> \in Nat \X Nat
    BY <1>1, <1>3, FatSizes
  <2> QED
    BY <1>4, <2>1
<1> HIDE DEF more
<1>7. /\ bytes' \in Seq(Nat \X Nat) /\ Len(bytes') = l + chunk
      /\ \A i \in 1 .. l : bytes'[i] = bytes[i]
      /\ \A j \in 1 .. chunk : bytes'[l + j] = more[j]
  <2>1. bytes \in Seq(Nat \X Nat)
    BY <1>1 DEF FatTyped
  <2>2. /\ bytes' \in Seq(Nat \X Nat) /\ Len(bytes') = l + chunk
        /\ \A i \in 1 .. l + chunk : bytes'[i] = IF i <= l THEN bytes[i] ELSE more[i - l]
    BY <1>1, <1>4, <1>6, <2>1, ConcatProperties
  <2>3. ASSUME NEW i \in 1 .. l PROVE bytes'[i] = bytes[i]
    <3>1. i \in 1 .. l + chunk /\ i <= l
      BY <1>3, <1>4
    <3> QED
      BY <2>2, <3>1
  <2>4. ASSUME NEW j \in 1 .. chunk PROVE bytes'[l + j] = more[j]
    <3>1. l + j \in 1 .. l + chunk /\ ~(l + j <= l) /\ (l + j) - l = j
      BY <1>3, <1>4
    <3> QED
      BY <2>2, <3>1
  <2> QED
    BY <2>2, <2>3, <2>4
<1>8. /\ DOMAIN reader' = {"at", "cluster", "skip"}
      /\ reader'.skip = reader.skip /\ reader'.cluster = reader.cluster
      /\ reader'.at = IF chunk < missing THEN "linking" ELSE "done"
  BY <1>1 DEF FatTyped
<1>9. FatTyped'
  BY <1>1, <1>7, <1>8 DEF FatTyped
<1>10. ASSUME NEW j \in 1 .. chunk
       PROVE  (ask.offset + (l + j) - 1) \div ClusterBytes = n
              /\ (ask.offset + (l + j) - 1) % ClusterBytes = reader.skip + j - 1
  <2>1. reader.skip + j - 1 \in 0 .. ClusterBytes - 1
    <3>1. reader.skip \in Nat /\ ClusterBytes \in Nat /\ j \in Nat /\ 1 <= j
          /\ j <= ClusterBytes - reader.skip
      BY <1>3, <1>4
    <3> QED
      BY <3>1
  <2>2. ASSUME NEW nb \in Nat, nb + reader.skip = ask.offset + l
        PROVE  ask.offset + (l + j) - 1 = nb + (reader.skip + j - 1)
    <3>1. reader.skip \in Nat /\ ask.offset \in Nat /\ l \in Nat /\ j \in Nat
      BY <1>3, <1>4
    <3> QED
      BY <2>2, <3>1
  <2>3. ask.offset + (l + j) - 1 = n * ClusterBytes + (reader.skip + j - 1)
    BY <1>2, <1>5, <2>2
  <2>4. ClusterBytes \in Nat \ {0}
    BY <1>3
  <2>5. \A r \in 0 .. ClusterBytes - 1 :
          (n * ClusterBytes + r) \div ClusterBytes = n /\ (n * ClusterBytes + r) % ClusterBytes = r
    BY <2>4, DivMod
  <2>6. /\ (n * ClusterBytes + (reader.skip + j - 1)) \div ClusterBytes = n
        /\ (n * ClusterBytes + (reader.skip + j - 1)) % ClusterBytes = reader.skip + j - 1
    BY <2>1, <2>5, Zenon
  <2> QED
    BY <2>3, <2>6, Zenon
<1>11. Walked(n)'
  BY <1>1, <1>2, <1>8, SameFile DEF Walked
<1>12. BytesInv'
  <2> SUFFICES ASSUME links = 0, NEW i \in 1 .. Len(bytes') PROVE bytes'[i] = FileByte(i)
    BY <1>1, SameFile DEF BytesInv
  <2>1. CASE i \in 1 .. l
    BY <1>1, <1>7, <2>1 DEF BytesInv
  <2>2. CASE i \notin 1 .. l
    <3>1. PICK j \in 1 .. chunk : i = l + j
      <4>1. i - l \in 1 .. chunk /\ i = l + (i - l)
        BY <1>3, <1>4, <1>7, <2>2
      <4> QED
        BY <4>1
    <3>2. bytes'[i] = <<reader.cluster, reader.skip + j>>
      BY <1>6, <1>7, <3>1
    <3>3. NthCluster[n] = reader.cluster
      BY <1>2 DEF Walked
    <3>4. (reader.skip + j - 1) + 1 = reader.skip + j
      BY <1>3, <1>4
    <3> QED
      BY <1>10, <3>1, <3>2, <3>3, <3>4 DEF FileByte
  <2> QED
    BY <2>1, <2>2
<1>13. CASE chunk < missing
  <2>1. (n + 1) * ClusterBytes = ask'.offset + Len(bytes')
    <3>1. ASSUME NEW nb \in Nat, nb + reader.skip = ask.offset + l
          PROVE  nb + ClusterBytes = ask.offset + (l + chunk)
      <4>1. chunk = ClusterBytes - reader.skip
        BY <1>4, <1>13
      <4>2. reader.skip \in Nat /\ ask.offset \in Nat /\ l \in Nat /\ ClusterBytes \in Nat
        BY <1>3
      <4>3. chunk \in Int /\ nb + ClusterBytes = (nb + reader.skip) + chunk
        BY <4>1, <4>2
      <4>4. (ask.offset + l) + chunk = ask.offset + (l + chunk)
        BY <4>2, <4>3
      <4> QED
        BY <3>1, <4>3, <4>4
    <3> QED
      BY <1>1, <1>2, <1>5, <1>7, <3>1
  <2>2. Len(bytes') < ToRead'
    BY <1>3, <1>4, <1>7, <1>13
  <2>3. PlaceInv'
    <3>1. /\ reader'.at = "linking" /\ reader'.cluster \in Clusters /\ reader'.skip <= ask'.offset
          /\ Len(bytes') <= ToRead'
      BY <1>1, <1>3, <1>8, <1>13, <2>2, <1>9, ReadSizes
    <3> QED
      BY <1>11, <2>1, <2>2, <3>1 DEF PlaceInv
  <2> QED
    BY <1>9, <1>12, <2>3 DEF FatInv
<1>14. CASE ~(chunk < missing)
  <2>1. Len(bytes') = ToRead'
    BY <1>3, <1>4, <1>7, <1>14
  <2>2. LastOf' = n
    <3>1. ask.offset + ToRead - 1 = ask.offset + (l + chunk) - 1
      BY <1>3, <1>4, <1>14
    <3>2. chunk \in 1 .. chunk
      BY <1>4
    <3> QED
      BY <1>1, <1>10, <3>1, <3>2, SameFile DEF LastOf
  <2>3. PlaceInv'
    BY <1>1, <1>3, <1>8, <1>11, <1>14, <2>1, <2>2 DEF PlaceInv
  <2> QED
    BY <1>9, <1>12, <2>3 DEF FatInv
<1> QED
  BY <1>13, <1>14

(* Once the host relinked, only the places and the lengths are kept.       *)
LEMMA HostInv == ASSUME FatInv, HostLinks PROVE FatInv'
<1>1. /\ UNCHANGED <<file, ask, reader, bytes>> /\ links' = links + 1 /\ FatTyped /\ PlaceInv
      /\ reader.at \in {"skipping", "reading", "linking"}
  BY DEF FatInv, HostLinks
<1>2. links' \in Nat /\ links' # 0
  BY <1>1 DEF FatTyped
<1>3. FatTyped'
  BY <1>1, <1>2 DEF FatTyped
<1>4. \A n \in Nat : Walked(n)'
  BY <1>2 DEF Walked
<1>5. PlaceInv'
  BY <1>1, <1>2, <1>4, SameFile DEF PlaceInv
<1> QED
  BY <1>2, <1>3, <1>5 DEF FatInv, BytesInv

LEMMA FatInitInv == FatInit => FatInv
<1> SUFFICES ASSUME FatInit PROVE FatInv
  OBVIOUS
<1>1. /\ reader.at = "start" /\ reader.skip = 0 /\ bytes = << >> /\ links = 0 /\ Len(bytes) = 0
      /\ DOMAIN reader = {"at", "cluster", "skip"}
  BY DEF FatInit, ReadNothing
<1>2. FatTyped
  BY <1>1, FatSizes DEF FatInit, FatTyped
<1>3. PlaceInv
  BY <1>1, <1>2, ReadSizes DEF PlaceInv
<1>4. BytesInv
  BY <1>1 DEF BytesInv
<1> QED
  BY <1>2, <1>3, <1>4 DEF FatInv

LEMMA FatStep == FatInv /\ [FatNext]_fatVars => FatInv'
<1> SUFFICES ASSUME FatInv, [FatNext]_fatVars PROVE FatInv'
  OBVIOUS
<1>1. CASE UNCHANGED fatVars
  <2>1. UNCHANGED <<fat, file, ask, reader, bytes, links>>
    BY <1>1 DEF fatVars
  <2>2. FatTyped'
    BY <2>1 DEF FatInv, FatTyped
  <2>3. \A n : Walked(n) => Walked(n)'
    BY <2>1, SameFile DEF Walked
  <2>4. PlaceInv'
    BY <2>1, <2>3, SameFile DEF FatInv, PlaceInv
  <2>5. BytesInv'
    BY <2>1, SameFile DEF FatInv, BytesInv
  <2> QED
    BY <2>2, <2>4, <2>5 DEF FatInv
<1> QED
  BY <1>1, OpenInv, SkipInv, ReadInv, LinkInv, HostInv DEF FatNext

LEMMA FatInvHolds == FatInv => FileIsRead
<1> SUFFICES ASSUME FatInv PROVE FileIsRead
  OBVIOUS
<1>1. /\ Len(bytes) <= ToRead /\ reader.skip <= ask.offset
      /\ reader.at = "done" => Len(bytes) = ToRead
      /\ FatTyped
  BY DEF FatInv, PlaceInv
<1>2. ASSUME links = 0, reader.at \in {"done", "corrupt"}
      PROVE  LET last    == (ask.offset + ToRead - 1) \div ClusterBytes
                 reaches == ToRead = 0 \/ \A n \in 0 .. last : NthCluster[n] \in Clusters
             IN  /\ (reader.at = "done") <=> reaches
                 /\ reaches =>
                       bytes = [i \in 1 .. ToRead |->
                                  LET p == ask.offset + i - 1
                                  IN  <<NthCluster[p \div ClusterBytes], (p % ClusterBytes) + 1>>]
  <2> DEFINE reaches == ToRead = 0 \/ \A n \in 0 .. LastOf : NthCluster[n] \in Clusters
  <2>1. (reader.at = "done") <=> reaches
    BY <1>2 DEF FatInv, PlaceInv, Walked
  <2>2. ASSUME reaches
        PROVE  bytes = [i \in 1 .. ToRead |->
                          LET p == ask.offset + i - 1
                          IN  <<NthCluster[p \div ClusterBytes], (p % ClusterBytes) + 1>>]
    <3>1. Len(bytes) = ToRead
      BY <1>1, <2>1, <2>2
    <3>2. bytes = [i \in 1 .. Len(bytes) |-> bytes[i]]
      BY <1>1 DEF FatTyped
    <3>3. \A i \in 1 .. Len(bytes) : bytes[i] = FileByte(i)
      BY <1>2 DEF FatInv, BytesInv
    <3>4. bytes = [i \in 1 .. ToRead |-> FileByte(i)]
      BY <3>1, <3>2, <3>3
    <3> QED
      BY <3>4 DEF FileByte
  <2> QED
    BY <2>1, <2>2 DEF LastOf
<1> QED
  BY <1>1, <1>2 DEF FileIsRead

(* Whatever the chain looks like, and however the host relinks it, a read  *)
(* returns the bytes asked for or an error (src/fw/fat12.rs:458-470).      *)
THEOREM FileReadsItsChain == FatSpec => []FileIsRead
  BY FatInitInv, FatStep, FatInvHolds, PTL DEF FatSpec

(***************************************************************************)
(* The contact store at boot (ContactBoot): what the flash holds is blank, *)
(* of another format or this firmware's own, and each stage of init()      *)
(* leaves one of the three (StoreInv).                                     *)
(***************************************************************************)

(* What the flash holds while no operation on it has failed: nothing this  *)
(* firmware reads, a store of another record format, or one of its own.    *)
BlankStore ==
    /\ meta = NoMeta /\ \A i \in BootSlots : records[i] = "none"
    /\ boot.at \in {"off", "meta", "wipeHashes"} /\ (boot.at = "wipeHashes" => wiping)
ForeignStore ==
    /\ meta.format = "other"
    /\ boot.at \in {"off", "wipeSlots", "wipeMeta"} /\ (boot.at # "off" => wiping)
    /\ boot.at = "wipeSlots" => \A i \in BootSlots : i < boot.i => records[i] = "none"
    /\ boot.at = "wipeMeta" => \A i \in BootSlots : records[i] = "none"
OwnStore ==
    /\ meta.format = "this"
    /\ meta.capacity \in Nat \ {0} /\ meta.head \in 0 .. meta.capacity - 1
    /\ \A i \in BootSlots : records[i] # "other"
    /\ meta.capacity <= Capacity => meta.count = Cardinality(Live)
    /\ boot.at \in {"off", "meta", "deleteOrphans", "writeMeta", "ready"}
    /\ boot.at = "deleteOrphans" => boot.i >= Capacity /\ meta.capacity > Capacity
    /\ boot.at = "writeMeta" => boot.i = Cardinality(Live)
    /\ boot.at = "ready" => meta.capacity = Capacity

(* No record lies past the slots this firmware and the one before use.     *)
NoTail ==
    (~wiping /\ meta.format # "other") =>
        \A i \in AllSlots :
            (/\ i >= Capacity
             /\ \/ i >= meta.capacity
                \/ boot.at = "deleteOrphans" /\ i < boot.i
                \/ boot.at = "writeMeta") => records[i] = "none"

(* The index of a store that was wiped to the end.                         *)
HashesGone ==
    (wiping /\ ~begun /\ meta.format # "other") =>
        \A b \in Buckets : (boot.at = "wipeHashes" => b < boot.i) => hashes[b] = {}

BootTyped ==
    /\ kvErrors \in Nat
    /\ records = [i \in AllSlots |-> records[i]]
    /\ hashes = [b \in Buckets |-> hashes[b]]
BootStoreInv ==
    /\ BootTyped
    /\ kvErrors = 0 => /\ boot.i \in Nat
                       /\ BlankStore \/ ForeignStore \/ OwnStore
                       /\ NoTail /\ HashesGone

LEMMA BootSizes ==
    /\ Capacity \in Nat \ {0} /\ NumBuckets \in Nat \ {0} /\ OldCapacities \subseteq Nat \ {0}
    /\ MaxStarts \in Nat /\ MaxKvErrors \in Nat
  BY ContactBootAssumption

LEMMA SlotsAreNat ==
    /\ \A i \in AllSlots : i \in Nat
    /\ BootSlots = {i \in AllSlots : i < Capacity}
    /\ \A i \in BootSlots : i \in Nat /\ i < Capacity
    /\ \A b \in Buckets : b \in Nat /\ b < NumBuckets
<1>1. \A i \in AllSlots : i \in Nat
  BY BootSizes DEF AllSlots
<1>2. \A i \in BootSlots : i \in Nat /\ i < Capacity /\ i \in AllSlots
  BY BootSizes DEF AllSlots, BootSlots
<1>3. ASSUME NEW i \in AllSlots, i < Capacity PROVE i \in BootSlots
  BY <1>1, <1>3, BootSizes DEF BootSlots
<1> QED
  BY <1>1, <1>2, <1>3, BootSizes DEF Buckets

LEMMA LiveIsFinite ==
    /\ IsFiniteSet(Live) /\ Cardinality(Live) \in Nat
    /\ IsFiniteSet(Live)' /\ Cardinality(Live)' \in Nat
<1>1. IsFiniteSet(BootSlots)
  BY FS_Interval, BootSizes DEF BootSlots
<1>2. Live \subseteq BootSlots /\ Live' \subseteq BootSlots
  BY DEF Live
<1> QED
  BY <1>1, <1>2, FS_Subset, FS_CardinalityType

LEMMA Metas ==
    /\ NoMeta.format = "none" /\ NoMeta.capacity = 0
    /\ FreshMeta.format = "this" /\ FreshMeta.capacity = Capacity
    /\ FreshMeta.head = 0 /\ FreshMeta.count = 0
  BY DEF NoMeta, FreshMeta

LEMMA BootTypedStep == ASSUME BootTyped, BootNext PROVE BootTyped' /\ (kvErrors' = 0 => kvErrors = 0)
<1>1. kvErrors' \in Nat /\ (kvErrors' = 0 => kvErrors = 0)
  BY DEF BootTyped, BootNext, Detect, WipeSlot, WipeMeta, WipeBucket, CheckMeta, DeleteOrphan,
         WriteMeta, BootPowerLoss, BootKvOk, BootKvErr
<1>3. records' = [i \in AllSlots |-> records'[i]]
  BY DEF BootTyped, BootNext, Detect, WipeSlot, WipeMeta, WipeBucket, CheckMeta, DeleteOrphan,
         WriteMeta, BootPowerLoss
<1>4. hashes' = [b \in Buckets |-> hashes'[b]]
  BY DEF BootTyped, BootNext, Detect, WipeSlot, WipeMeta, WipeBucket, CheckMeta, DeleteOrphan,
         WriteMeta, BootPowerLoss
<1> QED
  BY <1>1, <1>3, <1>4 DEF BootTyped

LEMMA NoError == ASSUME BootTyped, kvErrors' = 0 PROVE ~BootKvErr
  BY DEF BootTyped, BootKvErr

StoreInv == boot.i \in Nat /\ (BlankStore \/ ForeignStore \/ OwnStore) /\ NoTail /\ HashesGone

LEMMA DetectStore == ASSUME BootTyped, StoreInv, Detect PROVE StoreInv'
<1>1. /\ boot.at = "off" /\ UNCHANGED <<records, meta, hashes, begun>>
      /\ boot' = IF meta # NoMeta /\ meta.format # "this" THEN BootAt("wipeSlots", 0) ELSE BootAt("meta", 0)
      /\ wiping' = (wiping \/ (meta # NoMeta /\ meta.format # "this"))
  BY DEF Detect
<1>2. Live' = Live
  BY <1>1 DEF Live
<1>3. CASE ForeignStore
  <2>3. meta # NoMeta /\ meta.format # "this"
    BY <1>3, Metas DEF ForeignStore
  <2>1. boot'.at = "wipeSlots" /\ boot'.i = 0 /\ meta'.format = "other" /\ wiping'
    BY <1>1, <1>3, <2>3 DEF ForeignStore, BootAt
  <2>2. \A i \in BootSlots : ~(i < 0)
    BY SlotsAreNat
  <2> QED
    <3>1. ForeignStore'
      BY <2>1, <2>2 DEF ForeignStore
    <3>2. NoTail' /\ HashesGone'
      BY <2>1 DEF NoTail, HashesGone
    <3> QED
      BY <2>1, <3>1, <3>2 DEF StoreInv
<1>4. CASE BlankStore \/ OwnStore
  <2>1. boot'.at = "meta" /\ boot'.i = 0 /\ (wiping' <=> wiping)
    <3>1. ~(meta # NoMeta /\ meta.format # "this")
      BY <1>4 DEF BlankStore, OwnStore
    <3>2. boot' = BootAt("meta", 0)
      BY <1>1, <3>1
    <3>3. wiping' = (wiping \/ FALSE)
      BY <1>1, <3>1
    <3> QED
      BY <3>2, <3>3 DEF BootAt
  <2>2. BlankStore => BlankStore'
    BY <1>1, <2>1 DEF BlankStore
  <2>3. OwnStore => OwnStore'
    BY <1>1, <1>2, <2>1 DEF OwnStore
  <2>4. NoTail'
    BY <1>1, <2>1 DEF StoreInv, NoTail
  <2>5. HashesGone'
    <3> SUFFICES ASSUME wiping', ~begun', meta'.format # "other", NEW b \in Buckets
                 PROVE  hashes'[b] = {}
      BY DEF HashesGone
    <3>1. wiping /\ ~begun /\ meta.format # "other"
      BY <1>1, <2>1
    <3> QED
      BY <1>1, <3>1 DEF StoreInv, HashesGone
  <2> QED
    BY <1>4, <2>1, <2>2, <2>3, <2>4, <2>5 DEF StoreInv
<1> QED
  BY <1>3, <1>4 DEF StoreInv

LEMMA WipeSlotStore ==
  ASSUME BootTyped, StoreInv, WipeSlot, kvErrors' = 0 PROVE StoreInv'
<1>1. /\ boot.at = "wipeSlots" /\ UNCHANGED <<meta, hashes, wiping, begun>>
      /\ records' = [records EXCEPT ![boot.i] = "none"]
      /\ boot' = IF boot.i + 1 < Capacity THEN BootAt("wipeSlots", boot.i + 1) ELSE BootAt("wipeMeta", 0)
  BY NoError DEF WipeSlot
<1>2. ForeignStore
  BY <1>1 DEF StoreInv, BlankStore, OwnStore
<1>3. \A j \in BootSlots : j < boot.i + 1 => records'[j] = "none"
  <2> SUFFICES ASSUME NEW j \in BootSlots, j < boot.i + 1 PROVE records'[j] = "none"
    OBVIOUS
  <2>1. j = boot.i \/ j < boot.i
    BY SlotsAreNat DEF StoreInv
  <2>2. j \in AllSlots
    BY SlotsAreNat
  <2> QED
    BY <1>1, <1>2, <2>1, <2>2 DEF ForeignStore, BootTyped
<1>4. ForeignStore' /\ boot'.i \in Nat
  <2>1. CASE boot.i + 1 < Capacity
    <3>1. boot'.at = "wipeSlots" /\ boot'.i = boot.i + 1
      BY <1>1, <2>1 DEF BootAt
    <3> QED
      BY <1>1, <1>2, <1>3, <3>1 DEF ForeignStore, StoreInv
  <2>2. CASE ~(boot.i + 1 < Capacity)
    <3>1. boot'.at = "wipeMeta" /\ boot'.i = 0
      BY <1>1, <2>2 DEF BootAt
    <3>2. \A j \in BootSlots : j < boot.i + 1
      BY <2>2, SlotsAreNat, BootSizes DEF StoreInv
    <3> QED
      BY <1>1, <1>2, <1>3, <3>1, <3>2 DEF ForeignStore
  <2> QED
    BY <2>1, <2>2
<1>5. NoTail' /\ HashesGone'
  BY <1>4 DEF ForeignStore, NoTail, HashesGone
<1> QED
  BY <1>4, <1>5 DEF StoreInv

LEMMA WipeMetaStore ==
  ASSUME BootTyped, StoreInv, WipeMeta, kvErrors' = 0 PROVE StoreInv'
<1>1. /\ boot.at = "wipeMeta" /\ UNCHANGED <<records, hashes, wiping, begun>>
      /\ meta' = NoMeta /\ boot' = BootAt("wipeHashes", 0)
  BY NoError DEF WipeMeta
<1>2. boot'.at = "wipeHashes" /\ boot'.i = 0
  BY <1>1 DEF BootAt
<1>3. ForeignStore
  BY <1>1 DEF StoreInv, BlankStore, OwnStore
<1>4. BlankStore'
  BY <1>1, <1>2, <1>3 DEF ForeignStore, BlankStore
<1>5. NoTail'
  BY <1>1, <1>3 DEF NoTail, ForeignStore
<1>6. HashesGone'
  BY <1>2, SlotsAreNat DEF HashesGone
<1> QED
  BY <1>2, <1>4, <1>5, <1>6 DEF StoreInv

LEMMA WipeBucketStore ==
  ASSUME BootTyped, StoreInv, WipeBucket, kvErrors' = 0 PROVE StoreInv'
<1>1. /\ boot.at = "wipeHashes" /\ UNCHANGED <<records, meta, wiping, begun>>
      /\ hashes' = [hashes EXCEPT ![boot.i] = {}]
      /\ boot' = IF boot.i + 1 < NumBuckets THEN BootAt("wipeHashes", boot.i + 1) ELSE BootAt("meta", 0)
  BY NoError DEF WipeBucket
<1>2. BlankStore
  BY <1>1 DEF StoreInv, ForeignStore, OwnStore
<1>3. \/ boot'.at = "wipeHashes" /\ boot'.i = boot.i + 1
      \/ boot'.at = "meta" /\ boot'.i = 0 /\ ~(boot.i + 1 < NumBuckets)
  BY <1>1 DEF BootAt
<1>4. boot'.i \in Nat
  BY <1>3 DEF StoreInv
<1>5. BlankStore'
  BY <1>1, <1>2, <1>3 DEF BlankStore
<1>6. NoTail'
  BY <1>1, <1>2 DEF NoTail, BlankStore
<1>7. HashesGone'
  <2> SUFFICES ASSUME wiping', ~begun', NEW b \in Buckets, boot'.at = "wipeHashes" => b < boot'.i
               PROVE  hashes'[b] = {}
    BY DEF HashesGone
  <2>1. b < boot.i + 1
    BY <1>3, SlotsAreNat, BootSizes DEF StoreInv
  <2>2. b = boot.i \/ b < boot.i
    BY <2>1, SlotsAreNat DEF StoreInv
  <2>3. b < boot.i => hashes[b] = {}
    BY <1>1, <1>2, Metas DEF StoreInv, HashesGone, BlankStore
  <2> QED
    BY <1>1, <2>2, <2>3 DEF BootTyped
<1> QED
  BY <1>4, <1>5, <1>6, <1>7 DEF StoreInv

LEMMA CheckMetaStore ==
  ASSUME BootTyped, StoreInv, CheckMeta, kvErrors' = 0 PROVE StoreInv'
<1>1. boot.at = "meta" /\ UNCHANGED <<records, hashes, wiping, begun>> /\ Live' = Live
  BY NoError DEF CheckMeta, Live
<1>2. ~ForeignStore
  BY <1>1 DEF ForeignStore
<1>3. CASE meta = NoMeta
  <2>1. meta' = FreshMeta /\ boot' = BootAt("ready", 0)
    BY <1>3, NoError DEF CheckMeta
  <2>2. boot'.at = "ready" /\ boot'.i = 0
    BY <2>1 DEF BootAt
  <2>3. BlankStore
    BY <1>2, <1>3, Metas DEF StoreInv, OwnStore
  <2>4. Live' = {} /\ Cardinality(Live)' = 0
    <3>1. Live' = {}
      BY <1>1, <2>3 DEF Live, BlankStore
    <3> QED
      BY <3>1, FS_EmptySet
  <2>5. OwnStore'
    BY <1>1, <2>1, <2>2, <2>3, <2>4, Metas, BootSizes DEF OwnStore, BlankStore
  <2>6. NoTail'
    BY <1>1, <1>3, <2>1, <2>2, Metas, SlotsAreNat, BootSizes DEF StoreInv, NoTail
  <2>7. HashesGone'
    BY <1>1, <1>3, <2>2, Metas DEF StoreInv, HashesGone
  <2> QED
    BY <2>2, <2>5, <2>6, <2>7 DEF StoreInv
<1>4. CASE meta # NoMeta
  <2>1. OwnStore
    BY <1>2, <1>4 DEF StoreInv, BlankStore
  <2>2. /\ meta' = meta
        /\ boot' = CASE meta.capacity = Capacity -> BootAt("ready", 0)
                     [] meta.capacity < Capacity -> BootAt("writeMeta", meta.count)
                     [] meta.capacity > Capacity -> BootAt("deleteOrphans", Capacity)
    BY <1>4, NoError DEF CheckMeta
  <2>3. CASE meta.capacity = Capacity
    <3>1. boot'.at = "ready" /\ boot'.i = 0
      BY <2>1, <2>2, <2>3, BootSizes DEF BootAt, OwnStore
    <3>2. OwnStore'
      BY <1>1, <2>1, <2>2, <2>3, <3>1 DEF OwnStore
    <3>3. NoTail' /\ HashesGone'
      BY <1>1, <2>2, <3>1 DEF StoreInv, NoTail, HashesGone
    <3> QED
      BY <3>1, <3>2, <3>3 DEF StoreInv
  <2>4. CASE meta.capacity < Capacity
    <3>1. boot'.at = "writeMeta" /\ boot'.i = meta.count
      BY <2>1, <2>2, <2>4, BootSizes DEF BootAt, OwnStore
    <3>2. boot'.i = Cardinality(Live) /\ boot'.i \in Nat
      BY <2>1, <2>4, <3>1, LiveIsFinite, BootSizes DEF OwnStore
    <3>3. OwnStore'
      BY <1>1, <2>1, <2>2, <3>1, <3>2 DEF OwnStore
    <3>4. NoTail' /\ HashesGone'
      <4>1. \A i \in AllSlots : i >= Capacity => i >= meta.capacity
        BY <2>1, <2>4, SlotsAreNat, BootSizes DEF OwnStore
      <4> QED
        BY <1>1, <2>2, <3>1, <4>1 DEF StoreInv, NoTail, HashesGone
    <3> QED
      BY <3>2, <3>3, <3>4 DEF StoreInv
  <2>5. CASE meta.capacity > Capacity
    <3>1. boot'.at = "deleteOrphans" /\ boot'.i = Capacity
      BY <2>1, <2>2, <2>5, BootSizes DEF BootAt, OwnStore
    <3>2. OwnStore'
      BY <1>1, <2>1, <2>2, <2>5, <3>1, BootSizes DEF OwnStore
    <3>3. NoTail' /\ HashesGone'
      <4>1. \A i \in AllSlots : ~(i >= Capacity /\ i < Capacity)
        BY SlotsAreNat, BootSizes
      <4> QED
        BY <1>1, <2>2, <3>1, <4>1 DEF StoreInv, NoTail, HashesGone
    <3> QED
      BY <3>1, <3>2, <3>3, BootSizes DEF StoreInv
  <2> QED
    BY <2>1, <2>3, <2>4, <2>5, BootSizes DEF OwnStore
<1> QED
  BY <1>3, <1>4

LEMMA DeleteOrphanStore ==
  ASSUME BootTyped, StoreInv, DeleteOrphan, kvErrors' = 0 PROVE StoreInv'
<1>1. /\ boot.at = "deleteOrphans" /\ UNCHANGED <<meta, hashes, wiping, begun>>
      /\ records' = [records EXCEPT ![boot.i] = "none"]
      /\ boot' = IF boot.i + 1 < meta.capacity THEN BootAt("deleteOrphans", boot.i + 1)
                 ELSE BootAt("writeMeta", Cardinality(Live))
  BY NoError DEF DeleteOrphan
<1>2. OwnStore /\ boot.i >= Capacity /\ meta.capacity > Capacity /\ boot.i \in Nat
  BY <1>1 DEF StoreInv, BlankStore, ForeignStore, OwnStore
<1>3. \A i \in BootSlots : records'[i] = records[i]
  BY <1>1, <1>2, SlotsAreNat, BootSizes DEF BootTyped
<1>4. Live' = Live
  BY <1>3 DEF Live
<1>5. \/ boot'.at = "deleteOrphans" /\ boot'.i = boot.i + 1
      \/ /\ boot'.at = "writeMeta" /\ boot'.i = Cardinality(Live)
         /\ ~(boot.i + 1 < meta.capacity)
  BY <1>1 DEF BootAt
<1>6. boot'.i \in Nat
  BY <1>2, <1>5, LiveIsFinite
<1>7. OwnStore'
  BY <1>1, <1>2, <1>3, <1>4, <1>5, BootSizes DEF OwnStore
<1>8. NoTail'
  <2> SUFFICES ASSUME ~wiping', NEW i \in AllSlots, i >= Capacity,
                      \/ i >= meta.capacity
                      \/ boot'.at = "deleteOrphans" /\ i < boot'.i
                      \/ boot'.at = "writeMeta"
               PROVE  records'[i] = "none"
    BY <1>1 DEF NoTail
  <2>1. i >= meta.capacity \/ i < boot.i + 1
    BY <1>2, <1>5, SlotsAreNat DEF OwnStore
  <2>2. i >= meta.capacity \/ i < boot.i \/ i = boot.i
    BY <1>2, <2>1, SlotsAreNat
  <2>3. i >= meta.capacity \/ i < boot.i => records[i] = "none"
    BY <1>1, <1>2 DEF StoreInv, NoTail, OwnStore
  <2> QED
    BY <1>1, <2>2, <2>3 DEF BootTyped
<1>9. HashesGone'
  BY <1>1, <1>5 DEF StoreInv, HashesGone
<1> QED
  BY <1>6, <1>7, <1>8, <1>9 DEF StoreInv

LEMMA WriteMetaStore ==
  ASSUME BootTyped, StoreInv, WriteMeta, kvErrors' = 0 PROVE StoreInv'
<1>1. /\ boot.at = "writeMeta" /\ UNCHANGED <<records, hashes, wiping, begun>>
      /\ meta' = [capacity |-> Capacity, count |-> boot.i, format |-> "this",
                  head |-> IF meta.head < Capacity THEN meta.head ELSE Capacity - 1]
      /\ boot' = BootAt("ready", 0) /\ Live' = Live
  BY NoError DEF WriteMeta, Live
<1>2. OwnStore
  BY <1>1 DEF StoreInv, BlankStore, ForeignStore
<1>3. boot'.at = "ready" /\ boot'.i = 0
  BY <1>1 DEF BootAt
<1>4. /\ meta'.capacity = Capacity /\ meta'.count = boot.i /\ meta'.format = "this"
      /\ meta'.head \in 0 .. Capacity - 1
  <2>1. meta.head \in Nat
    BY <1>2 DEF OwnStore
  <2>2. (IF meta.head < Capacity THEN meta.head ELSE Capacity - 1) \in 0 .. Capacity - 1
    BY <2>1, BootSizes
  <2> QED
    BY <1>1, <2>2
<1>5. OwnStore'
  BY <1>1, <1>2, <1>3, <1>4, BootSizes DEF OwnStore
<1>6. NoTail'
  BY <1>1, <1>2, <1>3, <1>4 DEF StoreInv, NoTail, OwnStore
<1>7. HashesGone'
  BY <1>1, <1>2, <1>3, <1>4 DEF StoreInv, HashesGone, OwnStore
<1> QED
  BY <1>3, <1>5, <1>6, <1>7 DEF StoreInv

LEMMA PowerLossStore ==
  ASSUME BootTyped, StoreInv, BootPowerLoss PROVE StoreInv'
<1>1. /\ boot.at # "off" /\ boot' = BootAt("off", 0)
      /\ begun' = (begun \/ boot.at = "wipeHashes")
      /\ UNCHANGED <<records, meta, hashes, wiping>> /\ Live' = Live
  BY DEF BootPowerLoss, Live
<1>2. boot'.at = "off" /\ boot'.i = 0
  BY <1>1 DEF BootAt
<1>3. /\ BlankStore => BlankStore'
      /\ ForeignStore => ForeignStore'
      /\ OwnStore => OwnStore'
  BY <1>1, <1>2 DEF BlankStore, ForeignStore, OwnStore
<1>4. NoTail'
  BY <1>1, <1>2 DEF StoreInv, NoTail
<1>5. HashesGone'
  <2> SUFFICES ASSUME wiping', ~begun', meta'.format # "other", NEW b \in Buckets
               PROVE  hashes'[b] = {}
    BY DEF HashesGone
  <2>1. wiping /\ ~begun /\ meta.format # "other" /\ boot.at # "wipeHashes"
    BY <1>1
  <2> QED
    BY <1>1, <2>1 DEF StoreInv, HashesGone
<1> QED
  BY <1>2, <1>3, <1>4, <1>5 DEF StoreInv

LEMMA BootInitStore == BootInit => BootTyped /\ StoreInv
<1> SUFFICES ASSUME BootInit PROVE BootTyped /\ StoreInv
  OBVIOUS
<1>1. boot.at = "off" /\ boot.i = 0 /\ ~wiping /\ ~begun /\ kvErrors = 0
  BY DEF BootInit, SwitchedOff, BootAt
<1>3. CASE NoStore
  <2>1. BootTyped
    BY <1>1, <1>3 DEF NoStore, BootTyped
  <2>2. \A i \in BootSlots : records[i] = "none"
    BY <1>3, SlotsAreNat DEF NoStore
  <2>3. BlankStore
    BY <1>1, <1>3, <2>2 DEF NoStore, BlankStore
  <2>4. NoTail /\ HashesGone
    BY <1>1, <1>3 DEF NoStore, NoTail, HashesGone
  <2> QED
    BY <1>1, <2>1, <2>3, <2>4 DEF StoreInv
<1>4. ASSUME NEW cap \in OldCapacities \cup {Capacity}, NEW f \in Formats,
             NEW used \in SUBSET {i \in AllSlots : i < cap}, NEW head \in 0 .. cap - 1,
             StoreOf(cap, f, used, head)
      PROVE  BootTyped /\ StoreInv
  <2>1. BootTyped
    BY <1>1, <1>4 DEF StoreOf, BootTyped
  <2>2. /\ meta.capacity = cap /\ meta.head = head /\ meta.count = Cardinality(used) /\ meta.format = f
        /\ \A i \in AllSlots : records[i] = IF i \in used THEN f ELSE "none"
    BY <1>4 DEF StoreOf
  <2>3. HashesGone
    BY <1>1 DEF HashesGone
  <2>4. cap \in Nat \ {0}
    BY BootSizes
  <2>5. NoTail
    <3>1. \A i \in AllSlots : i >= cap => i \notin used
      BY <2>4, SlotsAreNat
    <3> QED
      BY <1>1, <2>2, <3>1 DEF NoTail
  <2>6. CASE f = "other"
    BY <1>1, <2>1, <2>2, <2>3, <2>5, <2>6 DEF StoreInv, ForeignStore
  <2>7. CASE f = "this"
    <3>1. cap <= Capacity => Live = used
      <4> SUFFICES ASSUME cap <= Capacity PROVE Live = used
        OBVIOUS
      <4>1. \A i \in used : i \in BootSlots
        BY <2>4, SlotsAreNat, BootSizes
      <4> QED
        BY <2>2, <2>7, <4>1, SlotsAreNat DEF Live
    <3>2. \A i \in BootSlots : records[i] # "other"
      BY <2>2, <2>7, SlotsAreNat
    <3>3. OwnStore
      BY <1>1, <2>2, <2>4, <2>7, <3>1, <3>2 DEF OwnStore
    <3> QED
      BY <1>1, <2>1, <2>3, <2>5, <3>3 DEF StoreInv
  <2> QED
    BY <2>6, <2>7 DEF Formats
<1> QED
  BY <1>3, <1>4 DEF BootInit

LEMMA BootInitInv == BootInit => BootStoreInv
  BY BootInitStore DEF BootStoreInv, StoreInv

LEMMA BootStep == BootStoreInv /\ [BootNext]_bootVars => BootStoreInv'
<1> SUFFICES ASSUME BootStoreInv, [BootNext]_bootVars PROVE BootStoreInv'
  OBVIOUS
<1>1. CASE UNCHANGED bootVars
  BY <1>1 DEF bootVars, BootStoreInv, BootTyped, BlankStore, ForeignStore, OwnStore, NoTail, HashesGone, Live
<1>2. CASE BootNext
  <2>1. BootTyped /\ BootTyped' /\ (kvErrors' = 0 => kvErrors = 0)
    BY <1>2, BootTypedStep DEF BootStoreInv
  <2>2. ASSUME kvErrors' = 0 PROVE StoreInv'
    <3>1. StoreInv
      BY <2>1, <2>2 DEF BootStoreInv, StoreInv
    <3> QED
      BY <1>2, <2>1, <2>2, <3>1, DetectStore, WipeSlotStore, WipeMetaStore, WipeBucketStore,
         CheckMetaStore, DeleteOrphanStore, WriteMetaStore, PowerLossStore DEF BootNext
  <2> QED
    BY <2>1, <2>2 DEF BootStoreInv, StoreInv
<1> QED
  BY <1>1, <1>2

LEMMA BootInvHolds == BootStoreInv => StoreIsReadable
<1> SUFFICES ASSUME BootStoreInv, boot.at = "ready", kvErrors = 0 PROVE StoreIsReadable
  BY DEF StoreIsReadable
<1>1. OwnStore /\ NoTail /\ HashesGone
  BY DEF BootStoreInv, BlankStore, ForeignStore
<1>2. meta.capacity = Capacity /\ meta.format = "this" /\ meta.count = Cardinality(Live)
      /\ meta.head \in BootSlots
  BY <1>1, BootSizes DEF OwnStore, BootSlots
<1>3. (wiping /\ ~begun) => \A b \in Buckets : hashes[b] = {}
  BY <1>1, <1>2 DEF HashesGone
<1>4. ~wiping => \A i \in AllSlots \ BootSlots : records[i] = "none"
  <2>1. \A i \in AllSlots \ BootSlots : i >= Capacity
    BY SlotsAreNat, BootSizes
  <2> QED
    BY <1>1, <1>2, <2>1 DEF NoTail
<1> QED
  BY <1>1, <1>2, <1>3, <1>4 DEF StoreIsReadable, OwnStore

(* Whatever store the firmware before left, and whenever the power went    *)
(* during a wipe or a migration, once init() is through this firmware      *)
(* reads every record there is (contacts.rs:852-861).                      *)
THEOREM StoreStaysReadable == BootSpec => []StoreIsReadable
  BY BootInitInv, BootStep, BootInvHolds, PTL DEF BootSpec

(***************************************************************************)
(* The four of them beside the rest of the badge (MCDevice).               *)
(***************************************************************************)

FlashInv ==
    /\ part = "firmware" => DfuInv
    /\ part = "drive" => DriveInv
    /\ part = "file" => FatInv
    /\ part = "boot" => BootStoreInv

LEMMA FlashStep == FlashInv /\ [DeviceNext]_deviceVars => FlashInv'
<1> SUFFICES ASSUME FlashInv, [DeviceNext]_deviceVars PROVE FlashInv'
  OBVIOUS
<1>1. UNCHANGED part
  BY DEF DeviceNext, deviceVars
<1>2. /\ part = "firmware" => [DfuNext]_dfuVars
      /\ part = "drive" => [DriveNext]_driveVars
      /\ part = "file" => [FatNext]_fatVars
      /\ part = "boot" => [BootNext]_bootVars
  <2>1. CASE UNCHANGED deviceVars
    BY <2>1 DEF deviceVars, flashVars
  <2>2. CASE DeviceNext
    BY <2>2 DEF DeviceNext
  <2> QED
    BY <2>1, <2>2
<1>3. CASE part = "firmware"
  BY <1>1, <1>2, <1>3, DfuStep DEF FlashInv
<1>4. CASE part = "drive"
  BY <1>1, <1>2, <1>4, DriveStep DEF FlashInv
<1>5. CASE part = "file"
  BY <1>1, <1>2, <1>5, FatStep DEF FlashInv
<1>6. CASE part = "boot"
  BY <1>1, <1>2, <1>6, BootStep DEF FlashInv
<1> QED
  BY <1>1, <1>3, <1>4, <1>5, <1>6 DEF FlashInv

(* What the badge keeps in flash survives requests, writes, power losses   *)
(* and new firmware: the image behind a green LED, the blocks of the       *)
(* drive, the files on it and the contact store at boot (dfu.rs,           *)
(* usb_storage.rs, fat12.rs, contacts.rs).                                 *)
THEOREM FlashStaysSound == DeviceSpec => []FlashIsSound
<1>1. DeviceInit => FlashInv
  <2> SUFFICES ASSUME DeviceInit PROVE FlashInv
    OBVIOUS
  <2>1. DfuInit /\ DriveInit /\ (part = "file" => FatInit) /\ (part = "boot" => BootInit)
    BY DEF DeviceInit
  <2> QED
    BY <2>1, DfuInitInv, DriveInitInv, FatInitInv, BootInitInv DEF FlashInv
<1>2. FlashInv => FlashIsSound
  BY DfuInvHolds, DriveInvHolds, FatInvHolds, BootInvHolds DEF FlashInv, FlashIsSound
<1> QED
  BY <1>1, <1>2, FlashStep, PTL DEF DeviceSpec
=============================================================================
