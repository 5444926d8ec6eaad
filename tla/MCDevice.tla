------------------------------ MODULE MCDevice ------------------------------
(* The parts of the badge around the mesh for TLC.  They share no variable *)
(* here: a behaviour is one of one part, the others resting in their       *)
(* initial states, and a run of their union checks every part at its own   *)
(* bounds.                                                                 *)
EXTENDS MsgQueue, Settings, Alarms, Calendar, ContactScreen,
        Dfu, UsbDrive, FatFile, ContactBoot, TLC

CONSTANTS k1, k2, k3

VARIABLE part

(* Events of ALARMS.ICS: one that rings, and files for the calendar. *)
MCEvents == 1 :> [day |-> 0, hour |-> 0, minute |-> 1]
At(d, h) == [day |-> d, hour |-> h]
MCFiles ==
    { << >>,
      << [start |-> At(0, 0), end |-> At(0, 1), utc |-> FALSE],
         [start |-> At(0, 3), end |-> At(1, 0), utc |-> TRUE],
         [start |-> At(0, 2), end |-> At(0, 2), utc |-> TRUE] >> }

(* Two chat nodes and a repeater, one of them stored. *)
MCNodeType == k1 :> "chat" @@ k2 :> "chat" @@ k3 :> "repeater"
MCStores == {<<[key |-> k1, fav |-> FALSE], NoContact>>}

(* The bucket of the contact in each slot of the store found at boot. *)
MCBucketOf == 0 :> 0 @@ 1 :> 1 @@ 2 :> 0 @@ 3 :> 1

(* The parts with many initial states have one while another is looked at. *)
DeviceInit ==
    /\ part \in {"queue", "settings", "alarms", "calendar", "contacts",
                "firmware", "drive", "file", "boot"}
    /\ Init /\ SettingsInit /\ AlarmInit /\ CalInit /\ ScreenInit
    /\ part # "calendar" => (now = NoHour /\ agenda = Import(<< >>))
    /\ part # "alarms" => slots[0].on = FALSE
    /\ DfuInit /\ DriveInit
    /\ part # "firmware" => slot[1] = Blank
    /\ part # "drive" => chip[BootBlock] = Erased
    /\ IF part = "file" THEN FatInit
       ELSE /\ fat = [c \in Clusters |-> End] /\ file = [first |-> End, size |-> 0]
            /\ ask = [offset |-> 0, len |-> 1] /\ ReadNothing
    /\ IF part = "boot" THEN BootInit ELSE NoStore /\ SwitchedOff

flashVars == <<dfuVars, driveVars, fatVars, bootVars>>
DeviceNext ==
    /\ UNCHANGED part
    /\ \/ /\ part = "queue" /\ Next
          /\ UNCHANGED <<setVars, alarmVars, calVars, screenVars, flashVars>>
       \/ /\ part = "settings" /\ SettingsNext
          /\ UNCHANGED <<queueVars, alarmVars, calVars, screenVars, flashVars>>
       \/ /\ part = "alarms" /\ AlarmNext
          /\ UNCHANGED <<queueVars, setVars, calVars, screenVars, flashVars>>
       \/ /\ part = "calendar" /\ CalNext
          /\ UNCHANGED <<queueVars, setVars, alarmVars, screenVars, flashVars>>
       \/ /\ part = "contacts" /\ ScreenNext
          /\ UNCHANGED <<queueVars, setVars, alarmVars, calVars, flashVars>>
       \/ /\ part \in {"firmware", "drive", "file", "boot"}
          /\ UNCHANGED <<queueVars, setVars, alarmVars, calVars, screenVars>>
          /\ \/ part = "firmware" /\ DfuNext /\ UNCHANGED <<driveVars, fatVars, bootVars>>
             \/ part = "drive" /\ DriveNext /\ UNCHANGED <<dfuVars, fatVars, bootVars>>
             \/ part = "file" /\ FatNext /\ UNCHANGED <<dfuVars, driveVars, bootVars>>
             \/ part = "boot" /\ BootNext /\ UNCHANGED <<dfuVars, driveVars, fatVars>>

deviceVars == <<queueVars, setVars, alarmVars, calVars, screenVars, flashVars, part>>
DeviceSpec == DeviceInit /\ [][DeviceNext]_deviceVars

(* What the badge keeps in flash survives requests, writes, power losses   *)
(* and new firmware: a green LED means an image that is whole              *)
(* (bootloader/src/dfu.rs), the drive holds what was written to it         *)
(* (src/fw/usb_storage.rs), a file reads as its chain says                 *)
(* (src/fw/fat12.rs), and the contact store is readable once init() is     *)
(* through (src/fw/mesh/contacts.rs).                                      *)
FlashIsSound ==
    /\ part = "firmware" => GreenMeansFlashed
    /\ part = "drive" => DriveHolds
    /\ part = "file" => FileIsRead
    /\ part = "boot" => StoreIsReadable
=============================================================================
