----------------------------- MODULE ContactBoot -----------------------------
(* What the contact store does at boot to a store another firmware wrote   *)
(* (ContactStore::init of src/fw/mesh/contacts.rs): records of another     *)
(* format are wiped, a store of another capacity is migrated, key by key   *)
(* and from the start again after a power loss in the middle.              *)
(*                                                                         *)
(* Abstractions: a record is of this firmware's format or of another one;  *)
(* a bucket of the hash index is the set of slots it names.  Nobody else   *)
(* writes the store yet (the popup's edits need a contact to be shown).    *)
EXTENDS Integers, FiniteSets

CONSTANTS
    Capacity,      \* MAX_CONTACTS of this firmware
    OldCapacities, \* those of the firmware before it
    NumBuckets,    \* first bytes of public keys
    BucketOf,      \* [slots -> Buckets]: of the contact in each slot
    MaxStarts,     \* bound: boots
    MaxKvErrors    \* bound: failed flash operations

Buckets == 0 .. NumBuckets - 1
BootSlots == 0 .. Capacity - 1
AllSlots == UNION {0 .. n - 1 : n \in OldCapacities \cup {Capacity}}

ASSUME ContactBootAssumption ==
    /\ {Capacity, NumBuckets} \subseteq Nat \ {0} /\ OldCapacities \subseteq Nat \ {0}
    /\ BucketOf \in [AllSlots -> Buckets]
    /\ {MaxStarts, MaxKvErrors} \subseteq Nat

Formats == {"this", "other"}
NoMeta == [capacity |-> 0, head |-> 0, count |-> 0, format |-> "none"]

VARIABLES
    records,   \* the slot keys: slot -> a format, or "none"
    meta,      \* the meta record
    hashes,    \* the hash index: bucket -> slots
    boot,      \* init(): [at, i], the step and the key it has come to
    wiping,    \* history: what was wiped was a store of another format
    begun,     \* history: the power went during a wipe
    starts, kvErrors

bootVars == <<records, meta, hashes, boot, wiping, begun, starts, kvErrors>>

BootAt(place, i) == [at |-> place, i |-> i]
Live == {i \in BootSlots : records[i] = "this"}

NoStore ==
    /\ records = [i \in AllSlots |-> "none"]
    /\ hashes = [b \in Buckets |-> {}]
    /\ meta = NoMeta

(* What a firmware of some capacity and record format left. *)
StoreOf(cap, f, used, head) ==
    /\ records = [i \in AllSlots |-> IF i \in used THEN f ELSE "none"]
    /\ hashes = [b \in Buckets |-> {i \in used : BucketOf[i] = b}]
    /\ meta = [capacity |-> cap, head |-> head, count |-> Cardinality(used), format |-> f]

SwitchedOff ==
    /\ boot = BootAt("off", 0)
    /\ wiping = FALSE /\ begun = FALSE
    /\ starts = 0 /\ kvErrors = 0

BootInit ==
    /\ \/ NoStore
       \/ \E cap \in OldCapacities \cup {Capacity}, f \in Formats :
          \E used \in SUBSET {i \in AllSlots : i < cap}, head \in 0 .. cap - 1 :
             StoreOf(cap, f, used, head)
    /\ SwitchedOff

BootKvOk == UNCHANGED kvErrors
BootKvErr == kvErrors < MaxKvErrors /\ kvErrors' = kvErrors + 1

-----------------------------------------------------------------------------
(* detect_legacy_records: by the one byte in meta. *)
Detect ==
    /\ boot.at = "off" /\ starts < MaxStarts
    /\ starts' = starts + 1
    /\ LET legacy == meta # NoMeta /\ meta.format # "this" IN
       /\ boot' = IF legacy THEN BootAt("wipeSlots", 0) ELSE BootAt("meta", 0)
       /\ wiping' = (wiping \/ legacy)
    /\ UNCHANGED <<records, meta, hashes, begun, kvErrors>>

(* wipe_contact_store: every slot key, then meta, then the hash buckets;   *)
(* a delete that fails is passed over.                                     *)
WipeSlot ==
    /\ boot.at = "wipeSlots"
    /\ \/ BootKvOk /\ records' = [records EXCEPT ![boot.i] = "none"]
       \/ BootKvErr /\ UNCHANGED records
    /\ boot' = IF boot.i + 1 < Capacity THEN BootAt("wipeSlots", boot.i + 1) ELSE BootAt("wipeMeta", 0)
    /\ UNCHANGED <<meta, hashes, wiping, begun, starts>>

WipeMeta ==
    /\ boot.at = "wipeMeta"
    /\ \/ BootKvOk /\ meta' = NoMeta
       \/ BootKvErr /\ UNCHANGED meta
    /\ boot' = BootAt("wipeHashes", 0)
    /\ UNCHANGED <<records, hashes, wiping, begun, starts>>

WipeBucket ==
    /\ boot.at = "wipeHashes"
    /\ \/ BootKvOk /\ hashes' = [hashes EXCEPT ![boot.i] = {}]
       \/ BootKvErr /\ UNCHANGED hashes
    /\ boot' = IF boot.i + 1 < NumBuckets THEN BootAt("wipeHashes", boot.i + 1) ELSE BootAt("meta", 0)
    /\ UNCHANGED <<records, meta, wiping, begun, starts>>

(* init(), step 2: a fresh record, a migration, or nothing.  A fresh       *)
(* record that cannot be written has the whole flash store wiped.          *)
FreshMeta == [capacity |-> Capacity, head |-> 0, count |-> 0, format |-> "this"]
CheckMeta ==
    /\ boot.at = "meta"
    /\ \/ /\ meta = NoMeta /\ BootKvOk
          /\ meta' = FreshMeta /\ boot' = BootAt("ready", 0)
          /\ UNCHANGED <<records, hashes>>
       \/ /\ meta = NoMeta /\ BootKvErr
          /\ records' = [i \in AllSlots |-> "none"]
          /\ hashes' = [b \in Buckets |-> {}]
          /\ boot' = BootAt("off", 0) /\ UNCHANGED meta
       \/ /\ meta # NoMeta /\ BootKvOk
          /\ boot' = CASE meta.capacity = Capacity -> BootAt("ready", 0)
                       [] meta.capacity < Capacity -> BootAt("writeMeta", meta.count)
                       [] meta.capacity > Capacity -> BootAt("deleteOrphans", Capacity)
          /\ UNCHANGED <<records, meta, hashes>>
    /\ UNCHANGED <<wiping, begun, starts>>

(* migrate(), shrinking: the slots past the capacity go, what stays is     *)
(* counted anew.                                                           *)
DeleteOrphan ==
    /\ boot.at = "deleteOrphans"
    /\ \/ BootKvOk /\ records' = [records EXCEPT ![boot.i] = "none"]
       \/ BootKvErr /\ UNCHANGED records
    /\ boot' = IF boot.i + 1 < meta.capacity THEN BootAt("deleteOrphans", boot.i + 1)
               ELSE BootAt("writeMeta", Cardinality(Live))
    /\ UNCHANGED <<meta, hashes, wiping, begun, starts>>

(* migrate(), both ways: the new record, with the count found. *)
WriteMeta ==
    /\ boot.at = "writeMeta"
    /\ \/ /\ BootKvOk
          /\ meta' = [capacity |-> Capacity, count |-> boot.i, format |-> "this",
                      head |-> IF meta.head < Capacity THEN meta.head ELSE Capacity - 1]
       \/ BootKvErr /\ UNCHANGED meta
    /\ boot' = BootAt("ready", 0)
    /\ UNCHANGED <<records, hashes, wiping, begun, starts>>

(* The power goes, or the badge is switched off. *)
BootPowerLoss ==
    /\ boot.at # "off" /\ boot' = BootAt("off", 0)
    /\ begun' = (begun \/ boot.at = "wipeHashes")
    /\ UNCHANGED <<records, meta, hashes, wiping, starts, kvErrors>>

BootNext ==
    \/ Detect \/ WipeSlot \/ WipeMeta \/ WipeBucket
    \/ CheckMeta \/ DeleteOrphan \/ WriteMeta \/ BootPowerLoss

BootSpec == BootInit /\ [][BootNext]_bootVars

-----------------------------------------------------------------------------
(* When init() is through, whatever power losses came before, this         *)
(* firmware can read what it finds (contacts.rs:852-861): every record of  *)
(* its slots is of its format, meta says its capacity and the number of    *)
(* records there are, and the oldest slot it points to exists.  Failed     *)
(* flash operations are excused.  After a wipe the hash index is empty,    *)
(* unless the power went once meta was gone and the buckets were not: the  *)
(* next boot takes the store for a fresh one.                              *)
StoreIsReadable ==
    (boot.at = "ready" /\ kvErrors = 0) =>
        /\ \A i \in BootSlots : records[i] # "other"
        /\ meta.capacity = Capacity /\ meta.format = "this"
        /\ meta.count = Cardinality(Live)
        /\ meta.head \in BootSlots
        /\ (wiping /\ ~begun) => \A b \in Buckets : hashes[b] = {}
        /\ ~wiping => \A i \in AllSlots \ BootSlots : records[i] = "none"
=============================================================================
