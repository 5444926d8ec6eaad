------------------------------ MODULE UsbDrive ------------------------------
(* The drive the badge shows over USB: blocks of a FAT partition on a NOR  *)
(* flash chip (src/fw/usb_storage.rs, src/fw/flash.rs), written by the     *)
(* host block by block (WRITE_10 of src/fw/usb_msc.rs) and formatted by    *)
(* the badge when it boots without a volume (src/fw/fat12.rs).  An erase   *)
(* sets every bit of a sector, a write clears bits.  The power goes, or    *)
(* the chip reports an error, at any step.                                 *)
(*                                                                         *)
(* Abstractions: a block is the set of its bits that are 1; a boot block   *)
(* with a valid geometry, a fresh FAT and a fresh directory are one        *)
(* content each.  Reads change nothing and are left out.                   *)
EXTENDS Naturals, Sequences, FiniteSets

CONSTANTS
    Bits,          \* the bits of a block
    Sectors,       \* erase sectors of the partition
    PerSector,     \* blocks of a sector
    BootData,      \* the contents format() writes: boot sector,
    FatData,       \* FAT
    DirData,       \* and root directory
    MaxWrites,     \* bound: writes of the host
    MaxMounts      \* bound: boots

Erased == Bits
DriveBlocks == 0 .. Sectors * PerSector - 1
SectorOf(b) == {c \in DriveBlocks : c \div PerSector = b \div PerSector}

(* The layout in small: the boot sector and the FAT share the first erase  *)
(* sector, the root directory is in the second with the first data.        *)
BootBlock == 0
FatBlock == 1
DirBlock == PerSector

ASSUME DriveAssumption ==
    /\ Sectors \in Nat \ {0, 1} /\ PerSector \in Nat \ {0, 1}
    /\ {BootData, FatData, DirData} \subseteq SUBSET Bits
    /\ BootData # Erased
    /\ {MaxWrites, MaxMounts} \subseteq Nat

VARIABLES
    chip,      \* [DriveBlocks -> SUBSET Bits]
    todo,      \* the chip operations of the write or format under way, in order
    unit,      \* "off", "mounting" or "up"
    meant,     \* history: what each block was last to hold
    hurt,      \* history: blocks an interrupted write may have spoilt
    atRisk,    \* history: those it would spoil if it were interrupted now
    hostWrites, mounts

driveVars == <<chip, todo, unit, meant, hurt, atRisk, hostWrites, mounts>>

Erase(b) == [op |-> "erase", at |-> SectorOf(b), data |-> << >>]
Program(data) == [op |-> "program", at |-> DOMAIN data, data |-> data]
One(b, data) == [c \in {b} |-> data]

DriveInit ==
    /\ chip \in {[b \in DriveBlocks |-> Erased],
                 [b \in DriveBlocks |-> CASE b = BootBlock -> BootData [] b = FatBlock -> FatData
                                     [] b = DirBlock -> DirData
                                     [] b \notin {BootBlock, FatBlock, DirBlock} -> Erased]}
    /\ todo = << >> /\ unit = "off"
    /\ meant = chip /\ hurt = {} /\ atRisk = {}
    /\ hostWrites = 0 /\ mounts = 0

-----------------------------------------------------------------------------
(* Writing a block. *)

\* Mutated form of NeedsErase: the test the wrong way round.
NeedsEraseToClear(b, data) == ~(chip[b] \subseteq data)
NeedsErase(b, data) == ~(data \subseteq chip[b])

(* write_block: in place when it only clears bits, else the whole sector.  *)
BlockWrite(b, data) ==
    IF NeedsErase(b, data)
    THEN <<Erase(b), Program([c \in SectorOf(b) |-> IF c = b THEN data ELSE chip[c]])>>
    ELSE <<Program(One(b, data))>>

(* One block of WRITE_10.  A block past the end is refused.  What may be   *)
(* lost if the power goes is by the comment at usb_storage.rs:92-99.       *)
HostWrite(b, data) ==
    /\ unit = "up" /\ todo = << >> /\ hostWrites < MaxWrites
    /\ hostWrites' = hostWrites + 1
    /\ IF b \in DriveBlocks
       THEN /\ todo' = BlockWrite(b, data)
            /\ meant' = [meant EXCEPT ![b] = data]
            /\ atRisk' = IF data \subseteq chip[b] THEN {b} ELSE SectorOf(b)
       ELSE UNCHANGED <<todo, meant, atRisk>>
    /\ UNCHANGED <<chip, unit, hurt, mounts>>

(* The next chip operation is done. *)
Programmed(b, data) == chip[b] \cap data
ChipStep ==
    /\ todo # << >>
    /\ LET o == Head(todo) IN
       chip' = [b \in DriveBlocks |-> IF b \notin o.at THEN chip[b]
                                 ELSE IF o.op = "erase" THEN Erased ELSE Programmed(b, o.data[b])]
    /\ todo' = Tail(todo)
    /\ unit' = IF todo' = << >> THEN "up" ELSE unit
    /\ IF todo' = << >>
       THEN /\ atRisk' = {}
            /\ hurt' = {b \in hurt : chip'[b] # meant[b]}
       ELSE UNCHANGED <<hurt, atRisk>>
    /\ UNCHANGED <<meant, hostWrites, mounts>>

(* What an operation that is cut short may leave: an erase any bits set    *)
(* besides those that were, a write some of the bits it is to clear.       *)
CutShort(o, b) ==
    IF o.op = "erase" THEN {s \in SUBSET Bits : chip[b] \subseteq s}
    ELSE {s \in SUBSET chip[b] : Programmed(b, o.data[b]) \subseteq s}

Interrupt ==
    /\ IF todo = << >> THEN UNCHANGED chip
       ELSE LET o == Head(todo) IN
            \E left \in [o.at -> SUBSET Bits] :
               /\ \A b \in o.at : left[b] \in CutShort(o, b)
               /\ chip' = [b \in DriveBlocks |-> IF b \in o.at THEN left[b] ELSE chip[b]]
    /\ todo' = << >> /\ atRisk' = {}
    /\ hurt' = hurt \cup atRisk

(* The power goes. *)
DrivePowerLoss ==
    /\ unit # "off" /\ unit' = "off"
    /\ Interrupt
    /\ UNCHANGED <<meant, hostWrites, mounts>>

(* The chip reports an error: the host is told that its write failed; a    *)
(* format is given up.                                                     *)
ChipFails ==
    /\ todo # << >> /\ unit' = "up"
    /\ Interrupt
    /\ UNCHANGED <<meant, hostWrites, mounts>>

-----------------------------------------------------------------------------
(* Booting. *)

Formatted == chip[BootBlock] = BootData

(* format(): the boot sector first, then the other sectors are erased, and *)
(* then the FAT and the directory are written.  The data is left as it is  *)
(* but for what shares the directory's last sector.                        *)
FormatSteps ==
    <<Erase(BootBlock), Program(One(BootBlock, BootData)), Erase(DirBlock),
      Program(One(FatBlock, FatData)), Program(One(DirBlock, DirData))>>

(* What the volume is to hold after it. *)
Fresh(b) ==
    CASE b = BootBlock -> BootData
      [] b = FatBlock -> FatData
      [] b = DirBlock -> DirData
      [] b \notin {BootBlock, FatBlock, DirBlock} ->
            IF b \in SectorOf(BootBlock) \cup SectorOf(DirBlock) THEN Erased ELSE meant[b]

(* format_if_needed *)
Mount ==
    /\ unit = "off" /\ mounts < MaxMounts
    /\ mounts' = mounts + 1
    /\ IF Formatted
       THEN unit' = "up" /\ UNCHANGED <<todo, meant, atRisk>>
       ELSE /\ unit' = "mounting"
            /\ todo' = FormatSteps
            /\ meant' = [b \in DriveBlocks |-> Fresh(b)]
            /\ atRisk' = SectorOf(BootBlock) \cup SectorOf(DirBlock)
    /\ UNCHANGED <<chip, hurt, hostWrites>>

DriveNext ==
    \/ \E b \in 0 .. Sectors * PerSector, data \in SUBSET Bits : HostWrite(b, data)
    \/ ChipStep \/ DrivePowerLoss \/ ChipFails \/ Mount

DriveSpec == DriveInit /\ [][DriveNext]_driveVars

-----------------------------------------------------------------------------
(* Every block holds what the host or a format last put there, read back   *)
(* at any moment between two writes, but for the blocks that a power loss  *)
(* or an error may have spoilt; and those are the block written where the  *)
(* write only cleared bits, and its erase sector where it did not          *)
(* (usb_storage.rs:92-99).  While a write is under way the blocks it does  *)
(* not put at risk hold theirs.                                            *)
DriveHolds == \A b \in DriveBlocks \ (hurt \cup atRisk) : chip[b] = meant[b]
=============================================================================
