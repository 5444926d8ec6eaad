--------------------------------- MODULE Dfu ---------------------------------
(* The bootloader (bootloader/src/main.rs, dfu.rs): what it starts at      *)
(* power-up, the DFU 1.1 download that writes an image page by page into   *)
(* the one application slot, and the LED that tells the operator when to   *)
(* cycle the power.  The host is a DFU tool whose requests are lost or     *)
(* repeated, that gives up, clears errors and starts over; the power goes  *)
(* at any moment.                                                          *)
(*                                                                         *)
(* Abstractions: a page is a block of an image, blank, or what a write cut *)
(* by a power loss leaves.  The first page holds the vector table: of a    *)
(* cut one either it is all there, or it is "half" there.  The slot is big *)
(* enough for what the bounds let the host send; nothing in dfu.rs checks. *)
EXTENDS Naturals, Sequences

CONSTANTS
    SlotPages,       \* pages from APP_START up
    ImageLen,        \* pages of the image the host has
    CopyIdleTicks,   \* COPY_IDLE_TICKS
    MaxRequests,     \* bound: DFU requests since the power came
    MaxPowerUps      \* bound: power cycles

ASSUME DfuAssumption ==
    /\ {SlotPages, ImageLen, CopyIdleTicks} \subseteq Nat \ {0}
    /\ {MaxRequests, MaxPowerUps} \subseteq Nat
    /\ ImageLen < SlotPages

VARIABLES
    slot,      \* the application slot, page by page
    running,   \* what the processor runs: "nothing", "dfu", "app" or "halt"
    dfu,       \* DfuHandler: [state, buf, at, reset], buf the page held, at
               \* write_addr, reset DFU_RESET_PENDING
    copyIdle,  \* copy_idle of the monitor
    copied,    \* MSC_WRITE_TICK has moved since the last sample
    done,      \* dfu_done
    led,       \* what the monitor shows
    next,      \* the host: the block it has to send
    turn,      \* the host: to "send" it, to "repeat" it for want of an answer, or,
               \* having sent it, to "ask" for the status
    over,      \* history: it started over since the power came
    flashed,   \* history: green since the image was first touched, not over
    requests, powerUps

dfuVars == <<slot, running, dfu, copyIdle, copied, done, led, next, turn, over, flashed,
             requests, powerUps>>
host == <<next, turn, over>>

Pages == 1 .. SlotPages
Block(i) == [image |-> "new", page |-> i]
Installed(i) == [image |-> "old", page |-> i]
Junk(kind) == [image |-> kind, page |-> 0]
Blank == Junk("blank")

(* app_is_empty, app_is_valid: by the vector table alone. *)
AppIsEmpty == slot[1] = Blank
AppIsValid == slot[1] \notin {Blank, Junk("half")}

HandlerNew == [state |-> "Idle", buf |-> Blank, at |-> 1, reset |-> FALSE]

DfuInit ==
    /\ slot \in {[i \in Pages |-> Blank], [i \in Pages |-> Installed(i)]}
    /\ running = "nothing"
    /\ dfu = HandlerNew
    /\ copyIdle = CopyIdleTicks /\ copied = FALSE
    /\ done = FALSE /\ led = "off"
    /\ next = 1 /\ turn = "send" /\ over = FALSE /\ flashed = FALSE
    /\ requests = 0 /\ powerUps = 0

-----------------------------------------------------------------------------
(* Power. *)

(* main(): DFU with the execute button held or without firmware, else the  *)
(* application if its vector table looks right.                            *)
PowerUp ==
    /\ running = "nothing" /\ powerUps < MaxPowerUps
    /\ powerUps' = powerUps + 1 /\ requests' = 0
    /\ \E held \in BOOLEAN :
          running' = IF held \/ AppIsEmpty THEN "dfu" ELSE IF AppIsValid THEN "app" ELSE "halt"
    /\ dfu' = HandlerNew
    /\ copyIdle' = CopyIdleTicks /\ copied' = FALSE
    /\ done' = FALSE /\ led' = "off"
    /\ next' = 1 /\ turn' = "send" /\ over' = FALSE
    /\ UNCHANGED <<slot, flashed>>

(* What a page may hold when the power goes during erase_page and write.   *)
CutPage(i) == {slot[i], Blank, Junk("cut"), dfu.buf} \cup (IF i = 1 THEN {Junk("half")} ELSE {})

(* The power goes; program_block runs while GETSTATUS is answered.         *)
PowerLoss ==
    /\ running # "nothing" /\ running' = "nothing"
    /\ \/ UNCHANGED slot
       \/ /\ running = "dfu" /\ dfu.state = "DnloadSync"
          /\ \E c \in CutPage(dfu.at) : slot' = [slot EXCEPT ![dfu.at] = c]
    /\ led' = "off"
    /\ flashed' = (flashed /\ slot' = slot)
    /\ UNCHANGED <<dfu, copyIdle, copied, done, host, requests, powerUps>>

-----------------------------------------------------------------------------
(* DFU requests.  The host may not get the answer: it sends a block until  *)
(* one is taken, and asks for the status until it hears that it is in.     *)

Request ==
    /\ running = "dfu" /\ requests < MaxRequests
    /\ requests' = requests + 1
    /\ UNCHANGED <<running, copyIdle, copied, done, led, powerUps>>

Reject == dfu' = [dfu EXCEPT !.state = "Error"]

(* DFU_DNLOAD of the next block; it is written when GETSTATUS asks. *)
Download ==
    /\ Request /\ turn # "ask" /\ next <= ImageLen /\ dfu.at <= SlotPages
    /\ \/ /\ dfu.state \in {"Idle", "DnloadIdle"}
          /\ dfu' = [dfu EXCEPT !.buf = Block(next), !.state = "DnloadSync"]
          /\ turn' \in {"ask", "repeat"}
       \/ /\ dfu.state \notin {"Idle", "DnloadIdle"}
          /\ Reject /\ UNCHANGED turn
    /\ UNCHANGED <<slot, next, over, flashed>>

(* DFU_DNLOAD of nothing: the image is complete. *)
Finish ==
    /\ Request /\ turn # "ask" /\ next > ImageLen
    /\ \/ /\ dfu.state = "DnloadIdle"
          /\ dfu' = [dfu EXCEPT !.state = "ManifestSync"]
          /\ turn' \in {"ask", "repeat"}
       \/ /\ dfu.state # "DnloadIdle"
          /\ Reject /\ UNCHANGED turn
    /\ UNCHANGED <<slot, next, over, flashed>>

(* program_block *)
ProgramBlock ==
    /\ slot' = [slot EXCEPT ![dfu.at] = dfu.buf]
    /\ dfu' = [dfu EXCEPT !.at = @ + 1, !.state = "DnloadIdle"]
    /\ flashed' = FALSE

(* DFU_GETSTATUS: writes the block, or ends the download. *)
GetStatus ==
    /\ Request /\ turn # "repeat"
    /\ \/ /\ dfu.state = "DnloadSync" /\ ProgramBlock
       \/ /\ dfu.state = "ManifestSync"
          /\ dfu' = [dfu EXCEPT !.state = "ManifestWaitReset", !.reset = TRUE]
          /\ UNCHANGED <<slot, flashed>>
       \/ /\ dfu.state \notin {"DnloadSync", "ManifestSync"}
          /\ UNCHANGED <<slot, dfu, flashed>>
    /\ \E heard \in BOOLEAN :
          LET isIn == turn = "ask" /\ heard /\ dfu'.state = "DnloadIdle" IN
          /\ next' = IF isIn THEN next + 1 ELSE next
          /\ turn' = IF isIn THEN "send" ELSE turn
    /\ UNCHANGED over

(* DFU_CLRSTATUS *)
ClearStatus ==
    /\ Request
    /\ dfu' = IF dfu.state = "Error" THEN [dfu EXCEPT !.state = "Idle"] ELSE dfu
    /\ UNCHANGED <<slot, host, flashed>>

(* DFU_ABORT *)
Abort ==
    /\ Request
    /\ dfu' = IF dfu.state \in {"Idle", "DnloadIdle"} THEN [dfu EXCEPT !.state = "Idle"] ELSE dfu
    /\ UNCHANGED <<slot, host, flashed>>

(* The host starts over with its first block; write_addr stays where it is. *)
StartOver ==
    /\ Request /\ dfu.state \in {"Idle", "Error"}
    /\ next' = 1 /\ turn' = "send" /\ over' = TRUE
    /\ UNCHANGED <<slot, dfu, flashed>>

-----------------------------------------------------------------------------
(* The drive beside the download, and the LED. *)

(* A block is written to the FAT volume. *)
CopyBlock ==
    /\ running = "dfu" /\ ~copied /\ copied' = TRUE
    /\ UNCHANGED <<slot, running, dfu, copyIdle, done, led, host, flashed, requests, powerUps>>

(* One round of the monitor. *)
Monitor ==
    /\ running = "dfu"
    /\ copied' = FALSE
    /\ copyIdle' = IF copied THEN 0 ELSE IF copyIdle < CopyIdleTicks THEN copyIdle + 1 ELSE copyIdle
    /\ done' = (done \/ dfu.reset \/ dfu.state \in {"ManifestSync", "ManifestWaitReset"})
    /\ led' = CASE dfu.state = "Error" -> "red, fast"
                [] dfu.state \in {"DnloadSync", "DnloadIdle"} \/ copyIdle' < CopyIdleTicks -> "blue"
                [] dfu.state \notin {"Error", "DnloadSync", "DnloadIdle"}
                   /\ copyIdle' = CopyIdleTicks -> IF done' THEN "green" ELSE "red, slow"
    /\ flashed' = (flashed \/ (led' = "green" /\ ~over))
    /\ UNCHANGED <<slot, running, dfu, host, requests, powerUps>>

DfuNext ==
    \/ PowerUp \/ PowerLoss
    \/ Download \/ Finish \/ GetStatus \/ ClearStatus \/ Abort \/ StartOver
    \/ CopyBlock \/ Monitor

DfuSpec == DfuInit /\ [][DfuNext]_dfuVars

-----------------------------------------------------------------------------
(* Once the LED was green (dfu.rs:341-342, "provisioning complete") after  *)
(* a download that the host did not start over, the slot holds the image,  *)
(* every block once and in its place, whatever requests were lost,         *)
(* repeated or out of turn; and the next start that is not a DFU start     *)
(* runs it.                                                                *)
GreenMeansFlashed ==
    flashed => /\ \A i \in 1 .. ImageLen : slot[i] = Block(i)
               /\ running # "halt"
=============================================================================
