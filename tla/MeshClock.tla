------------------------------- MODULE MeshClock -------------------------------
(***************************************************************************)
(* The wall clock of a badge and what sets it: timestamps heard on the     *)
(* mesh (src/fw/mesh/repeater_time.rs, fed by log_advert and push_grp_txt  *)
(* of meshcore.rs) until the companion app sets it (ble.rs).               *)
(*                                                                         *)
(* Time passes alike for the clock, the mesh and the truth, so the clock   *)
(* is its distance from the truth; a timestamp is the sender's error less  *)
(* the age the packet has.                                                 *)
(***************************************************************************)
EXTENDS Integers, Sequences, SequencesExt, FiniteSets

CONSTANTS
    NoClock,
    Errors,        \* errors of the timestamps heard, in seconds
    Tolerance,     \* a sample this close to the truth, its hops added, is a good one
    MaxDelta,      \* MAX_DELTA_SECS, 3600 in the badge
    SecondsPerHop, \* 4 in the badge
    FloodHops,     \* hops of the floods heard
    DirectByte,    \* what the path length 0xFF of a direct packet says masked by 0x3F: 63
    Samples,       \* SAMPLE_COUNT, 5 in the badge
    MaxHeardTimes  \* bound: timestamps heard

ASSUME ClockConstants ==
    /\ Errors \subseteq Int /\ MaxDelta \in Nat /\ Tolerance \in 0..MaxDelta
    /\ DirectByte \in Nat /\ FloodHops \subseteq 0..DirectByte /\ SecondsPerHop \in Nat
    /\ Samples \in Nat /\ Samples % 2 = 1

VARIABLES
    clock,   \* WALL_CLOCK: its distance from the truth, or NoClock
    deltas,  \* ACC: the deltas of the batch
    locked,  \* BLE_TIME_LOCKED
    heardTimes

clockVars == <<clock, deltas, locked, heardTimes>>

ClockInit == clock = NoClock /\ deltas = << >> /\ locked = FALSE /\ heardTimes = 0

-----------------------------------------------------------------------------

(* log_advert takes a direct packet for no hops; push_grp_txt masks the     *)
(* byte that says "direct" and takes it for the longest path.               *)
AdvertHops(route) == IF route.direct THEN 0 ELSE route.hops
TextHops(route) == IF route.direct THEN DirectByte ELSE route.hops

(* A plausible slip: the newest sample of the batch decides. *)
NewestOf(s) == Last(s)
(* The middle one of the sorted batch: less than half of them are below it, *)
(* and less than half above.                                                *)
MedianOf(s) == CHOOSE x \in ToSet(s) :
    /\ 2 * Cardinality({i \in DOMAIN s : s[i] < x}) < Samples
    /\ 2 * Cardinality({i \in DOMAIN s : s[i] > x}) < Samples

(* observe_timestamp: the first sample sets the clock, later ones near it   *)
(* fill a batch whose median corrects it.  One from before 2026 does nothing. *)
Observe(error, hops) ==
    LET delta == error + hops * SecondsPerHop - clock
        batch == Append(deltas, delta)
    IN  IF locked THEN UNCHANGED <<clock, deltas>>
        ELSE IF clock = NoClock
        THEN clock' = error + hops * SecondsPerHop /\ deltas' = << >>
        ELSE IF delta \notin -MaxDelta..MaxDelta THEN UNCHANGED <<clock, deltas>>
        ELSE IF Len(batch) < Samples THEN deltas' = batch /\ UNCHANGED clock
        ELSE clock' = clock + MedianOf(batch) /\ deltas' = << >>

Routes == {[direct |-> TRUE, hops |-> 0]} \union {[direct |-> FALSE, hops |-> h] : h \in FloodHops}

(* The signed advert of a chat node or a repeater. *)
HearAdvert(error, route) ==
    /\ heardTimes < MaxHeardTimes /\ heardTimes' = heardTimes + 1
    /\ Observe(error, AdvertHops(route)) /\ UNCHANGED locked
(* A channel message, copies and own messages included. *)
HearText(error, route) ==
    /\ heardTimes < MaxHeardTimes /\ heardTimes' = heardTimes + 1
    /\ Observe(error, TextHops(route)) /\ UNCHANGED locked

(* SET_DEVICE_TIME: whatever the app says, for good. *)
SetDeviceTime(error) ==
    /\ ~locked \/ clock # error
    /\ clock' = error /\ locked' = TRUE /\ UNCHANGED <<deltas, heardTimes>>

Restarts == /\ clock # NoClock /\ clock' = NoClock /\ deltas' = << >> /\ locked' = FALSE
            /\ UNCHANGED heardTimes

ClockNext ==
    \/ \E e \in Errors, r \in Routes : HearAdvert(e, r) \/ HearText(e, r)
    \/ (\E e \in Errors : SetDeviceTime(e)) \/ Restarts

ClockSpec == ClockInit /\ [][ClockNext]_clockVars

-----------------------------------------------------------------------------
(* Properties. *)

Good(d) == clock + d \in -Tolerance..Tolerance

(* When most of a batch came from senders whose clocks are right, the       *)
(* correction puts the badge's clock right, whatever the others said and in *)
(* whichever order they were heard (repeater_time.rs:17-24, 131-146).       *)
MostAreRight ==
    [][ clock # NoClock /\ clock' # clock /\ clock' # NoClock /\ ~locked'
          => LET good == {i \in DOMAIN deltas : Good(deltas[i])}
             IN  2 * Cardinality(good) > Samples => clock' \in -Tolerance..Tolerance
      ]_clockVars

(* A badge that hears right clocks only keeps a right clock (meshcore.rs:   *)
(* 604-607, "path_len already encodes the hop count in its low 6 bits (0    *)
(* for direct)").                                                           *)
RightClocksKeepItRight == clock # NoClock => clock \in -Tolerance..Tolerance
=============================================================================
