------------------------------ MODULE MsgQueue ------------------------------
(***************************************************************************)
(* src/fw/mesh/msg_queue.rs: the circular queue of received messages.  The *)
(* indices live in RAM under a critical section (STATE), the records in    *)
(* the flash key-value store, one key per slot.  push moves the index      *)
(* before its flash write and pop before its flash read, so each is two    *)
(* steps, and the two tasks that call them (the radio task, and the BLE    *)
(* task) interleave between them.                                          *)
(*                                                                         *)
(* A message is its number: the n-th push carries message n.  A record     *)
(* that was never written is 0.                                            *)
(***************************************************************************)
EXTENDS Naturals, Sequences

CONSTANTS NumSlots,     \* NUM_SLOTS, 256 in the code
          MaxMsgs,      \* bound: messages received
          MaxCrashes,   \* bound: restarts
          MaxErrors     \* bound: failed flash reads and writes

ASSUME SlotsAssumption == NumSlots \in Nat /\ NumSlots > 1
ASSUME BoundsAssumption == /\ MaxMsgs \in Nat
                           /\ MaxCrashes \in Nat
                           /\ MaxErrors \in Nat

VARIABLES writeIdx,     \* STATE.write_idx
          readIdx,      \* STATE.read_idx
          kv,           \* namespace "mq": the record under each slot's key
          push,         \* the push under way, between index and flash write
          pop,          \* the pop under way, between index and flash read
          got,          \* what the last pop returned, None while it runs
          owner,        \* (history) the message each slot was last given to;
                        \* a restart leaves only what the flash holds
          pushed,       \* (history) messages pushed so far
          crashes, errors

indexVars == <<writeIdx, readIdx>>
histVars  == <<owner, pushed>>
faultVars == <<crashes, errors>>
queueVars == <<writeIdx, readIdx, kv, push, pop, got, owner, pushed, crashes, errors>>

Slots  == 0 .. NumSlots - 1
Cap    == NumSlots - 1
NoRecord == 0
None   == [slot |-> NumSlots, msg |-> NoRecord]   \* no call under way, or no result
Idle(call) == call.slot = NumSlots

Advance(i) == (i + 1) % NumSlots

\* Mutated form of Full: an empty queue is taken for a full one.
SameIndexFull(w, r) == w = r
Full(w, r) == Advance(w) = r

Empty == writeIdx = readIdx
Count == (writeIdx + NumSlots - readIdx) % NumSlots

Init == /\ writeIdx = 0 /\ readIdx = 0
        /\ kv = [s \in Slots |-> NoRecord]
        /\ push = None /\ pop = None /\ got = None
        /\ owner = [s \in Slots |-> NoRecord]
        /\ pushed = 0
        /\ crashes = 0 /\ errors = 0

-----------------------------------------------------------------------------
(* push, called by the radio task only.  One flash read is short next to   *)
(* the time the radio takes to receive Cap messages: the writer does not   *)
(* come round to a slot that is still being read.                          *)

PushReserve ==
  /\ Idle(push)
  /\ pushed < MaxMsgs
  /\ pop.slot # writeIdx
  /\ readIdx' = IF Full(writeIdx, readIdx) THEN Advance(readIdx) ELSE readIdx
  /\ writeIdx' = Advance(writeIdx)
  /\ push' = [slot |-> writeIdx, msg |-> pushed + 1]
  /\ owner' = [owner EXCEPT ![writeIdx] = pushed + 1]
  /\ pushed' = pushed + 1
  /\ UNCHANGED <<kv, pop, got, faultVars>>

\* Mutated form of PushKey: the index is read again after the lock is released.
LatePushKey == writeIdx
PushKey == push.slot

PushWrite ==
  /\ ~Idle(push)
  /\ kv' = [kv EXCEPT ![PushKey] = push.msg]
  /\ push' = None
  /\ UNCHANGED <<indexVars, pop, got, histVars, faultVars>>

\* The write fails: push logs it and returns, and the index stays moved.
PushFail ==
  /\ ~Idle(push)
  /\ errors < MaxErrors
  /\ errors' = errors + 1
  /\ push' = None
  /\ UNCHANGED <<indexVars, kv, pop, got, histVars, crashes>>

-----------------------------------------------------------------------------
(* pop, called by the BLE task only.                                       *)

PopReserve ==
  /\ Idle(pop)
  /\ ~Empty
  /\ pop' = [slot |-> readIdx, msg |-> owner[readIdx]]
  /\ readIdx' = Advance(readIdx)
  /\ got' = None
  /\ UNCHANGED <<writeIdx, kv, push, histVars, faultVars>>

PopEmpty ==
  /\ Idle(pop)
  /\ Empty
  /\ got' = None
  /\ UNCHANGED <<indexVars, kv, push, pop, histVars, faultVars>>

\* What the flash holds under the slot's key, whoever wrote it; NoRecord is
\* the key that was never written, for which pop returns None.
PopRead ==
  /\ ~Idle(pop)
  /\ got' = [slot |-> pop.slot, msg |-> kv[pop.slot]]
  /\ pop' = None
  /\ UNCHANGED <<indexVars, kv, push, histVars, faultVars>>

PopFail ==
  /\ ~Idle(pop)
  /\ errors < MaxErrors
  /\ errors' = errors + 1
  /\ got' = [slot |-> pop.slot, msg |-> NoRecord]
  /\ pop' = None
  /\ UNCHANGED <<indexVars, kv, push, histVars, crashes>>

-----------------------------------------------------------------------------
(* A restart: STATE is a static that starts at 0, 0; the records stay.     *)
Restart ==
  /\ crashes < MaxCrashes
  /\ crashes' = crashes + 1
  /\ writeIdx' = 0 /\ readIdx' = 0
  /\ push' = None /\ pop' = None /\ got' = None
  /\ owner' = kv
  /\ UNCHANGED <<kv, pushed, errors>>

PushStep == PushReserve \/ PushWrite \/ PushFail
PopStep  == PopReserve \/ PopEmpty \/ PopRead \/ PopFail
Next == PushStep \/ PopStep \/ Restart
Spec == Init /\ [][Next]_queueVars

-----------------------------------------------------------------------------
(* Properties.                                                             *)

TypeOK ==
  /\ writeIdx \in Slots /\ readIdx \in Slots
  /\ kv \in [Slots -> Nat]
  /\ push \in [slot : Slots \cup {NumSlots}, msg : Nat]
  /\ pop \in [slot : Slots \cup {NumSlots}, msg : Nat]
  /\ got \in [slot : Slots \cup {NumSlots}, msg : Nat]
  /\ owner \in [Slots -> Nat]
  /\ pushed \in 0 .. MaxMsgs
  /\ crashes \in 0 .. MaxCrashes /\ errors \in 0 .. MaxErrors

\* The waiting messages, oldest first, as the indices name them.
SlotAt(i) == (readIdx + i) % NumSlots
Waiting == [i \in 1 .. Count |-> owner[SlotAt(i - 1)]]

Fifo == INSTANCE DropOldestFifo WITH queue <- Waiting, pushed <- pushed

\* The two indices implement a FIFO of NumSlots - 1 messages that drops its
\* oldest message when full, whatever push and pop interleave, and whatever
\* flash operation fails (msg_queue.rs:6-20).
ImplementsFifo == Fifo!Spec

\* While no flash operation has failed, a pop that reads its slot finds the
\* message it was given, unless the push of that very message is still
\* between its index and its flash write (msg_queue.rs:238-300).
PopMissesOnlyInRace ==
  [][PopRead /\ errors = 0 => kv[pop.slot] = pop.msg \/ push = pop]_queueVars
=============================================================================
