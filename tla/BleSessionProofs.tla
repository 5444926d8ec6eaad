-------------------------- MODULE BleSessionProofs --------------------------
(***************************************************************************)
(* Proofs about the message queue (MsgQueue) and the phone's session that  *)
(* uses it (BleSession), for every number of slots.  The first part is     *)
(* about the queue alone: its inductive invariant and the drop-oldest FIFO *)
(* it implements.  The second shows that the session takes no step the     *)
(* queue's specification does not allow, so that the first part holds of   *)
(* it, that what the phone hears is in order while nothing fails, and that *)
(* no message is displaced from the outbox unless a notification failed.   *)
(***************************************************************************)
EXTENDS BleSession, SequenceTheorems, FiniteSetTheorems, TLAPS

(* Index arithmetic: an index that has gone at most once round.            *)
LEMMA Wrap == ASSUME NEW k \in 0 .. 2 * NumSlots - 1
              PROVE  k % NumSlots = IF k < NumSlots THEN k ELSE k - NumSlots
BY SlotsAssumption

-----------------------------------------------------------------------------
(* The inductive invariant.  Every slot holds the message it was last      *)
(* given to, except one: the slot whose push has not reached the flash.    *)

Settled == errors = 0 => \A s \in Slots : kv[s] = owner[s] \/ push = [slot |-> s, msg |-> owner[s]]
PushOwns == ~Idle(push) => push.msg = owner[push.slot]
PopOwns == ~Idle(pop) => pop.msg = owner[pop.slot]
IInv == TypeOK /\ Settled /\ PushOwns /\ PopOwns

LEMMA NoneType == None \in [slot : Slots \cup {NumSlots}, msg : Nat] /\ Idle(None)
BY SlotsAssumption DEF None, NoRecord, Idle

LEMMA AdvanceType == \A i \in Slots : Advance(i) \in Slots
BY SlotsAssumption DEF Advance, Slots

LEMMA InitInv == Init => IInv
<1> SUFFICES ASSUME Init PROVE IInv
  OBVIOUS
<1>1. TypeOK
  BY NoneType, SlotsAssumption, BoundsAssumption DEF Init, TypeOK, Slots, NoRecord
<1>2. Settled
  BY DEF Init, Settled
<1>3. PushOwns /\ PopOwns
  BY NoneType DEF Init, PushOwns, PopOwns
<1> QED
  BY <1>1, <1>2, <1>3 DEF IInv

LEMMA PushInv == IInv /\ PushStep => IInv'
<1> SUFFICES ASSUME IInv, PushStep PROVE IInv'
  OBVIOUS
<1> USE DEF IInv
<1>1. CASE PushReserve
  <2>1. TypeOK'
    BY <1>1, AdvanceType, SlotsAssumption, BoundsAssumption DEF PushReserve, TypeOK, indexVars, histVars, faultVars
  <2>2. Settled'
    <3> SUFFICES ASSUME errors = 0, NEW s \in Slots
                 PROVE kv[s] = owner'[s] \/ push' = [slot |-> s, msg |-> owner'[s]]
      BY <1>1 DEF PushReserve, Settled, faultVars
    <3>1. /\ push' = [slot |-> writeIdx, msg |-> pushed + 1]
          /\ owner' = [owner EXCEPT ![writeIdx] = pushed + 1]
          /\ owner \in [Slots -> Nat]
      BY <1>1 DEF PushReserve, TypeOK
    <3>2. kv[s] = owner[s] \/ push = [slot |-> s, msg |-> owner[s]]
      BY DEF Settled
    <3>3. CASE s = writeIdx
      BY <3>1, <3>3
    <3>4. CASE s # writeIdx
      <4>1. owner'[s] = owner[s]
        BY <3>1, <3>4
      <4>2. push # [slot |-> s, msg |-> owner[s]]
        BY <1>1, SlotsAssumption DEF PushReserve, Idle, Slots
      <4> QED BY <3>2, <4>1, <4>2
    <3> QED BY <3>3, <3>4
  <2>3. PushOwns' /\ PopOwns'
    BY <1>1, SlotsAssumption DEF PushReserve, TypeOK, PushOwns, PopOwns, Idle, Slots
  <2> QED BY <2>1, <2>2, <2>3
<1>2. CASE PushWrite
  <2>1. TypeOK'
    BY <1>2, NoneType DEF PushWrite, TypeOK, Idle, PushKey, indexVars, histVars, faultVars
  <2>2. Settled'
    BY <1>2 DEF PushWrite, TypeOK, Settled, PushOwns, Idle, PushKey, histVars, faultVars
  <2>3. PushOwns' /\ PopOwns'
    BY <1>2, NoneType DEF PushWrite, PushOwns, PopOwns, Idle, histVars
  <2> QED BY <2>1, <2>2, <2>3
<1>3. CASE PushFail
  <2>1. TypeOK'
    BY <1>3, NoneType, BoundsAssumption DEF PushFail, TypeOK, indexVars, histVars
  <2>2. Settled'
    BY <1>3 DEF PushFail, TypeOK, Settled
  <2>3. PushOwns' /\ PopOwns'
    BY <1>3, NoneType DEF PushFail, PushOwns, PopOwns, Idle, histVars
  <2> QED BY <2>1, <2>2, <2>3
<1> QED
  BY <1>1, <1>2, <1>3 DEF PushStep

LEMMA PopInv == IInv /\ PopStep => IInv'
<1> SUFFICES ASSUME IInv, PopStep PROVE IInv'
  OBVIOUS
<1> USE DEF IInv
<1>1. CASE PopReserve
  <2>1. TypeOK'
    BY <1>1, AdvanceType, NoneType DEF PopReserve, TypeOK, histVars, faultVars
  <2>2. Settled' /\ PushOwns' /\ PopOwns'
    BY <1>1 DEF PopReserve, TypeOK, Settled, PushOwns, PopOwns, Idle, histVars, faultVars
  <2> QED BY <2>1, <2>2
<1>2. CASE PopEmpty
  BY <1>2, NoneType DEF PopEmpty, TypeOK, Settled, PushOwns, PopOwns, Idle, indexVars, histVars, faultVars
<1>3. CASE PopRead
  <2>1. TypeOK'
    BY <1>3, NoneType DEF PopRead, TypeOK, Idle, indexVars, histVars, faultVars
  <2>2. Settled' /\ PushOwns' /\ PopOwns'
    BY <1>3, NoneType DEF PopRead, Settled, PushOwns, PopOwns, Idle, histVars, faultVars
  <2> QED BY <2>1, <2>2
<1>4. CASE PopFail
  <2>1. TypeOK'
    BY <1>4, NoneType, BoundsAssumption DEF PopFail, TypeOK, Idle, NoRecord, indexVars, histVars
  <2>2. Settled' /\ PushOwns' /\ PopOwns'
    BY <1>4, NoneType DEF PopFail, TypeOK, Settled, PushOwns, PopOwns, Idle, histVars
  <2> QED BY <2>1, <2>2
<1> QED
  BY <1>1, <1>2, <1>3, <1>4 DEF PopStep

LEMMA RestartInv == IInv /\ Restart => IInv'
<1> SUFFICES ASSUME IInv, Restart PROVE IInv'
  OBVIOUS
<1>1. TypeOK'
  BY NoneType, SlotsAssumption, BoundsAssumption DEF IInv, Restart, TypeOK, Slots
<1>2. Settled' /\ PushOwns' /\ PopOwns'
  BY NoneType DEF IInv, Restart, Settled, PushOwns, PopOwns, Idle
<1> QED
  BY <1>1, <1>2 DEF IInv

LEMMA NextInv == IInv /\ [Next]_queueVars => IInv'
<1> SUFFICES ASSUME IInv, [Next]_queueVars PROVE IInv'
  OBVIOUS
<1>1. CASE UNCHANGED queueVars
  BY <1>1 DEF IInv, TypeOK, Settled, PushOwns, PopOwns, Idle, queueVars
<1> QED
  BY <1>1, PushInv, PopInv, RestartInv DEF Next

LEMMA Invariance == Spec => []IInv
BY InitInv, NextInv, PTL DEF Spec

\* Every variable keeps its type: in particular the indices stay in
\* [0, NUM_SLOTS) for any number of slots (msg_queue.rs:7-8).
THEOREM IndicesInRange == Spec => []TypeOK
<1>1. IInv => TypeOK
  BY DEF IInv
<1> QED BY <1>1, Invariance, PTL

\* Without a failed flash operation a pop misses its message only while the
\* push of that message is still writing it (msg_queue.rs:238-300).
THEOREM PopMissesOnlyTheRace == Spec => PopMissesOnlyInRace
<1>1. IInv /\ [Next]_queueVars => [PopRead /\ errors = 0 => kv[pop.slot] = pop.msg \/ push = pop]_queueVars
  <2> SUFFICES ASSUME IInv, PopRead, errors = 0 PROVE kv[pop.slot] = pop.msg \/ push = pop
    OBVIOUS
  <2>1. pop.slot \in Slots /\ pop = [slot |-> pop.slot, msg |-> pop.msg]
    BY DEF IInv, TypeOK, PopRead, Idle
  <2> QED
    BY <2>1 DEF IInv, Settled, PopOwns, PopRead
<1> QED BY <1>1, Invariance, PTL DEF Spec, PopMissesOnlyInRace

-----------------------------------------------------------------------------
(* The refinement.  Ring is the part of the type invariant it needs.       *)

Ring == writeIdx \in Slots /\ readIdx \in Slots /\ owner \in [Slots -> Nat] /\ pushed \in Nat

LEMMA RingType == TypeOK => Ring
BY BoundsAssumption DEF TypeOK, Ring

LEMMA AdvanceCases == \A i \in Slots : Advance(i) = IF i = NumSlots - 1 THEN 0 ELSE i + 1
<1> TAKE i \in Slots
<1>1. i + 1 \in 0 .. 2 * NumSlots - 1
  BY SlotsAssumption DEF Slots
<1> QED
  BY <1>1, Wrap, SlotsAssumption DEF Advance, Slots

CountFact == /\ Count = IF writeIdx < readIdx THEN writeIdx + NumSlots - readIdx ELSE writeIdx - readIdx
             /\ Count \in 0 .. Cap
SlotAtFact == \A i \in 0 .. Cap :
                /\ SlotAt(i) = IF readIdx + i < NumSlots THEN readIdx + i ELSE readIdx + i - NumSlots
                /\ SlotAt(i) \in Slots
WaitingFact == /\ Waiting \in Seq(Nat) /\ Len(Waiting) = Count
               /\ \A i \in 1 .. Count : Waiting[i] = owner[SlotAt(i - 1)]
RingFacts == CountFact /\ SlotAtFact /\ WaitingFact

LEMMA RingHolds == Ring => RingFacts
<1> SUFFICES ASSUME Ring PROVE RingFacts
  OBVIOUS
<1>1. CountFact
  <2> DEFINE k == writeIdx + NumSlots - readIdx
  <2>1. k \in 0 .. 2 * NumSlots - 1
    BY SlotsAssumption DEF Ring, Slots
  <2>2. Count = IF k < NumSlots THEN k ELSE k - NumSlots
    <3> HIDE DEF k
    <3>1. k % NumSlots = IF k < NumSlots THEN k ELSE k - NumSlots
      BY <2>1, Wrap
    <3> QED BY <3>1 DEF Count, k
  <2> QED
    BY <2>2, SlotsAssumption DEF Ring, Slots, Cap, CountFact
<1>2. SlotAtFact
  <2> SUFFICES ASSUME NEW i \in 0 .. Cap
               PROVE /\ SlotAt(i) = IF readIdx + i < NumSlots THEN readIdx + i ELSE readIdx + i - NumSlots
                     /\ SlotAt(i) \in Slots
    BY DEF SlotAtFact
  <2> DEFINE k == readIdx + i
  <2>1. k \in 0 .. 2 * NumSlots - 1
    BY SlotsAssumption DEF Ring, Slots, Cap
  <2>2. SlotAt(i) = IF k < NumSlots THEN k ELSE k - NumSlots
    <3> HIDE DEF k
    <3>1. k % NumSlots = IF k < NumSlots THEN k ELSE k - NumSlots
      BY <2>1, Wrap
    <3> QED BY <3>1 DEF SlotAt, k
  <2> QED
    BY <2>2, SlotsAssumption DEF Ring, Slots, Cap
<1>3. WaitingFact
  <2>1. Count \in Nat /\ Count \in 0 .. Cap
    BY <1>1, SlotsAssumption DEF Cap, CountFact
  <2>2. \A i \in 1 .. Count : owner[SlotAt(i - 1)] \in Nat
    <3> TAKE i \in 1 .. Count
    <3>1. i - 1 \in 0 .. Cap
      BY <2>1, SlotsAssumption DEF Cap
    <3> QED BY <3>1, <1>2 DEF Ring, SlotAtFact
  <2>3. Waiting \in [1 .. Count -> Nat]
    BY <2>2 DEF Waiting
  <2> QED
    BY <2>1, <2>3 DEF Waiting, WaitingFact
<1> QED
  BY <1>1, <1>2, <1>3 DEF RingFacts

LEMMA PushRefines == Ring /\ Ring' /\ PushReserve => Fifo!Push
<1> SUFFICES ASSUME Ring, Ring', PushReserve PROVE Fifo!Push
  OBVIOUS
<1>a. RingFacts /\ RingFacts'
  BY RingHolds, PTL
<1> DEFINE stays == IF Len(Waiting) = Cap THEN Tail(Waiting) ELSE Waiting
<1>0. /\ Waiting \in Seq(Nat) /\ Len(Waiting) = Count
      /\ Waiting' \in Seq(Nat) /\ Len(Waiting') = Count'
      /\ Count \in 0 .. Cap /\ Count' \in 0 .. Cap /\ Cap \in Nat \ {0}
  BY <1>a, SlotsAssumption DEF Cap, RingFacts, CountFact, WaitingFact
<1>1. /\ writeIdx' = IF writeIdx = NumSlots - 1 THEN 0 ELSE writeIdx + 1
      /\ readIdx' = IF Full(writeIdx, readIdx) THEN (IF readIdx = NumSlots - 1 THEN 0 ELSE readIdx + 1) ELSE readIdx
  BY AdvanceCases DEF PushReserve, Ring
<1>b. /\ writeIdx \in 0 .. NumSlots - 1 /\ readIdx \in 0 .. NumSlots - 1 /\ NumSlots \in Nat /\ NumSlots > 1
      /\ Count = IF writeIdx < readIdx THEN writeIdx + NumSlots - readIdx ELSE writeIdx - readIdx
      /\ Count' = IF writeIdx' < readIdx' THEN writeIdx' + NumSlots - readIdx' ELSE writeIdx' - readIdx'
      /\ Cap = NumSlots - 1
  BY <1>a, SlotsAssumption DEF RingFacts, CountFact, Ring, Slots, Cap
<1>2. Full(writeIdx, readIdx) <=> Count = Cap
  <2>1. Advance(writeIdx) = IF writeIdx = NumSlots - 1 THEN 0 ELSE writeIdx + 1
    BY AdvanceCases DEF Ring
  <2> QED
    BY <2>1, <1>b DEF Full
<1>3. Count' = IF Count = Cap THEN Cap ELSE Count + 1
  BY <1>1, <1>2, <1>b
<1>4. stays \in Seq(Nat) /\ Len(stays) = Count' - 1
  BY <1>0, <1>3
<1>5. \A i \in 1 .. Len(stays) : Waiting'[i] = stays[i]
  <2> SUFFICES ASSUME NEW i \in 1 .. Len(stays) PROVE Waiting'[i] = stays[i]
    OBVIOUS
  <2>1. i \in 1 .. Count' /\ i - 1 \in 0 .. Cap
    BY <1>0, <1>4
  <2>2. Waiting'[i] = owner'[SlotAt(i - 1)']
    BY <2>1, <1>a DEF RingFacts, WaitingFact
  <2> DEFINE j == IF Count = Cap THEN i + 1 ELSE i
  <2>3. j \in 1 .. Count /\ j - 1 \in 0 .. Cap /\ stays[i] = Waiting[j]
    BY <1>0, <1>3, <1>4
  <2>4. stays[i] = owner[SlotAt(j - 1)]
    BY <2>3, <1>a DEF RingFacts, WaitingFact
  <2>5. SlotAt(i - 1)' = SlotAt(j - 1) /\ SlotAt(j - 1) # writeIdx /\ SlotAt(j - 1) \in Slots
    <3>1. SlotAt(i - 1)' = IF readIdx' + (i - 1) < NumSlots THEN readIdx' + (i - 1) ELSE readIdx' + (i - 1) - NumSlots
      BY <2>1, <1>a DEF RingFacts, SlotAtFact
    <3>2. /\ SlotAt(j - 1) = IF readIdx + (j - 1) < NumSlots THEN readIdx + (j - 1) ELSE readIdx + (j - 1) - NumSlots
          /\ SlotAt(j - 1) \in Slots
      BY <2>3, <1>a DEF RingFacts, SlotAtFact
    <3>3. readIdx' = IF Count = Cap THEN (IF readIdx = NumSlots - 1 THEN 0 ELSE readIdx + 1) ELSE readIdx
      BY <1>1, <1>2
    <3>4. SlotAt(i - 1)' = SlotAt(j - 1)
      BY <3>1, <3>2, <3>3, <2>3, <1>b
    <3>5. SlotAt(j - 1) # writeIdx
      BY <3>2, <2>3, <1>b
    <3> QED BY <3>2, <3>4, <3>5
  <2> QED
    BY <2>2, <2>4, <2>5 DEF PushReserve, Ring
<1>6. Waiting'[Count'] = pushed + 1
  <2> PICK c : c = Count'
    OBVIOUS
  <2>1. c \in 1 .. Count' /\ c - 1 \in 0 .. Cap
    BY <1>0, <1>3
  <2>2. Waiting'[c] = owner'[SlotAt(c - 1)']
    BY <2>1, <1>a DEF RingFacts, WaitingFact
  <2>3. SlotAt(c - 1)' = writeIdx
    <3>1. SlotAt(c - 1)' = IF readIdx' + (c - 1) < NumSlots THEN readIdx' + (c - 1) ELSE readIdx' + (c - 1) - NumSlots
      BY <2>1, <1>a DEF RingFacts, SlotAtFact
    <3> QED
      BY <3>1, <1>1, <1>2, <1>3, <1>b
  <2> QED
    BY <2>2, <2>3 DEF PushReserve, Ring
<1>7. Waiting' = Append(stays, pushed + 1)
  <2>1. Append(stays, pushed + 1) \in Seq(Nat) /\ Len(Append(stays, pushed + 1)) = Len(stays) + 1
    BY <1>4 DEF Ring
  <2>2. \A i \in 1 .. Len(stays) + 1 : Waiting'[i] = Append(stays, pushed + 1)[i]
    <3> TAKE i \in 1 .. Len(stays) + 1
    <3>1. CASE i \in 1 .. Len(stays)
      <4>1. Append(stays, pushed + 1)[i] = stays[i]
        <5> HIDE DEF stays
        <5> QED BY <1>4, <3>1
      <4> QED BY <1>5, <3>1, <4>1
    <3>2. CASE i = Len(stays) + 1
      <4>1. Append(stays, pushed + 1)[Len(stays) + 1] = pushed + 1
        <5> HIDE DEF stays
        <5> QED BY <1>4 DEF Ring
      <4>2. i = Count'
        BY <1>0, <1>4, <3>2
      <4> QED BY <1>6, <3>2, <4>1, <4>2
    <3> QED BY <1>4, <3>1, <3>2
  <2> QED
    BY <1>0, <1>4, <2>1, <2>2, SeqEqual
<1> QED
  BY <1>7 DEF Fifo!Push, PushReserve

LEMMA PopRefines == Ring /\ Ring' /\ PopReserve => Fifo!Pop
<1> SUFFICES ASSUME Ring, Ring', PopReserve PROVE Fifo!Pop
  OBVIOUS
<1>a. RingFacts /\ RingFacts'
  BY RingHolds, PTL
<1>0. /\ Waiting \in Seq(Nat) /\ Len(Waiting) = Count
      /\ Waiting' \in Seq(Nat) /\ Len(Waiting') = Count'
      /\ Count \in 0 .. Cap /\ Count' \in 0 .. Cap /\ Cap \in Nat \ {0}
  BY <1>a, SlotsAssumption DEF Cap, RingFacts, CountFact, WaitingFact
<1>1. readIdx' = (IF readIdx = NumSlots - 1 THEN 0 ELSE readIdx + 1) /\ writeIdx' = writeIdx
  BY AdvanceCases DEF PopReserve, Ring
<1>2. Count > 0 /\ Count' = Count - 1
  BY <1>1, <1>a, SlotsAssumption DEF RingFacts, CountFact, Ring, Slots, PopReserve, Empty
<1>3. \A i \in 1 .. Count' : Waiting'[i] = Waiting[i + 1]
  <2> SUFFICES ASSUME NEW i \in 1 .. Count' PROVE Waiting'[i] = Waiting[i + 1]
    OBVIOUS
  <2>1. i - 1 \in 0 .. Cap /\ i \in 0 .. Cap /\ i + 1 \in 1 .. Count
    BY <1>0, <1>2
  <2>2. Waiting'[i] = owner'[SlotAt(i - 1)'] /\ Waiting[i + 1] = owner[SlotAt(i)]
    BY <2>1, <1>a DEF RingFacts, WaitingFact
  <2>3. SlotAt(i - 1)' = IF readIdx' + (i - 1) < NumSlots THEN readIdx' + (i - 1) ELSE readIdx' + (i - 1) - NumSlots
    BY <2>1, <1>a DEF RingFacts, SlotAtFact
  <2>4. SlotAt(i) = IF readIdx + i < NumSlots THEN readIdx + i ELSE readIdx + i - NumSlots
    BY <2>1, <1>a DEF RingFacts, SlotAtFact
  <2>5. SlotAt(i - 1)' = SlotAt(i)
    <3>1. readIdx \in 0 .. NumSlots - 1 /\ NumSlots \in Nat /\ NumSlots > 1 /\ i \in 1 .. NumSlots - 1
      BY <2>1, <1>0, SlotsAssumption DEF Ring, Slots, Cap
    <3> QED BY <2>3, <2>4, <1>1, <3>1
  <2> QED
    BY <2>2, <2>5 DEF PopReserve, histVars
<1>4. Waiting # << >>
  BY <1>0, <1>2
<1>5. Tail(Waiting) \in Seq(Nat) /\ Len(Tail(Waiting)) = Count'
      /\ \A i \in 1 .. Count' : Tail(Waiting)[i] = Waiting[i + 1]
  BY <1>0, <1>2, <1>4
<1>6. Waiting' = Tail(Waiting)
  BY <1>0, <1>3, <1>5, SeqEqual
<1> QED
  BY <1>4, <1>6 DEF Fifo!Pop, PopReserve, histVars

\* The indices implement the drop-oldest FIFO for any number of slots and
\* any interleaving, failure and restart (msg_queue.rs:6-20).
THEOREM QueueImplementsFifo == Spec => ImplementsFifo
<1>1. Init => Fifo!Init
  <2> SUFFICES ASSUME Init PROVE Waiting = << >> /\ pushed = 0
    BY DEF Fifo!Init
  <2>1. Ring /\ RingFacts
    BY InitInv, RingType, RingHolds DEF IInv
  <2>2. Count = 0
    BY <2>1 DEF RingFacts, CountFact, Init, Ring, Slots
  <2> QED
    BY <2>1, <2>2 DEF Init, RingFacts, WaitingFact
<1>2. IInv /\ IInv' /\ [Next]_queueVars => [Fifo!Next]_Fifo!fifoVars
  <2> SUFFICES ASSUME IInv, IInv', [Next]_queueVars PROVE [Fifo!Next]_Fifo!fifoVars
    OBVIOUS
  <2>0. Ring /\ Ring' /\ RingFacts'
    BY RingType, RingHolds, PTL DEF IInv
  <2>1. CASE PushReserve
    BY <2>0, <2>1, PushRefines DEF Fifo!Next
  <2>2. CASE PopReserve
    BY <2>0, <2>2, PopRefines DEF Fifo!Next
  <2>3. CASE Restart
    <3>1. Count' = 0
      BY <2>0, <2>3, SlotsAssumption DEF Restart, RingFacts, CountFact
    <3> QED
      BY <2>0, <2>3, <3>1 DEF RingFacts, WaitingFact, Fifo!Next, Fifo!Restart, Restart
  <2>4. CASE UNCHANGED <<writeIdx, readIdx, owner, pushed>>
    BY <2>4 DEF Fifo!fifoVars, Waiting, Count, SlotAt
  <2> QED
    BY <2>1, <2>2, <2>3, <2>4 DEF Next, PushStep, PopStep, queueVars, PushWrite, PushFail, PopEmpty, PopRead, PopFail, indexVars, histVars
<1> QED
  BY <1>1, <1>2, Invariance, PTL DEF Spec, ImplementsFifo, Fifo!Spec

-----------------------------------------------------------------------------

(***************************************************************************)
(* The messages on their way to the phone.                                 *)
(***************************************************************************)

BoxEntry == [kind : Kinds, n : Nat]
SessTypeOK ==
  /\ outbox \in Seq(BoxEntry) /\ heard \in Seq(Nat)
  /\ stream.slot \in Nat /\ count \in Nat /\ present \in SUBSET ContactSlots
  /\ notifyErrors \in Nat

(* Nothing failed and the ring was not filled: no message was overwritten. *)
Calm == errors = 0 /\ crashes = 0 /\ pushed < NumSlots

(* The ring as a list that only grows: a message is in the slot before its *)
(* number, and a slot whose push is not written yet holds no record.       *)
Growing ==
  /\ writeIdx = pushed /\ readIdx <= pushed
  /\ \A s \in Slots : owner[s] = IF s < pushed THEN s + 1 ELSE NoRecord
  /\ \A s \in Slots : kv[s] \in {owner[s], NoRecord}
  /\ ~Idle(pop) => readIdx = pop.slot + 1

(* The highest message number that may be in the outbox or heard.          *)
Popped == IF Idle(pop) THEN readIdx ELSE readIdx - 1

(* The messages of box come after those in hs, in order, and none is       *)
(* beyond m.                                                               *)
InOrder(box, hs, m) ==
  /\ \A k \in 1 .. Len(hs) : hs[k] <= m
  /\ \A i, j \in 1 .. Len(hs) : i < j => hs[i] < hs[j]
  /\ \A i \in 1 .. Len(box) : box[i].kind = "msg" =>
        /\ box[i].n <= m
        /\ \A k \in 1 .. Len(hs) : hs[k] < box[i].n
        /\ \A j \in 1 .. Len(box) : i < j /\ box[j].kind = "msg" => box[i].n < box[j].n

HeardInv == Calm => Growing /\ InOrder(outbox, heard, Popped)

(* A popped message stays in the outbox only while the drain sends it.     *)
Drained ==
  linkUp /\ notifyErrors = 0 =>
    \A i \in 1 .. Len(outbox) : outbox[i].kind = "msg" => at = "drain"

SessIInv == IInv /\ SessTypeOK /\ HeardInv /\ Drained

-----------------------------------------------------------------------------
(* The outbox.                                                             *)

LEMMA PushShape ==
  ASSUME NEW box \in Seq(BoxEntry), NEW e \in BoxEntry
  PROVE  /\ OutboxPush(box, e) \in Seq(BoxEntry)
         /\ \E d \in {0, 1} :
              /\ Len(OutboxPush(box, e)) = Len(box) - d + 1
              /\ \A i \in 1 .. Len(box) - d : OutboxPush(box, e)[i] = box[i + d]
              /\ OutboxPush(box, e)[Len(box) - d + 1] = e
<1>1. CASE Len(box) = OutboxCap
  <2>1. box # << >>
    <3>1. OutboxCap # 0 /\ Len(<< >>) = 0
      BY SessionAssumption, EmptySeq
    <3> QED
      BY <1>1, <3>1, Zenon
  <2> DEFINE b == Tail(box)
  <2>2. b \in Seq(BoxEntry) /\ Len(b) = Len(box) - 1 /\ \A i \in 1 .. Len(b) : b[i] = box[i + 1]
    BY <2>1, HeadTailProperties
  <2>3. OutboxPush(box, e) = Append(b, e)
    BY <1>1 DEF OutboxPush
  <2> HIDE DEF b
  <2>4. /\ Append(b, e) \in Seq(BoxEntry) /\ Len(Append(b, e)) = Len(b) + 1
        /\ \A i \in 1 .. Len(b) : Append(b, e)[i] = b[i]
        /\ Append(b, e)[Len(b) + 1] = e
    BY <2>2, AppendProperties
  <2>5. Len(box) \in Nat /\ Len(b) \in Nat
    BY <2>2, LenProperties
  <2> QED
    BY <2>2, <2>3, <2>4, <2>5
<1>2. CASE Len(box) # OutboxCap
  <2>1. OutboxPush(box, e) = Append(box, e)
    BY <1>2 DEF OutboxPush
  <2>2. /\ Append(box, e) \in Seq(BoxEntry) /\ Len(Append(box, e)) = Len(box) + 1
        /\ \A i \in 1 .. Len(box) : Append(box, e)[i] = box[i]
        /\ Append(box, e)[Len(box) + 1] = e
    BY AppendProperties
  <2>3. Len(box) \in Nat
    BY LenProperties
  <2> QED
    BY <2>1, <2>2, <2>3
<1> QED
  BY <1>1, <1>2

(* A push keeps the order, if a message it brings is newer than the others. *)
LEMMA PushInOrder ==
  ASSUME NEW box \in Seq(BoxEntry), NEW hs \in Seq(Nat), NEW m \in Nat, InOrder(box, hs, m),
         NEW e \in BoxEntry, NEW m2 \in Nat, m <= m2,
         e.kind = "msg" => m < e.n /\ e.n <= m2
  PROVE  InOrder(OutboxPush(box, e), hs, m2)
<1> DEFINE r == OutboxPush(box, e)
<1>1. PICK d \in {0, 1} : /\ Len(r) = Len(box) - d + 1
                          /\ \A i \in 1 .. Len(box) - d : r[i] = box[i + d]
                          /\ r[Len(box) - d + 1] = e
  BY PushShape
<1>2. r \in Seq(BoxEntry)
  BY PushShape
<1> HIDE DEF r
<1>3. Len(box) \in Nat /\ Len(r) \in Nat /\ Len(hs) \in Nat
  BY <1>2, LenProperties
<1>4. \A i \in 1 .. Len(r) : \/ i = Len(r) /\ r[i] = e
                             \/ i < Len(r) /\ i + d \in 1 .. Len(box) /\ r[i] = box[i + d]
  BY <1>1, <1>3
<1>5. \A k \in 1 .. Len(hs) : hs[k] \in Nat /\ hs[k] <= m
  BY ElementOfSeq DEF InOrder
<1>6. \A i \in 1 .. Len(box) : box[i].n \in Nat
  <2>1. \A i \in 1 .. Len(box) : box[i] \in BoxEntry
    BY ElementOfSeq
  <2> QED
    BY <2>1 DEF BoxEntry
<1>7. e.n \in Nat
  BY DEF BoxEntry
<1>8. ASSUME NEW i \in 1 .. Len(r), r[i].kind = "msg"
      PROVE  /\ r[i].n <= m2
             /\ \A k \in 1 .. Len(hs) : hs[k] < r[i].n
             /\ \A j \in 1 .. Len(r) : i < j /\ r[j].kind = "msg" => r[i].n < r[j].n
  <2>1. CASE i = Len(r)
    BY <1>3, <1>4, <1>5, <1>7, <1>8, <2>1
  <2>2. CASE i < Len(r)
    <3>1. i + d \in 1 .. Len(box) /\ r[i] = box[i + d] /\ box[i + d].n \in Nat
      BY <1>3, <1>4, <1>6, <2>2
    <3>2. /\ box[i + d].n <= m
          /\ \A k \in 1 .. Len(hs) : hs[k] < box[i + d].n
          /\ \A j \in 1 .. Len(box) : i + d < j /\ box[j].kind = "msg" => box[i + d].n < box[j].n
      BY <1>8, <3>1 DEF InOrder
    <3>3. ASSUME NEW j \in 1 .. Len(r), i < j, r[j].kind = "msg" PROVE r[i].n < r[j].n
      <4>1. CASE j = Len(r)
        BY <1>3, <1>4, <1>7, <3>1, <3>2, <3>3, <4>1
      <4>2. CASE j < Len(r)
        <5>1. j + d \in 1 .. Len(box) /\ r[j] = box[j + d] /\ i + d < j + d
          BY <1>3, <1>4, <3>3, <4>2
        <5> QED
          BY <3>1, <3>2, <3>3, <5>1
      <4> QED
        BY <1>3, <4>1, <4>2
    <3> QED
      BY <3>1, <3>2, <3>3
  <2> QED
    BY <1>3, <2>1, <2>2
<1>9. /\ \A k \in 1 .. Len(hs) : hs[k] <= m2
      /\ \A i, j \in 1 .. Len(hs) : i < j => hs[i] < hs[j]
  BY <1>5 DEF InOrder
<1> QED
  BY <1>8, <1>9 DEF InOrder, r

(* The oldest entry leaves, and the phone may have heard it.               *)
LEMMA LeaveInOrder ==
  ASSUME NEW box \in Seq(BoxEntry), box # << >>, NEW hs \in Seq(Nat), NEW m \in Nat,
         InOrder(box, hs, m)
  PROVE  /\ Tail(box) \in Seq(BoxEntry) /\ Head(box) \in BoxEntry
         /\ Len(Tail(box)) = Len(box) - 1
         /\ \A i \in 1 .. Len(Tail(box)) : Tail(box)[i] = box[i + 1]
         /\ InOrder(Tail(box), hs, m)
         /\ Head(box).kind = "msg" => InOrder(Tail(box), Append(hs, Head(box).n), m)
<1> DEFINE b == Tail(box)
           e == Head(box)
<1>1. /\ b \in Seq(BoxEntry) /\ Len(b) = Len(box) - 1 /\ e \in BoxEntry /\ e = box[1]
      /\ \A i \in 1 .. Len(b) : b[i] = box[i + 1]
  BY HeadTailProperties
<1> HIDE DEF b, e
<1>2. Len(box) \in Nat /\ Len(b) \in Nat /\ Len(hs) \in Nat /\ Len(box) # 0
  BY <1>1, LenProperties
<1>3. \A i \in 1 .. Len(b) : i + 1 \in 1 .. Len(box) /\ b[i] = box[i + 1] /\ 1 < i + 1
  BY <1>1, <1>2
<1>4. InOrder(b, hs, m)
  <2>1. ASSUME NEW i \in 1 .. Len(b), b[i].kind = "msg"
        PROVE  /\ b[i].n <= m
               /\ \A k \in 1 .. Len(hs) : hs[k] < b[i].n
               /\ \A j \in 1 .. Len(b) : i < j /\ b[j].kind = "msg" => b[i].n < b[j].n
    <3>1. /\ box[i + 1].n <= m
          /\ \A k \in 1 .. Len(hs) : hs[k] < box[i + 1].n
          /\ \A j \in 1 .. Len(box) : i + 1 < j /\ box[j].kind = "msg" => box[i + 1].n < box[j].n
      BY <1>3, <2>1 DEF InOrder
    <3>2. \A j \in 1 .. Len(b) : i < j => i + 1 < j + 1
      BY <1>2
    <3> QED
      BY <1>3, <3>1, <3>2
  <2> QED
    BY <2>1 DEF InOrder
<1>5. ASSUME e.kind = "msg" PROVE InOrder(b, Append(hs, e.n), m)
  <2> DEFINE h == Append(hs, e.n)
  <2>1. e.n \in Nat
    BY <1>1 DEF BoxEntry
  <2>2. /\ Len(h) = Len(hs) + 1 /\ \A i \in 1 .. Len(hs) : h[i] = hs[i]
        /\ h[Len(hs) + 1] = e.n
    BY <2>1, AppendProperties
  <2> HIDE DEF h
  <2>3. 1 \in 1 .. Len(box)
    BY <1>2
  <2>4. /\ e.n <= m
        /\ \A k \in 1 .. Len(hs) : hs[k] < e.n
        /\ \A j \in 1 .. Len(box) : 1 < j /\ box[j].kind = "msg" => e.n < box[j].n
    BY <1>1, <1>5, <2>3 DEF InOrder
  <2>5. \A k \in 1 .. Len(h) : \/ k \in 1 .. Len(hs) /\ h[k] = hs[k]
                               \/ k = Len(hs) + 1 /\ h[k] = e.n
    BY <1>2, <2>2
  <2>6. \A k \in 1 .. Len(h) : h[k] <= m
    BY <2>4, <2>5, <1>4 DEF InOrder
  <2>7. ASSUME NEW i \in 1 .. Len(h), NEW j \in 1 .. Len(h), i < j PROVE h[i] < h[j]
    <3>1. i \in 1 .. Len(hs) /\ h[i] = hs[i]
      BY <1>2, <2>2, <2>7
    <3>2. CASE j \in 1 .. Len(hs)
      <4>1. hs[i] < hs[j]
        BY <2>7, <3>1, <3>2 DEF InOrder
      <4> QED
        BY <2>2, <3>1, <3>2, <4>1
    <3>3. CASE h[j] = e.n
      BY <2>4, <3>1, <3>3
    <3> QED
      BY <2>5, <3>2, <3>3
  <2>8. ASSUME NEW i \in 1 .. Len(b), b[i].kind = "msg", NEW k \in 1 .. Len(h)
        PROVE  h[k] < b[i].n
    <3>1. \A q \in 1 .. Len(hs) : hs[q] < b[i].n
      BY <1>4, <2>8 DEF InOrder
    <3>2. e.n < b[i].n
      BY <1>3, <2>4, <2>8
    <3> QED
      BY <2>5, <3>1, <3>2
  <2> QED
    BY <1>4, <2>6, <2>7, <2>8 DEF InOrder, h
<1> QED
  BY <1>1, <1>4, <1>5 DEF b, e

LEMMA EmptyInOrder ==
  ASSUME NEW hs, NEW box, NEW m, InOrder(box, hs, m)
  PROVE  InOrder(<< >>, hs, m)
BY DEF InOrder
-----------------------------------------------------------------------------
(* The ring while nothing fails.                                           *)

LEMMA CalmBefore ==
  ASSUME IInv, [Next]_queueVars, Calm'
  PROVE  Calm /\ ~Restart /\ ~PushFail /\ ~PopFail
<1>1. pushed \in Nat /\ errors \in Nat /\ crashes \in Nat /\ NumSlots \in Nat
  BY SlotsAssumption, BoundsAssumption DEF IInv, TypeOK
<1>2. ~Restart /\ ~PushFail /\ ~PopFail
  BY <1>1 DEF Calm, Restart, PushFail, PopFail
<1>3. errors' = errors /\ crashes' = crashes /\ pushed' \in {pushed, pushed + 1}
  BY <1>2 DEF Next, PushStep, PopStep, PushReserve, PushWrite, PopReserve, PopEmpty, PopRead,
     queueVars, faultVars, histVars
<1> QED
  BY <1>1, <1>2, <1>3 DEF Calm

LEMMA GrowingStep ==
  ASSUME IInv, Calm, Growing, [Next]_queueVars, Calm'
  PROVE  /\ Growing' /\ Popped \in Nat /\ Popped' \in Nat /\ Popped <= Popped'
         /\ PopRead => Popped' = Popped + 1 /\ got'.msg \in {NoRecord, Popped'}
<1>1. /\ writeIdx \in Slots /\ readIdx \in Slots /\ pushed \in Nat /\ NumSlots \in Nat
      /\ readIdx <= pushed /\ writeIdx = pushed /\ pushed < NumSlots /\ pushed' < NumSlots
      /\ kv \in [Slots -> Nat] /\ owner \in [Slots -> Nat]
      /\ push.slot \in Slots \cup {NumSlots} /\ pop.slot \in Slots \cup {NumSlots}
      /\ \A s \in Slots : s \in Nat /\ s < NumSlots
  BY SlotsAssumption, BoundsAssumption DEF IInv, TypeOK, Growing, Calm, Slots
<1>2. /\ \A s \in Slots : owner[s] = IF s < pushed THEN s + 1 ELSE 0
      /\ \A s \in Slots : kv[s] \in {owner[s], 0}
      /\ ~Idle(pop) => readIdx = pop.slot + 1
  BY DEF Growing, NoRecord
<1>3. Popped \in Nat
  <2>1. CASE Idle(pop)
    BY <1>1, <2>1 DEF Popped
  <2>2. CASE ~Idle(pop)
    <3>1. pop.slot \in Nat /\ readIdx = pop.slot + 1
      BY <1>1, <1>2, <2>2 DEF Idle
    <3> QED
      BY <2>2, <3>1 DEF Popped
  <2> QED
    BY <2>1, <2>2
<1>4. ~Restart /\ ~PushFail /\ ~PopFail
  BY CalmBefore
<1>5. CASE UNCHANGED queueVars
  <2>1. Growing' /\ Popped' = Popped
    BY <1>5 DEF Growing, Popped, Idle, queueVars
  <2>2. ~PopRead
    BY <1>1, <1>5 DEF PopRead, Idle, None, queueVars
  <2> QED
    BY <1>3, <2>1, <2>2
<1>6. CASE PushReserve
  <2>1. /\ pushed' = pushed + 1 /\ pushed + 1 < NumSlots
        /\ push' = [slot |-> writeIdx, msg |-> pushed + 1]
        /\ owner' = [owner EXCEPT ![writeIdx] = pushed + 1] /\ UNCHANGED <<kv, pop, got>>
    BY <1>1, <1>6 DEF PushReserve
  <2>2. writeIdx' = writeIdx + 1 /\ readIdx' = readIdx
    BY <1>1, <1>6, <2>1, AdvanceCases DEF PushReserve, Full
  <2>3. \A s \in Slots : owner'[s] = IF s < pushed' THEN s + 1 ELSE 0
    BY <1>1, <1>2, <2>1
  <2>4. \A s \in Slots : kv'[s] \in {owner'[s], 0}
    <3> TAKE s \in Slots
    <3>1. CASE s = writeIdx
      BY <1>1, <1>2, <2>1, <3>1
    <3>2. CASE s # writeIdx
      BY <1>1, <1>2, <2>1, <3>2
    <3> QED
      BY <3>1, <3>2
  <2>5. Growing'
    BY <1>1, <1>2, <2>1, <2>2, <2>3, <2>4 DEF Growing, Idle, NoRecord
  <2>6. Popped' = Popped /\ ~PopRead
    BY <1>1, <2>1, <2>2 DEF Popped, Idle, PopRead, None
  <2> QED
    BY <1>3, <2>5, <2>6
<1>7. CASE PushWrite
  <2>1. /\ push.slot \in Slots /\ push.msg = owner[push.slot]
        /\ kv' = [kv EXCEPT ![push.slot] = push.msg]
        /\ UNCHANGED <<writeIdx, readIdx, pop, got, owner, pushed>>
    BY <1>1, <1>7 DEF PushWrite, PushKey, IInv, PushOwns, Idle, indexVars, histVars
  <2>2. \A s \in Slots : kv'[s] \in {owner'[s], 0}
    BY <1>1, <1>2, <2>1
  <2>3. Growing'
    BY <1>1, <1>2, <2>1, <2>2 DEF Growing, Idle, NoRecord
  <2>4. Popped' = Popped /\ ~PopRead
    BY <1>1, <2>1 DEF Popped, Idle, PopRead, None
  <2> QED
    BY <1>3, <2>3, <2>4
<1>8. CASE PopReserve
  <2>1. /\ Idle(pop) /\ readIdx < pushed /\ pop' = [slot |-> readIdx, msg |-> owner[readIdx]]
        /\ readIdx' = readIdx + 1
        /\ UNCHANGED <<writeIdx, kv, push, owner, pushed>>
    BY <1>1, <1>8, AdvanceCases DEF PopReserve, Empty, histVars
  <2>2. ~Idle(pop')
    BY <1>1, <2>1 DEF Idle
  <2>3. Growing'
    BY <1>1, <1>2, <2>1 DEF Growing, NoRecord
  <2>4. Popped' = Popped /\ ~PopRead
    BY <1>1, <2>1, <2>2 DEF Popped, Idle, PopRead
  <2> QED
    BY <1>3, <2>3, <2>4
<1>9. CASE PopEmpty
  <2>1. Growing' /\ Popped' = Popped /\ ~PopRead
    BY <1>9 DEF PopEmpty, PopRead, Growing, Popped, Idle, indexVars, histVars
  <2> QED
    BY <1>3, <2>1
<1>10. CASE PopRead
  <2>1. /\ pop.slot \in Slots /\ readIdx = pop.slot + 1 /\ ~Idle(pop) /\ Idle(None)
        /\ got' = [slot |-> pop.slot, msg |-> kv[pop.slot]] /\ pop' = None
        /\ UNCHANGED <<writeIdx, readIdx, kv, push, owner, pushed>>
    BY <1>1, <1>2, <1>10 DEF PopRead, Idle, indexVars, histVars, None
  <2>2. Growing'
    BY <1>1, <1>2, <2>1 DEF Growing, NoRecord
  <2>3. Popped' = readIdx /\ Popped = readIdx - 1
    BY <2>1 DEF Popped
  <2>4. got'.msg \in {NoRecord, readIdx}
    BY <1>1, <1>2, <2>1 DEF NoRecord
  <2> QED
    BY <1>1, <1>3, <2>2, <2>3, <2>4
<1> QED
  BY <1>4, <1>5, <1>6, <1>7, <1>8, <1>9, <1>10 DEF Next, PushStep, PopStep
-----------------------------------------------------------------------------
(* What each step of the session does to the outbox and to what is heard.  *)

Quiet == /\ outbox' = outbox /\ heard' = heard /\ notifyErrors' = notifyErrors
         /\ linkUp' => linkUp
         /\ at = "drain" => at' = "drain" \/ outbox = << >>
Brings(e) == /\ outbox' = OutboxPush(outbox, e) /\ heard' = heard
             /\ notifyErrors' = notifyErrors /\ linkUp' = linkUp /\ at # "drain"
BringsMsg == PopRead /\ got'.msg # NoRecord /\ at' = "drain" /\ Brings(Entry("msg", got'.msg))
BringsOther == \E e \in BoxEntry : e.kind # "msg" /\ Brings(e)
BringsThree ==
  \E d, e, f \in BoxEntry :
    /\ d.kind # "msg" /\ e.kind # "msg" /\ f.kind # "msg" /\ at # "drain"
    /\ outbox' = OutboxPush(OutboxPush(OutboxPush(outbox, d), e), f)
    /\ UNCHANGED <<heard, notifyErrors, linkUp>>
Leaves ==
  /\ outbox # << >> /\ outbox' = Tail(outbox)
  /\ \/ heard' = heard
     \/ Head(outbox).kind = "msg" /\ heard' = Append(heard, Head(outbox).n)
  /\ notifyErrors' \in {notifyErrors, notifyErrors + 1} /\ linkUp' = linkUp
  /\ at = "drain" => \/ at' = "drain"
                     \/ linkUp => notifyErrors' = notifyErrors + 1
Emptied == outbox' = << >> /\ UNCHANGED <<heard, notifyErrors>>

OutboxStep == Quiet \/ BringsMsg \/ BringsOther \/ BringsThree \/ Leaves \/ Emptied

LEMMA EntryType == \A kind \in Kinds, n \in Nat : /\ Entry(kind, n) \in BoxEntry
                                                  /\ Entry(kind, n).kind = kind /\ Entry(kind, n).n = n
BY DEF Entry, BoxEntry

LEMMA LoopSteps == SessTypeOK /\ IInv /\ Loop => OutboxStep
<1> SUFFICES ASSUME SessTypeOK, IInv, Loop PROVE OutboxStep
  OBVIOUS
<1> USE DEF budgets
<1>0. /\ \A kind \in {"waiting", "raw", "event", "nomore", "start", "contact", "end", "response"} :
            \A n \in Nat : Entry(kind, n) \in BoxEntry /\ Entry(kind, n).kind # "msg"
      /\ 0 \in Nat /\ 1 \in Nat /\ stream.slot \in Nat /\ count \in Nat
  BY EntryType DEF Kinds, SessTypeOK
<1>1. CASE Connect
  BY <1>1 DEF Connect, OutboxStep, Emptied
<1>2. CASE Disconnected \/ TakeSync
  BY <1>2 DEF Disconnected, TakeSync, OutboxStep, Quiet
<1>3. CASE Top
  <2>1. at # "drain" /\ UNCHANGED <<heard, notifyErrors, linkUp>>
    BY <1>3 DEF Top
  <2>2. CASE outbox' = outbox
    BY <2>1, <2>2 DEF OutboxStep, Quiet
  <2>3. CASE outbox' # outbox
    <3>1. outbox' = OutboxPush(outbox, Entry("end", 0))
            \/ outbox' = OutboxPush(outbox, Entry("contact", stream.slot))
      BY <1>3, <2>3 DEF Top
    <3> QED
      BY <1>0, <2>1, <3>1 DEF OutboxStep, BringsOther, Brings
  <2> QED
    BY <2>2, <2>3
<1>4. CASE Notify \/ DrainOne
  <2>1. Notified /\ (at = "drain" => at' = "drain")
    BY <1>4 DEF Notify, DrainOne
  <2>2. /\ outbox # << >> /\ outbox' = Tail(outbox) /\ UNCHANGED <<notifyErrors, linkUp>>
        /\ \/ heard' = heard
           \/ Head(outbox).kind = "msg" /\ heard' = Append(heard, Head(outbox).n)
    BY <2>1 DEF Notified, Sent, Hear
  <2> QED
    BY <2>1, <2>2 DEF OutboxStep, Leaves
<1>5. CASE NotifyFail \/ DrainBreak
  <2>1. NotifyFailed
    BY <1>5 DEF NotifyFail, DrainBreak
  <2>2. /\ outbox # << >> /\ outbox' = Tail(outbox) /\ UNCHANGED <<heard, linkUp>>
        /\ notifyErrors' = IF linkUp THEN notifyErrors + 1 ELSE notifyErrors
    BY <2>1 DEF NotifyFailed
  <2> QED
    BY <2>2 DEF OutboxStep, Leaves
<1>6. CASE TakeWaiting \/ TakeEvent \/ TakeOther
  <2>1. /\ at # "drain" /\ UNCHANGED <<heard, notifyErrors, linkUp>>
        /\ \E kind \in {"waiting", "event", "response"} : outbox' = OutboxPush(outbox, Entry(kind, 0))
    BY <1>6 DEF TakeWaiting, TakeEvent, TakeOther
  <2> QED
    BY <1>0, <2>1 DEF OutboxStep, BringsOther, Brings
<1>7. CASE TakeRaw
  <2>1. at # "drain" /\ UNCHANGED <<heard, notifyErrors, linkUp>>
        /\ (outbox' = outbox \/ outbox' = OutboxPush(outbox, Entry("raw", 0)))
    BY <1>7 DEF TakeRaw
  <2> QED
    BY <1>0, <2>1 DEF OutboxStep, Quiet, BringsOther, Brings
<1>8. CASE SyncPop
  <2>1. at # "drain" /\ UNCHANGED <<heard, notifyErrors, linkUp>>
        /\ (outbox' = outbox \/ outbox' = OutboxPush(outbox, Entry("nomore", 0)))
    BY <1>8 DEF SyncPop, Respond
  <2> QED
    BY <1>0, <2>1 DEF OutboxStep, Quiet, BringsOther, Brings
<1>9. CASE SyncAnswer
  <2>1. at # "drain" /\ UNCHANGED <<heard, notifyErrors, linkUp>>
    BY <1>9 DEF SyncAnswer
  <2>2. CASE got'.msg # NoRecord
    <3>1. ~PopFail
      BY <2>2 DEF PopFail
    <3> QED
      BY <1>9, <2>1, <2>2, <3>1 DEF SyncAnswer, Respond, OutboxStep, BringsMsg, Brings
  <2>3. CASE got'.msg = NoRecord
    <3>1. outbox' = OutboxPush(outbox, Entry("nomore", 0))
      BY <1>9, <2>3 DEF SyncAnswer, Respond
    <3> QED
      BY <1>0, <2>1, <3>1 DEF OutboxStep, BringsOther, Brings
  <2> QED
    BY <2>2, <2>3
<1>10. CASE TakeGetContacts
  <2>1. at # "drain" /\ UNCHANGED <<heard, notifyErrors, linkUp>>
        /\ \/ outbox' = OutboxPush(outbox, Entry("start", count))
           \/ outbox' = OutboxPush(outbox, Entry("nomore", 0))
    BY <1>10 DEF TakeGetContacts, Respond
  <2> QED
    BY <1>0, <2>1 DEF OutboxStep, BringsOther, Brings
<1>11. CASE DrainEnd
  BY <1>11 DEF DrainEnd, DrainLeaves, OutboxStep, Quiet
<1>12. CASE Added
  <2>1. /\ at # "drain" /\ UNCHANGED <<heard, notifyErrors, linkUp>>
        /\ outbox' = OutboxPush(OutboxPush(OutboxPush(outbox, Entry("start", 1)), Entry("contact", 0)), Entry("end", 0))
    BY <1>12 DEF Added
  <2> QED
    BY <1>0, <2>1 DEF OutboxStep, BringsThree
<1> QED
  BY <1>1, <1>2, <1>3, <1>4, <1>5, <1>6, <1>7, <1>8, <1>9, <1>10, <1>11, <1>12 DEF Loop

LEMMA SessionSteps == SessTypeOK /\ IInv /\ [SessionNext]_vars => OutboxStep
<1> SUFFICES ASSUME SessTypeOK, IInv, [SessionNext]_vars PROVE OutboxStep
  OBVIOUS
<1> USE DEF budgets, sessionVars, sessionRest
<1>1. CASE Phone
  BY <1>1 DEF Phone, PhoneSync, PhoneCommand, OutboxStep, Quiet
<1>2. CASE Receive \/ ReceiveDone \/ AddContact \/ RemoveContact \/ StoreCount \/ LinkLost
  BY <1>2 DEF Receive, ReceiveDone, AddContact, RemoveContact, StoreCount, LinkLost,
     OutboxStep, Quiet
<1>3. CASE BadgeRestart
  BY <1>3 DEF BadgeRestart, OutboxStep, Emptied
<1>4. CASE UNCHANGED vars
  BY <1>4 DEF vars, OutboxStep, Quiet
<1> QED
  BY <1>1, <1>2, <1>3, <1>4, LoopSteps DEF SessionNext, Others

(* Every step of the session is one of the queue, or leaves it alone.      *)
LEMMA SessionQueue == [SessionNext]_vars => [Next]_queueVars
<1> SUFFICES ASSUME [SessionNext]_vars PROVE [Next]_queueVars
  OBVIOUS
<1>1. CASE Receive \/ ReceiveDone \/ BadgeRestart \/ SyncPop \/ SyncAnswer
  BY <1>1 DEF Receive, ReceiveDone, BadgeRestart, SyncPop, SyncAnswer, Next, PushStep, PopStep
<1>2. CASE ~(Receive \/ ReceiveDone \/ BadgeRestart \/ SyncPop \/ SyncAnswer)
  <2>1. UNCHANGED queueVars
    BY <1>2, Zenon DEF SessionNext, Phone, PhoneSync, PhoneCommand, Loop, Others, Connect,
       Disconnected, Top, Notify, NotifyFail, Notified, NotifyFailed, TakeWaiting, TakeEvent,
       TakeRaw, TakeSync, TakeGetContacts, TakeOther, DrainOne, DrainBreak, DrainEnd, Added,
       AddContact, RemoveContact, StoreCount, LinkLost, vars
  <2> QED
    BY <2>1
<1> QED
  BY <1>1, <1>2
-----------------------------------------------------------------------------
LEMMA SessTypeStep ==
  ASSUME SessTypeOK, IInv, IInv', [SessionNext]_vars
  PROVE  SessTypeOK'
<1> USE DEF budgets, sessionVars, sessionRest, storeVars
<1>1. outbox' \in Seq(BoxEntry) /\ heard' \in Seq(Nat) /\ notifyErrors' \in Nat
  <2>0. outbox \in Seq(BoxEntry) /\ heard \in Seq(Nat) /\ notifyErrors \in Nat
    BY DEF SessTypeOK
  <2>1. CASE Quiet
    BY <2>0, <2>1 DEF Quiet
  <2>2. CASE BringsMsg
    <3>1. got'.msg \in Nat
      BY DEF IInv, TypeOK
    <3>2. Entry("msg", got'.msg) \in BoxEntry
      BY <3>1, EntryType DEF Kinds
    <3> QED
      BY <2>0, <2>2, <3>2, PushShape DEF BringsMsg, Brings
  <2>3. CASE BringsOther
    BY <2>0, <2>3, PushShape DEF BringsOther, Brings
  <2>4. CASE BringsThree
    <3>1. PICK d \in BoxEntry, e \in BoxEntry, f \in BoxEntry :
            outbox' = OutboxPush(OutboxPush(OutboxPush(outbox, d), e), f)
      BY <2>4 DEF BringsThree
    <3>2. OutboxPush(outbox, d) \in Seq(BoxEntry)
      BY <2>0, PushShape
    <3>3. OutboxPush(OutboxPush(outbox, d), e) \in Seq(BoxEntry)
      BY <3>2, PushShape
    <3>4. outbox' \in Seq(BoxEntry)
      BY <3>1, <3>3, PushShape
    <3> QED
      BY <2>0, <2>4, <3>4 DEF BringsThree
  <2>5. CASE Leaves
    <3>1. Tail(outbox) \in Seq(BoxEntry) /\ Head(outbox) \in BoxEntry
      BY <2>0, <2>5, HeadTailProperties DEF Leaves
    <3>2. Head(outbox).n \in Nat
      BY <3>1 DEF BoxEntry
    <3>3. Append(heard, Head(outbox).n) \in Seq(Nat)
      BY <2>0, <3>2, AppendProperties
    <3>4. outbox' \in Seq(BoxEntry) /\ heard' \in Seq(Nat)
      BY <2>0, <2>5, <3>1, <3>3 DEF Leaves
    <3>5. notifyErrors' \in Nat
      <4>1. notifyErrors' \in {notifyErrors, notifyErrors + 1}
        BY <2>5 DEF Leaves
      <4> QED
        BY <2>0, <4>1
    <3> QED
      BY <3>4, <3>5
  <2>6. CASE Emptied
    BY <2>0, <2>6, EmptySeq DEF Emptied
  <2> QED
    BY <2>1, <2>2, <2>3, <2>4, <2>5, <2>6, SessionSteps DEF OutboxStep
<1>2. stream'.slot \in Nat
  <2>0. stream.slot \in Nat
    BY DEF SessTypeOK
  <2>1. stream' = stream \/ Connect \/ Top \/ TakeGetContacts \/ BadgeRestart
    BY Zenon DEF SessionNext, Phone, PhoneSync, PhoneCommand, Loop, Others,
       Disconnected, Notify, NotifyFail, Notified, NotifyFailed, TakeWaiting, TakeEvent,
       TakeRaw, TakeSync, SyncPop, SyncAnswer, TakeOther, DrainOne, DrainBreak, DrainEnd, Added,
       AddContact, RemoveContact, StoreCount, LinkLost, Receive, ReceiveDone, vars
  <2>2. CASE Connect \/ BadgeRestart
    BY <2>2 DEF Connect, BadgeRestart, NoStream
  <2>3. CASE TakeGetContacts
    BY <2>0, <2>3 DEF TakeGetContacts
  <2>4. CASE Top
    <3>1. stream' \in {stream, NoStream}
            \/ stream' = [stream EXCEPT !.slot = @ + 1, !.remaining = @ - Spent(stream.slot)]
      BY <2>4 DEF Top
    <3>2. ASSUME NEW e, e = [stream EXCEPT !.slot = @ + 1, !.remaining = @ - Spent(stream.slot)]
          PROVE  e.slot = stream.slot + 1 \/ e.slot = stream.slot
      BY <3>2
    <3> QED
      BY <2>0, <3>1, <3>2 DEF NoStream
  <2> QED
    BY <2>0, <2>1, <2>2, <2>3, <2>4
<1>3. present' \in SUBSET ContactSlots
  <2>0. present \in SUBSET ContactSlots
    BY DEF SessTypeOK
  <2>1. present' = present \/ AddContact \/ RemoveContact
    BY Zenon DEF SessionNext, Phone, PhoneSync, PhoneCommand, Loop, Others, Connect, Top,
       Disconnected, Notify, NotifyFail, Notified, NotifyFailed, TakeWaiting, TakeEvent,
       TakeRaw, TakeSync, SyncPop, SyncAnswer, TakeGetContacts, TakeOther, DrainOne,
       DrainBreak, DrainEnd, Added, StoreCount, LinkLost, Receive, ReceiveDone, BadgeRestart, vars
  <2> QED
    BY <2>0, <2>1 DEF AddContact, RemoveContact
<1>4. count' \in Nat
  <2>0. count \in Nat /\ present \in SUBSET ContactSlots
    BY DEF SessTypeOK
  <2>1. count' = count \/ count' = Cardinality(present)
    BY Zenon DEF SessionNext, Phone, PhoneSync, PhoneCommand, Loop, Others, Connect, Top,
       Disconnected, Notify, NotifyFail, Notified, NotifyFailed, TakeWaiting, TakeEvent,
       TakeRaw, TakeSync, SyncPop, SyncAnswer, TakeGetContacts, TakeOther, DrainOne,
       DrainBreak, DrainEnd, Added, AddContact, RemoveContact, StoreCount, LinkLost,
       Receive, ReceiveDone, BadgeRestart, vars
  <2>2. IsFiniteSet(ContactSlots)
    BY SessionAssumption, FS_Interval DEF ContactSlots
  <2>3. Cardinality(present) \in Nat
    BY <2>0, <2>2, FS_Subset, FS_CardinalityType
  <2> QED
    BY <2>0, <2>1, <2>3
<1> QED
  BY <1>1, <1>2, <1>3, <1>4 DEF SessTypeOK

LEMMA LaterInOrder ==
  ASSUME NEW box, NEW hs \in Seq(Nat), NEW m \in Nat, NEW m2 \in Nat, m <= m2,
         box \in Seq(BoxEntry), InOrder(box, hs, m)
  PROVE  InOrder(box, hs, m2)
<1>1. \A i \in 1 .. Len(box) : box[i].n \in Nat
  <2>1. \A i \in 1 .. Len(box) : box[i] \in BoxEntry
    BY ElementOfSeq
  <2> QED
    BY <2>1 DEF BoxEntry
<1>2. \A k \in 1 .. Len(hs) : hs[k] \in Nat
  BY ElementOfSeq
<1>3. \A k \in 1 .. Len(hs) : hs[k] <= m2
  BY <1>2 DEF InOrder
<1>4. \A i \in 1 .. Len(box) : box[i].kind = "msg" => box[i].n <= m2
  BY <1>1 DEF InOrder
<1> QED
  BY <1>3, <1>4 DEF InOrder

LEMMA HeardStep ==
  ASSUME SessTypeOK, IInv, IInv', HeardInv, [SessionNext]_vars
  PROVE  HeardInv'
<1> SUFFICES ASSUME Calm' PROVE Growing' /\ InOrder(outbox, heard, Popped)'
  BY DEF HeardInv
<1>1. [Next]_queueVars
  BY SessionQueue
<1>2. Calm /\ Growing /\ InOrder(outbox, heard, Popped)
  BY <1>1, CalmBefore DEF HeardInv
<1>3. /\ Growing' /\ Popped \in Nat /\ Popped' \in Nat /\ Popped <= Popped'
      /\ PopRead => Popped' = Popped + 1 /\ got'.msg \in {NoRecord, Popped'}
  BY <1>1, <1>2, GrowingStep
<1>4. outbox \in Seq(BoxEntry) /\ heard \in Seq(Nat)
  BY DEF SessTypeOK
<1>5. PICK p \in Nat, p2 \in Nat : p = Popped /\ p2 = Popped'
  BY <1>3
<1>6. InOrder(outbox, heard, p) /\ p <= p2
  BY <1>2, <1>3, <1>5
<1>7. InOrder(outbox', heard', p2)
  <2>1. CASE Quiet
    BY <1>4, <1>6, <2>1, LaterInOrder DEF Quiet
  <2>2. CASE BringsMsg
    <3>1. got'.msg = p2 /\ p < p2
      BY <1>3, <1>5, <2>2 DEF BringsMsg
    <3>2. PICK e \in BoxEntry : e = Entry("msg", p2) /\ e.n = p2
      BY EntryType DEF Kinds
    <3> QED
      BY <1>4, <1>6, <2>2, <3>1, <3>2, PushInOrder DEF BringsMsg, Brings
  <2>3. CASE BringsOther
    BY <1>4, <1>6, <2>3, PushInOrder DEF BringsOther, Brings
  <2>4. CASE BringsThree
    <3>1. PICK d \in BoxEntry, e \in BoxEntry, f \in BoxEntry :
            /\ d.kind # "msg" /\ e.kind # "msg" /\ f.kind # "msg" /\ heard' = heard
            /\ outbox' = OutboxPush(OutboxPush(OutboxPush(outbox, d), e), f)
      BY <2>4 DEF BringsThree
    <3>2. PICK b : b = OutboxPush(outbox, d)
      OBVIOUS
    <3>3. b \in Seq(BoxEntry) /\ InOrder(b, heard, p2)
      BY <1>4, <1>6, <3>1, <3>2, PushShape, PushInOrder
    <3>4. PICK c : c = OutboxPush(b, e)
      OBVIOUS
    <3>5. c \in Seq(BoxEntry) /\ InOrder(c, heard, p2)
      <4>1. p2 <= p2
        OBVIOUS
      <4>2. c \in Seq(BoxEntry)
        BY <3>3, <3>4, PushShape
      <4>3. InOrder(c, heard, p2)
        BY <1>4, <3>1, <3>3, <3>4, <4>1, PushInOrder
      <4> QED
        BY <4>2, <4>3
    <3>6. InOrder(OutboxPush(c, f), heard, p2)
      <4>1. p2 <= p2
        OBVIOUS
      <4> QED
        BY <1>4, <3>1, <3>5, <4>1, PushInOrder
    <3> QED
      BY <3>1, <3>2, <3>4, <3>6
  <2>5. CASE Leaves
    <3>1. InOrder(outbox', heard', p) /\ outbox' \in Seq(BoxEntry)
      BY <1>4, <1>6, <2>5, LeaveInOrder DEF Leaves
    <3>2. heard' \in Seq(Nat)
      BY <1>4, SessTypeStep DEF SessTypeOK
    <3> QED
      BY <1>6, <3>1, <3>2, LaterInOrder
  <2>6. CASE Emptied
    BY <1>4, <1>6, <2>6, EmptyInOrder, LaterInOrder DEF Emptied
  <2> QED
    BY <2>1, <2>2, <2>3, <2>4, <2>5, <2>6, SessionSteps DEF OutboxStep
<1> QED
  BY <1>3, <1>5, <1>7

LEMMA PushedKinds ==
  ASSUME NEW box \in Seq(BoxEntry), NEW e \in BoxEntry, e.kind # "msg",
         \A i \in 1 .. Len(box) : box[i].kind # "msg"
  PROVE  \A i \in 1 .. Len(OutboxPush(box, e)) : OutboxPush(box, e)[i].kind # "msg"
<1> DEFINE r == OutboxPush(box, e)
<1>1. PICK d \in {0, 1} : /\ Len(r) = Len(box) - d + 1
                          /\ \A i \in 1 .. Len(box) - d : r[i] = box[i + d]
                          /\ r[Len(box) - d + 1] = e
  BY PushShape
<1> HIDE DEF r
<1>2. Len(box) \in Nat
  BY LenProperties
<1>3. ASSUME NEW i \in 1 .. Len(r) PROVE r[i].kind # "msg"
  <2>1. \/ r[i] = e
        \/ i + d \in 1 .. Len(box) /\ r[i] = box[i + d]
    BY <1>1, <1>2
  <2> QED
    BY <2>1
<1> QED
  BY <1>3 DEF r

LEMMA DrainedStep ==
  ASSUME SessTypeOK, IInv, Drained, [SessionNext]_vars
  PROVE  Drained'
<1> SUFFICES ASSUME linkUp', notifyErrors' = 0
             PROVE  at' = "drain" \/ \A i \in 1 .. Len(outbox') : outbox'[i].kind # "msg"
  BY DEF Drained
<1>0. outbox \in Seq(BoxEntry) /\ notifyErrors \in Nat
  BY DEF SessTypeOK
<1>1. CASE Quiet
  BY <1>1 DEF Quiet, Drained
<1>2. CASE BringsMsg
  BY <1>2 DEF BringsMsg
<1>3. CASE BringsOther
  BY <1>0, <1>3, PushedKinds DEF BringsOther, Brings, Drained
<1>4. CASE BringsThree
  <2>1. PICK d \in BoxEntry, e \in BoxEntry, f \in BoxEntry :
          /\ d.kind # "msg" /\ e.kind # "msg" /\ f.kind # "msg" /\ at # "drain"
          /\ linkUp /\ notifyErrors = 0
          /\ outbox' = OutboxPush(OutboxPush(OutboxPush(outbox, d), e), f)
    BY <1>4 DEF BringsThree
  <2>2. PICK b : b = OutboxPush(outbox, d)
    OBVIOUS
  <2>3. b \in Seq(BoxEntry) /\ \A i \in 1 .. Len(b) : b[i].kind # "msg"
    BY <1>0, <2>1, <2>2, PushShape, PushedKinds DEF Drained
  <2>4. PICK c : c = OutboxPush(b, e)
    OBVIOUS
  <2>5. c \in Seq(BoxEntry) /\ \A i \in 1 .. Len(c) : c[i].kind # "msg"
    BY <2>1, <2>3, <2>4, PushShape, PushedKinds
  <2> QED
    BY <2>1, <2>2, <2>4, <2>5, PushedKinds
<1>5. CASE Leaves
  <2>1. linkUp /\ notifyErrors = 0 /\ notifyErrors' = notifyErrors
    BY <1>0, <1>5 DEF Leaves
  <2>2. CASE at = "drain"
    BY <1>0, <1>5, <2>1, <2>2 DEF Leaves
  <2>3. CASE at # "drain"
    <3>1. \A i \in 1 .. Len(outbox) : outbox[i].kind # "msg"
      BY <2>1, <2>3 DEF Drained
    <3>2. /\ Len(Tail(outbox)) = Len(outbox) - 1 /\ Len(outbox) \in Nat
          /\ \A i \in 1 .. Len(Tail(outbox)) : Tail(outbox)[i] = outbox[i + 1]
      BY <1>0, <1>5, HeadTailProperties, LenProperties DEF Leaves
    <3>3. \A i \in 1 .. Len(Tail(outbox)) : i + 1 \in 1 .. Len(outbox)
      BY <3>2
    <3> QED
      BY <1>5, <3>1, <3>2, <3>3 DEF Leaves
  <2> QED
    BY <2>2, <2>3
<1>6. CASE Emptied
  BY <1>6 DEF Emptied
<1> QED
  BY <1>1, <1>2, <1>3, <1>4, <1>5, <1>6, SessionSteps DEF OutboxStep
-----------------------------------------------------------------------------
LEMMA SessInitInv == SessionInit => SessIInv
<1> SUFFICES ASSUME SessionInit PROVE SessIInv
  OBVIOUS
<1>1. IInv
  BY InitInv DEF SessionInit
<1>2. SessTypeOK
  <2>1. IsFiniteSet(ContactSlots)
    BY SessionAssumption, FS_Interval DEF ContactSlots
  <2>2. Cardinality(present) \in Nat
    BY <2>1, FS_Subset, FS_CardinalityType DEF SessionInit
  <2> QED
    BY <2>2, EmptySeq DEF SessionInit, SessTypeOK, NoStream
<1>3. Growing
  BY NoneType, SlotsAssumption DEF SessionInit, Init, Growing, Slots, NoRecord
<1>4. InOrder(outbox, heard, Popped) /\ Drained
  BY DEF SessionInit, InOrder, Drained
<1> QED
  BY <1>1, <1>2, <1>3, <1>4 DEF SessIInv, HeardInv

LEMMA SessNextInv == SessIInv /\ [SessionNext]_vars => SessIInv'
<1> SUFFICES ASSUME SessIInv, [SessionNext]_vars PROVE SessIInv'
  OBVIOUS
<1>1. IInv'
  BY SessionQueue, NextInv DEF SessIInv
<1> QED
  BY <1>1, SessTypeStep, HeardStep, DrainedStep DEF SessIInv

LEMMA SessInvariance == SessionSpec => []SessIInv
BY SessInitInv, SessNextInv, PTL DEF SessionSpec

(* The session uses the message queue as the queue's own specification     *)
(* allows, so that every theorem above of the queue holds of the composed  *)
(* system (ble.rs:977-1070 pops, the radio task pushes).                   *)
THEOREM SessionUsesTheQueue == SessionSpec => Spec
<1>1. SessionInit => Init
  BY DEF SessionInit
<1> QED
  BY <1>1, SessionQueue, PTL DEF SessionSpec, Spec

(* While nothing fails and the ring is not filled, the phone hears the     *)
(* messages in the order of their reception and none twice, across         *)
(* reconnections, displaced notifications and pops that overtake the push  *)
(* of their slot (ble.rs:852-857, 977-1070).                               *)
THEOREM PhoneHearsInOrder == SessionSpec => []HeardInOrder
<1>1. SessIInv => HeardInOrder
  BY DEF SessIInv, HeardInv, Calm, InOrder, HeardInOrder
<1> QED
  BY <1>1, SessInvariance, PTL

(* A message popped for the phone leaves a full outbox for another entry   *)
(* only after a notification failed, for any capacity of the outbox: it is *)
(* there only while the drain that follows the response empties it, and    *)
(* the drain queues nothing (ble.rs:2064-2095).                            *)
THEOREM MessagesAreNotDisplaced == SessionSpec => MessageNotDisplaced
<1> DEFINE Kept == \A n \in 1 .. MaxMsgs : linkUp /\ Displaced(Entry("msg", n)) => notifyErrors > 0
<1>1. SessIInv /\ [SessionNext]_vars => [Kept]_vars
  <2> SUFFICES ASSUME SessIInv, [SessionNext]_vars, linkUp, notifyErrors = 0,
                      NEW n \in 1 .. MaxMsgs, Displaced(Entry("msg", n))
               PROVE  FALSE
    BY DEF SessIInv, SessTypeOK
  <2>1. /\ outbox \in Seq(BoxEntry) /\ outbox # << >> /\ Head(outbox).kind = "msg"
        /\ Len(outbox') = OutboxCap /\ Len(outbox) = OutboxCap /\ outbox' # outbox
    BY DEF SessIInv, SessTypeOK, Displaced, Entry
  <2>2. 1 \in 1 .. Len(outbox) /\ outbox[1].kind = "msg" /\ OutboxCap \in Nat /\ OutboxCap # 0
    BY <2>1, HeadTailProperties, LenProperties, SessionAssumption
  <2>3. at = "drain"
    BY <2>2 DEF SessIInv, Drained
  <2>4. Leaves => Len(outbox') # OutboxCap
    BY <2>1, <2>2, HeadTailProperties DEF Leaves
  <2>5. Emptied => Len(outbox') # OutboxCap
    BY <2>2, EmptySeq DEF Emptied
  <2> QED
    BY <2>1, <2>3, <2>4, <2>5, SessionSteps
       DEF OutboxStep, Quiet, BringsMsg, BringsOther, BringsThree, Brings, SessIInv
<1> QED
  BY <1>1, SessInvariance, PTL DEF SessionSpec, MessageNotDisplaced
=============================================================================
