--------------------------- MODULE InboxUiProofs ---------------------------
(***************************************************************************)
(* Proofs about what the badge's owner reads and writes on: the inbox of   *)
(* private messages (PmInbox) and the screens (Ui).                        *)
(*                                                                         *)
(* The inbox, for any number of peers, any size of the ring and of the     *)
(* list of read cursors, and any mix of received, sent, lost and           *)
(* acknowledged messages.  InboxIsTruthful speaks of counts; the inductive *)
(* invariant says why they agree: ids tell entries apart wherever          *)
(* swap_remove moves them (EntryInv), what was opened is not younger than  *)
(* its peer's cursor, so that an unread message is one the badge still     *)
(* owes (CursorInv), and a hash is stamped once, into an entry for the     *)
(* peer it was sent to (HashInv).                                          *)
(*                                                                         *)
(* The screens, for any number of events, presets, pages, eggs and taps    *)
(* and texts of any length: every menu's cursor is on a row, an edited row *)
(* has a value and a question's row asks it (MenuOK), the game's views are *)
(* open on its screen only (ViewInv), and who has an entry open there came *)
(* by a tap, or it is the game's own (DraftInv).                           *)
(***************************************************************************)
EXTENDS PmInbox, Ui, FiniteSetTheorems, WellFoundedInduction, SequenceTheorems, TLAPS

Entry == [peer : PmPeers, dir : {"in", "out"}, at : Nat,
          delivery : {"sent", "delivered", "failed"}, hash : Nat, id : Nat]
ReadMark == [peer : PmPeers, at : Nat]
Positions == 1 .. Len(inbox)
Ids == 1 .. Len(written)

InboxTypes ==
  /\ inbox \in Seq(Entry) /\ cursors \in Seq(ReadMark) /\ unread \in Nat
  /\ screen \in [mode : PmPeers \cup {"inbox"}, cursor : Nat, scroll : Nat, line : Nat]
  /\ compose \in PmPeers \cup {NoPeer} /\ pmNow \in Nat
  /\ written \in Seq(PmPeers) /\ pmAir \in Seq(Ids)
  /\ transmitted \subseteq Ids /\ acked \subseteq transmitted /\ opened \subseteq Ids

(* Every entry is one of the messages written, and none is there twice.    *)
EntryInv ==
  /\ \A i \in Positions : inbox[i].id \in Ids /\ inbox[i].at <= pmNow
  /\ \A i, j \in Positions : inbox[i].id = inbox[j].id => i = j

(* The received messages whose conversation was not opened since.          *)
Unopened == {e.id : e \in {x \in Entries : Incoming(x)}} \ opened

(* A message that was opened is not younger than its peer's cursor.        *)
Covered(i) == Incoming(inbox[i]) /\ inbox[i].id \in opened
                => inbox[i].at <= ReadCursor(inbox[i].peer)
OpenedCovered == \A i \in Positions : Covered(i)

(* With room for a cursor per peer, what was opened is older than its      *)
(* cursor, and the badge counts what was not.                              *)
CursorInv ==
  Cardinality(PmPeers) <= ReadCursorsCap =>
    /\ \A i, j \in 1 .. Len(cursors) : cursors[i].peer = cursors[j].peer => i = j
    /\ OpenedCovered
    /\ unread >= Cardinality(Unopened)

(* A hash is stamped once, into an entry for the peer it was sent to, and  *)
(* a delivered entry carries a hash that was acknowledged.                 *)
Stamped(e) == e.dir = "out" /\ e.hash # 0
HashInv ==
  /\ \A i \in 1 .. Len(pmAir) :
       /\ pmAir[i] \notin transmitted
       /\ \A j \in 1 .. Len(pmAir) : pmAir[i] = pmAir[j] => i = j
  /\ \A i \in Positions :
       /\ Stamped(inbox[i]) => inbox[i].hash \in transmitted /\ written[inbox[i].hash] = inbox[i].peer
       /\ inbox[i].dir = "out" /\ inbox[i].delivery = "delivered" => inbox[i].hash \in acked
       /\ \A j \in Positions :
            Stamped(inbox[i]) /\ Stamped(inbox[j]) /\ inbox[i].hash = inbox[j].hash => i = j

InboxIInv == InboxTypes /\ EntryInv /\ CursorInv /\ HashInv

-----------------------------------------------------------------------------
(* Helpers.                                                                *)

LEMMA LeastNatural ==
  ASSUME NEW S \in SUBSET Nat, S # {}
  PROVE  \E x \in S : \A y \in S : x <= y
<1>1. PICK m \in S : TRUE
  OBVIOUS
<1> DEFINE low == {x \in S : x <= m}
           down == {0 .. x : x \in low}
<1>2. IsWellFoundedOn(StrictSubsetOrdering(0 .. m), SUBSET (0 .. m))
  <2>1. IsFiniteSet(0 .. m)
    BY FS_Interval
  <2>2. FiniteSubsetsOf(0 .. m) = SUBSET (0 .. m)
    BY <2>1, FS_FiniteSubsetsOfFinite
  <2> QED
    BY <2>2, FS_StrictSubsetOrderingWellFounded, Zenon
<1>3. down \subseteq SUBSET (0 .. m) /\ down # {}
  BY <1>1
<1>4. PICK d \in down :
        \A e \in down : <<e, d>> \notin StrictSubsetOrdering(0 .. m)
  BY <1>2, <1>3, WFMin
<1>5. PICK x \in low : d = 0 .. x
  BY <1>4
<1>6. \A y \in low : ~(y < x)
  <2> SUFFICES ASSUME NEW y \in low, y < x PROVE FALSE
    OBVIOUS
  <2>1. 0 .. y \subseteq 0 .. x /\ x \notin 0 .. y /\ x \in 0 .. x
    OBVIOUS
  <2>2. 0 .. y \in down
    OBVIOUS
  <2> QED
    BY <1>4, <1>5, <2>1, <2>2, <1>3 DEF StrictSubsetOrdering
<1>7. \A y \in S : x <= y
  BY <1>5, <1>6
<1> QED
  BY <1>5, <1>7

LEMMA OldestInside ==
  ASSUME NEW S, NEW s \in Seq(S), s # << >>, \A i \in 1 .. Len(s) : s[i].at \in Nat
  PROVE  Oldest(s) \in 1 .. Len(s)
<1>1. DOMAIN s = 1 .. Len(s) /\ Len(s) \in Nat /\ 1 \in 1 .. Len(s)
  BY EmptySeq, LenProperties
<1> DEFINE times == {s[i].at : i \in 1 .. Len(s)}
<1>2. PICK t \in times : \A u \in times : t <= u
  <2>1. times \in SUBSET Nat /\ times # {}
    BY <1>1
  <2> HIDE DEF times
  <2> QED
    BY <2>1, LeastNatural
<1> DEFINE firsts == {i \in 1 .. Len(s) : s[i].at = t}
<1>3. PICK i \in firsts : \A j \in firsts : i <= j
  <2>1. firsts \in SUBSET Nat /\ firsts # {}
    BY <1>1, <1>2
  <2> HIDE DEF firsts
  <2> QED
    BY <2>1, LeastNatural
<1>4. \A j \in 1 .. Len(s) : s[i].at < s[j].at \/ (s[i].at = s[j].at /\ i <= j)
  <2> SUFFICES ASSUME NEW j \in 1 .. Len(s) PROVE s[i].at < s[j].at \/ (s[i].at = s[j].at /\ i <= j)
    OBVIOUS
  <2>1. t <= s[j].at /\ t = s[i].at /\ s[j].at \in Nat /\ t \in Nat
    BY <1>2, <1>3
  <2>2. CASE s[j].at = t
    <3>1. j \in firsts
      BY <2>2
    <3> QED
      BY <1>3, <2>1, <2>2, <3>1
  <2>3. CASE s[j].at # t
    BY <2>1, <2>3
  <2> QED
    BY <2>2, <2>3
<1>5. \E k \in DOMAIN s : \A j \in DOMAIN s : s[k].at < s[j].at \/ (s[k].at = s[j].at /\ k <= j)
  BY <1>1, <1>3, <1>4
<1> QED
  BY <1>1, <1>5 DEF Oldest

LEMMA SwapRemoved ==
  ASSUME NEW S, NEW s \in Seq(S), NEW i \in 1 .. Len(s)
  PROVE  /\ SwapRemove(s, i) \in Seq(S) /\ Len(SwapRemove(s, i)) = Len(s) - 1
         /\ \A k \in 1 .. Len(s) - 1 :
              SwapRemove(s, i)[k] = IF k = i THEN s[Len(s)] ELSE s[k]
<1> DEFINE t == [s EXCEPT ![i] = s[Len(s)]]
<1>1. Len(s) \in Nat /\ Len(s) >= 1 /\ Len(s) \in 1 .. Len(s) /\ s[Len(s)] \in S
  BY ElementOfSeq, LenProperties
<1>2. t \in Seq(S) /\ Len(t) = Len(s) /\ \A k \in 1 .. Len(s) : t[k] = IF k = i THEN s[Len(s)] ELSE s[k]
  BY <1>1, ExceptSeq, LenProperties
<1> HIDE DEF t
<1>3. /\ SubSeq(t, 1, Len(s) - 1) \in Seq(S) /\ Len(SubSeq(t, 1, Len(s) - 1)) = Len(s) - 1
      /\ \A k \in 1 .. Len(s) - 1 : SubSeq(t, 1, Len(s) - 1)[k] = t[k]
  BY <1>1, <1>2, SubSeqProperties
<1>4. SwapRemove(s, i) = SubSeq(t, 1, Len(s) - 1)
  BY DEF SwapRemove, t
<1> QED
  BY <1>1, <1>2, <1>3, <1>4

(* The messages the badge still has to announce, by position.              *)
LEMMA UnopenedIs ==
  ASSUME inbox \in Seq(Entry)
  PROVE  Unopened = {inbox[i].id : i \in {k \in Positions : Incoming(inbox[k])}} \ opened
<1>1. Entries = {inbox[i] : i \in Positions}
  BY LenProperties DEF Entries, ToSet, Positions
<1> QED
  BY <1>1 DEF Unopened

LEMMA UnopenedFinite ==
  ASSUME opened \in SUBSET Ids, written \in Seq(PmPeers), inbox \in Seq(Entry), EntryInv
  PROVE  IsFiniteSet(Unopened) /\ Cardinality(Unopened) \in Nat /\ Unopened \subseteq Ids
<1>1. Unopened \subseteq Ids
  BY UnopenedIs DEF EntryInv
<1>2. IsFiniteSet(Ids)
  BY LenProperties, FS_Interval DEF Ids
<1> QED
  BY <1>1, <1>2, FS_Subset, FS_CardinalityType

(* An unread message was not opened: its conversation's cursor is older.   *)
LEMMA UnreadIsUnopened ==
  ASSUME InboxTypes, EntryInv, CursorInv, Cardinality(PmPeers) <= ReadCursorsCap,
         NEW i \in Positions, IsUnread(inbox[i]), ReadCursor(inbox[i].peer) \in Nat
  PROVE  inbox[i].id \in Unopened
<1>1. Incoming(inbox[i]) /\ ~(inbox[i].at <= ReadCursor(inbox[i].peer))
  <2>0. inbox[i] \in Entry
    BY ElementOfSeq DEF InboxTypes, Positions
  <2>1. inbox[i].at \in Nat
    BY <2>0 DEF Entry
  <2> QED
    BY <2>1 DEF IsUnread
<1> QED
  BY <1>1, UnopenedIs DEF InboxTypes, CursorInv, OpenedCovered, Covered

LEMMA CursorIsNat ==
  ASSUME cursors \in Seq(ReadMark), NEW p
  PROVE  ReadCursor(p) \in Nat
<1>1. ToSet(cursors) = {cursors[i] : i \in 1 .. Len(cursors)}
  BY LenProperties DEF ToSet
<1>2. \A c \in ToSet(cursors) : c.at \in Nat
  <2>1. \A c \in ToSet(cursors) : c \in ReadMark
    BY <1>1, ElementOfSeq
  <2> QED
    BY <2>1 DEF ReadMark
<1> QED
  BY <1>2 DEF ReadCursor

(* The cursor of a peer that has one entry in the list.                    *)
CursorIn(s, p) == IF \E c \in ToSet(s) : c.peer = p
                  THEN (CHOOSE c \in ToSet(s) : c.peer = p).at ELSE 0

LEMMA CursorIs ==
  ASSUME NEW s \in Seq(ReadMark),
         \A i, j \in 1 .. Len(s) : s[i].peer = s[j].peer => i = j
  PROVE  /\ \A i \in 1 .. Len(s) : CursorIn(s, s[i].peer) = s[i].at
         /\ \A p : (\A i \in 1 .. Len(s) : s[i].peer # p) => CursorIn(s, p) = 0
<1>1. ToSet(s) = {s[i] : i \in 1 .. Len(s)}
  BY LenProperties DEF ToSet
<1>2. ASSUME NEW i \in 1 .. Len(s)
      PROVE  CursorIn(s, s[i].peer) = s[i].at
  <2>1. s[i] \in ToSet(s) /\ \A c \in ToSet(s) : c.peer = s[i].peer => c = s[i]
    BY <1>1
  <2>2. (CHOOSE c \in ToSet(s) : c.peer = s[i].peer) = s[i]
    BY <2>1
  <2> QED
    BY <2>1, <2>2 DEF CursorIn
<1> QED
  BY <1>1, <1>2 DEF CursorIn

-----------------------------------------------------------------------------
(* A message enters the ring.                                              *)

Victim == Oldest(inbox)

LEMMA RoomIs ==
  ASSUME inbox \in Seq(Entry)
  PROVE  /\ Room(inbox) \in Seq(Entry)
         /\ Len(inbox) = MaxEntries =>
              /\ Victim \in Positions /\ Len(inbox) \in Positions
              /\ Len(Room(inbox)) = Len(inbox) - 1
              /\ \A k \in 1 .. Len(inbox) - 1 :
                   Room(inbox)[k] = IF k = Victim THEN inbox[Len(inbox)] ELSE inbox[k]
         /\ Len(inbox) # MaxEntries => Room(inbox) = inbox
<1>1. CASE Len(inbox) = MaxEntries
  <2>1. Len(inbox) \in Nat \ {0} /\ inbox # << >>
    BY <1>1, PmConstants, EmptySeq
  <2>2. \A i \in 1 .. Len(inbox) : inbox[i].at \in Nat
    <3>1. \A i \in 1 .. Len(inbox) : inbox[i] \in Entry
      BY ElementOfSeq
    <3> QED
      BY <3>1 DEF Entry
  <2>3. Victim \in 1 .. Len(inbox)
    BY <2>1, <2>2, OldestInside DEF Victim
  <2>4. Room(inbox) = SwapRemove(inbox, Victim)
    BY <1>1 DEF Room, Victim
  <2> HIDE DEF Victim
  <2>5. /\ SwapRemove(inbox, Victim) \in Seq(Entry)
        /\ Len(SwapRemove(inbox, Victim)) = Len(inbox) - 1
        /\ \A k \in 1 .. Len(inbox) - 1 :
             SwapRemove(inbox, Victim)[k] = IF k = Victim THEN inbox[Len(inbox)] ELSE inbox[k]
    BY <2>3, SwapRemoved
  <2> QED
    BY <1>1, <2>1, <2>3, <2>4, <2>5 DEF Positions
<1>2. CASE Len(inbox) # MaxEntries
  BY <1>2 DEF Room
<1> QED
  BY <1>1, <1>2

(* Where the entries of the ring come from, and which ones stay.           *)
Kept == IF Len(inbox) = MaxEntries THEN Positions \ {Victim} ELSE Positions

LEMMA PushIs ==
  ASSUME inbox \in Seq(Entry), NEW e \in Entry, NEW bump, PushEntry(e, bump)
  PROVE  /\ inbox' \in Seq(Entry)
         /\ Len(inbox') \in Nat \ {0} /\ inbox'[Len(inbox')] = e
         /\ \E from \in [1 .. Len(inbox') - 1 -> Kept] :
              /\ \A k \in 1 .. Len(inbox') - 1 : inbox'[k] = inbox[from[k]]
              /\ \A k, l \in 1 .. Len(inbox') - 1 : from[k] = from[l] => k = l
              /\ \A i \in Kept : \E k \in 1 .. Len(inbox') - 1 : from[k] = i
<1> DEFINE r == Room(inbox)
<1>1. r \in Seq(Entry) /\ inbox' = Append(r, e) /\ Len(inbox) \in Nat /\ Len(r) \in Nat
  BY RoomIs, LenProperties DEF PushEntry
<1> HIDE DEF r
<1>2. /\ Append(r, e) \in Seq(Entry) /\ Len(Append(r, e)) = Len(r) + 1
      /\ \A k \in 1 .. Len(r) : Append(r, e)[k] = r[k]
      /\ Append(r, e)[Len(r) + 1] = e
  BY <1>1, AppendProperties
<1>3. Len(inbox') - 1 = Len(r) /\ Len(inbox') \in Nat \ {0}
  BY <1>1, <1>2
<1>6. /\ inbox' \in Seq(Entry)
      /\ Len(inbox') \in Nat \ {0} /\ inbox'[Len(inbox')] = e
  BY <1>1, <1>2, <1>3
<1>7. SUFFICES \E from \in [1 .. Len(r) -> Kept] :
              /\ \A k \in 1 .. Len(r) : inbox'[k] = inbox[from[k]]
              /\ \A k, l \in 1 .. Len(r) : from[k] = from[l] => k = l
              /\ \A i \in Kept : \E k \in 1 .. Len(r) : from[k] = i
  BY <1>3, <1>6
<1>4. CASE Len(inbox) = MaxEntries
  <2>1. /\ Victim \in 1 .. Len(inbox) /\ Len(r) = Len(inbox) - 1
        /\ \A k \in 1 .. Len(r) : r[k] = IF k = Victim THEN inbox[Len(inbox)] ELSE inbox[k]
    BY <1>4, RoomIs DEF r, Positions
  <2> DEFINE n == Len(inbox)
             v == Victim
             from == [k \in 1 .. n - 1 |-> IF k = v THEN n ELSE k]
  <2> HIDE DEF n, v
  <2>2. n \in Nat /\ v \in 1 .. n /\ Kept = (1 .. n) \ {v}
    BY <1>1, <1>4, <2>1 DEF n, v, Kept, Positions
  <2>3. from \in [1 .. n - 1 -> (1 .. n) \ {v}]
    BY <2>2
  <2>4. \A k, l \in 1 .. n - 1 : from[k] = from[l] => k = l
    BY <2>2
  <2>5. \A i \in (1 .. n) \ {v} : \E k \in 1 .. n - 1 : from[k] = i
    <3> SUFFICES ASSUME NEW i \in (1 .. n) \ {v} PROVE \E k \in 1 .. n - 1 : from[k] = i
      OBVIOUS
    <3>1. CASE i = n
      <4>1. v \in 1 .. n - 1 /\ from[v] = i
        BY <2>2, <3>1
      <4> QED
        BY <4>1
    <3>2. CASE i # n
      <4>1. i \in 1 .. n - 1 /\ from[i] = i
        BY <2>2, <3>2
      <4> QED
        BY <4>1
    <3> QED
      BY <3>1, <3>2
  <2>6. \A k \in 1 .. n - 1 : inbox'[k] = inbox[from[k]]
    <3>1. Len(r) = n - 1 /\ \A k \in 1 .. n - 1 : r[k] = IF k = v THEN inbox[n] ELSE inbox[k]
      BY <2>1 DEF n, v
    <3>2. \A k \in 1 .. n - 1 : inbox'[k] = r[k]
      BY <1>1, <1>2, <3>1
    <3> QED
      BY <2>2, <3>1, <3>2
  <2>7. Len(r) = n - 1
    BY <2>1 DEF n
  <2> HIDE DEF from
  <2>8. from \in [1 .. Len(r) -> Kept]
    BY <2>2, <2>3, <2>7
  <2>9. \A k \in 1 .. Len(r) : inbox'[k] = inbox[from[k]]
    BY <2>6, <2>7
  <2>10. \A k, l \in 1 .. Len(r) : from[k] = from[l] => k = l
    BY <2>4, <2>7
  <2>11. \A i \in Kept : \E k \in 1 .. Len(r) : from[k] = i
    BY <2>2, <2>5, <2>7
  <2> QED
    BY <2>8, <2>9, <2>10, <2>11
<1>5. CASE Len(inbox) # MaxEntries
  <2>1. r = inbox /\ Kept = 1 .. Len(inbox)
    BY <1>5, RoomIs DEF r, Kept, Positions
  <2> DEFINE from == [k \in 1 .. Len(r) |-> k]
  <2>2. /\ from \in [1 .. Len(r) -> Kept]
        /\ \A k \in 1 .. Len(r) : inbox'[k] = inbox[from[k]]
        /\ \A k, l \in 1 .. Len(r) : from[k] = from[l] => k = l
        /\ \A i \in Kept : \E k \in 1 .. Len(r) : from[k] = i
    BY <1>1, <1>2, <2>1
  <2> HIDE DEF from
  <2> QED
    BY <2>2
<1> QED
  BY <1>4, <1>5

(* The entry of a message that was just written or received.               *)
Fresh(e) ==
  /\ e \in Entry /\ e.id = Len(written) + 1 /\ e.at = pmNow /\ e.hash = 0
  /\ e.dir = "out" => e.delivery = "sent"
  /\ written' = Append(written, e.peer)

LEMMA IdsGrow ==
  ASSUME written \in Seq(PmPeers), NEW p \in PmPeers, written' = Append(written, p)
  PROVE  /\ written' \in Seq(PmPeers) /\ Len(written) \in Nat
         /\ Ids' = Ids \cup {Len(written) + 1} /\ Len(written) + 1 \notin Ids
         /\ \A h \in Ids : written'[h] = written[h]
<1>1. Len(written) \in Nat
  BY LenProperties
<1>2. /\ Append(written, p) \in Seq(PmPeers) /\ Len(Append(written, p)) = Len(written) + 1
      /\ \A h \in 1 .. Len(written) : Append(written, p)[h] = written[h]
  BY AppendProperties
<1>3. 1 .. Len(written) + 1 = (1 .. Len(written)) \cup {Len(written) + 1}
  BY <1>1
<1> QED
  BY <1>1, <1>2, <1>3 DEF Ids

LEMMA PushKeepsEntries ==
  ASSUME InboxIInv, NEW e, Fresh(e), NEW bump, PushEntry(e, bump), UNCHANGED pmNow
  PROVE  inbox' \in Seq(Entry) /\ EntryInv'
<1>0. /\ inbox \in Seq(Entry) /\ EntryInv /\ written \in Seq(PmPeers) /\ pmNow \in Nat
      /\ e \in Entry /\ e.peer \in PmPeers
  BY DEF InboxIInv, InboxTypes, Fresh, Entry
<1> DEFINE m == Len(inbox') - 1
<1>1. /\ inbox' \in Seq(Entry) /\ Len(inbox') \in Nat \ {0} /\ inbox'[Len(inbox')] = e
  BY <1>0, PushIs
<1>2. PICK from \in [1 .. m -> Kept] :
              /\ \A k \in 1 .. m : inbox'[k] = inbox[from[k]]
              /\ \A k, l \in 1 .. m : from[k] = from[l] => k = l
  BY <1>0, PushIs
<1>3. Positions' = 1 .. m + 1 /\ m \in Nat /\ m + 1 = Len(inbox') /\ Kept \subseteq Positions
  BY <1>1 DEF Positions, Kept
<1>4. /\ Ids' = Ids \cup {Len(written) + 1} /\ Len(written) + 1 \notin Ids
  BY <1>0, IdsGrow DEF Fresh
<1> HIDE DEF m
<1>5. \A k \in 1 .. m : inbox'[k].id \in Ids /\ inbox'[k].at <= pmNow
  BY <1>0, <1>2, <1>3 DEF EntryInv
<1>6. inbox'[m + 1].id = Len(written) + 1 /\ inbox'[m + 1].at = pmNow
  BY <1>1, <1>3 DEF Fresh
<1>7. \A k \in Positions' : k \in 1 .. m \/ k = m + 1
  BY <1>3
<1>8. \A i \in Positions' : inbox'[i].id \in Ids' /\ inbox'[i].at <= pmNow'
  <2>1. pmNow <= pmNow
    BY <1>0
  <2> QED
    BY <2>1, <1>4, <1>5, <1>6, <1>7
<1>9. \A i, j \in 1 .. m : inbox'[i].id = inbox'[j].id => i = j
  BY <1>0, <1>2, <1>3 DEF EntryInv
<1>10. \A i, j \in Positions' : inbox'[i].id = inbox'[j].id => i = j
  BY <1>4, <1>5, <1>6, <1>7, <1>9
<1> QED
  BY <1>1, <1>8, <1>10 DEF EntryInv

(* The ring with the message takes and keeps what the badge announces.     *)
LEMMA PushUnopened ==
  ASSUME InboxIInv, NEW e, Fresh(e), NEW bump, PushEntry(e, bump), UNCHANGED opened
  PROVE  Unopened' \subseteq
           (IF Len(inbox) = MaxEntries THEN Unopened \ {inbox[Victim].id} ELSE Unopened)
             \cup (IF Incoming(e) THEN {e.id} ELSE {})
<1>0. /\ inbox \in Seq(Entry) /\ EntryInv /\ e \in Entry
  BY DEF InboxIInv, InboxTypes, Fresh
<1> DEFINE m == Len(inbox') - 1
<1>1. /\ inbox' \in Seq(Entry) /\ Len(inbox') \in Nat \ {0} /\ inbox'[Len(inbox')] = e
  BY <1>0, PushIs
<1>2. PICK from \in [1 .. m -> Kept] : \A k \in 1 .. m : inbox'[k] = inbox[from[k]]
  BY <1>0, PushIs
<1>3. Positions' = 1 .. m + 1 /\ m \in Nat /\ m + 1 = Len(inbox') /\ Kept \subseteq Positions
  BY <1>1 DEF Positions, Kept
<1>4. Unopened' = {inbox'[i].id : i \in {k \in Positions' : Incoming(inbox'[k])}} \ opened
  <2>1. Entries' = {inbox'[i] : i \in Positions'}
    BY <1>1, LenProperties DEF Entries, ToSet, Positions
  <2> QED
    BY <2>1 DEF Unopened, Incoming
<1>5. Unopened = {inbox[i].id : i \in {k \in Positions : Incoming(inbox[k])}} \ opened
  BY <1>0, UnopenedIs
<1> HIDE DEF m
<1> SUFFICES ASSUME NEW k \in Positions', Incoming(inbox'[k]), inbox'[k].id \notin opened
             PROVE  inbox'[k].id \in
                       (IF Len(inbox) = MaxEntries THEN Unopened \ {inbox[Victim].id} ELSE Unopened)
                         \cup (IF Incoming(e) THEN {e.id} ELSE {})
  BY <1>4
<1>6. CASE k = m + 1
  BY <1>1, <1>3, <1>6
<1>7. CASE k \in 1 .. m
  <2>1. from[k] \in Kept /\ from[k] \in Positions /\ inbox'[k] = inbox[from[k]]
    BY <1>2, <1>3, <1>7
  <2>2. inbox'[k].id \in Unopened
    BY <1>5, <2>1
  <2>3. CASE Len(inbox) = MaxEntries
    <3>1. from[k] # Victim /\ Victim \in Positions
      BY <2>1, <2>3, <1>0, RoomIs DEF Kept
    <3>2. inbox[from[k]].id # inbox[Victim].id
      BY <1>0, <2>1, <3>1 DEF EntryInv
    <3> QED
      BY <2>1, <2>2, <2>3, <3>2
  <2> QED
    BY <2>2, <2>3
<1> QED
  BY <1>3, <1>6, <1>7

LEMMA PushKeepsCursors ==
  ASSUME InboxIInv, NEW e, Fresh(e), PushEntry(e, IF Incoming(e) THEN 1 ELSE 0),
         UNCHANGED <<cursors, opened>>
  PROVE  unread' \in Nat /\ CursorInv'
<1>0. /\ InboxTypes /\ inbox \in Seq(Entry) /\ EntryInv /\ CursorInv /\ written \in Seq(PmPeers)
      /\ unread \in Nat /\ e \in Entry /\ opened \in SUBSET Ids /\ e.peer \in PmPeers
      /\ cursors \in Seq(ReadMark)
  BY DEF InboxIInv, InboxTypes, Fresh, Entry
<1> DEFINE bump == IF Incoming(e) THEN 1 ELSE 0
           lost == EvictedUnread(inbox)
<1>1. unread' = Minus(unread, lost) + bump /\ bump \in {0, 1} /\ lost \in {0, 1}
  BY DEF PushEntry, EvictedUnread
<1>2. unread' \in Nat
  BY <1>0, <1>1 DEF Minus
<1>3. IsFiniteSet(Unopened) /\ Cardinality(Unopened) \in Nat
  BY <1>0, UnopenedFinite
<1>4. \A p : ReadCursor(p)' = ReadCursor(p) /\ ReadCursor(p) \in Nat
  BY <1>0, CursorIsNat DEF ReadCursor
<1> SUFFICES ASSUME Cardinality(PmPeers) <= ReadCursorsCap
             PROVE  CursorInv'
  BY <1>2 DEF CursorInv
<1>5. \A i, j \in 1 .. Len(cursors') : cursors'[i].peer = cursors'[j].peer => i = j
  BY <1>0 DEF CursorInv
<1>6. OpenedCovered'
  <2> DEFINE m == Len(inbox') - 1
  <2>1. /\ Len(inbox') \in Nat \ {0} /\ inbox'[Len(inbox')] = e
    BY <1>0, PushIs
  <2>2. PICK from \in [1 .. m -> Kept] : \A k \in 1 .. m : inbox'[k] = inbox[from[k]]
    BY <1>0, PushIs
  <2>3. Positions' = 1 .. m + 1 /\ m \in Nat /\ m + 1 = Len(inbox') /\ Kept \subseteq Positions
    BY <2>1 DEF Positions, Kept
  <2>4. e.id \notin opened'
    BY <1>0, IdsGrow DEF Fresh
  <2> HIDE DEF m
  <2> SUFFICES ASSUME NEW i \in Positions', Incoming(inbox'[i]), inbox'[i].id \in opened'
               PROVE  Covered(i)'
    BY DEF OpenedCovered, Covered, Incoming
  <2>5. i \in 1 .. m
    BY <2>1, <2>3, <2>4
  <2>6. from[i] \in Positions /\ inbox'[i] = inbox[from[i]]
    BY <2>2, <2>3, <2>5
  <2>7. inbox[from[i]].at <= ReadCursor(inbox[from[i]].peer)
    BY <1>0, <2>6 DEF CursorInv, OpenedCovered, Covered
  <2> QED
    BY <2>6, <2>7 DEF Covered, ReadCursor
<1>7. unread' >= Cardinality(Unopened')
  <2> DEFINE old == IF Len(inbox) = MaxEntries THEN Unopened \ {inbox[Victim].id} ELSE Unopened
             new == IF Incoming(e) THEN {e.id} ELSE {}
  <2>1. Unopened' \subseteq old \cup new
    BY <1>0, PushUnopened DEF InboxIInv
  <2>2. IsFiniteSet(old) /\ Cardinality(old) \in Nat /\ Cardinality(old) + lost <= unread
    <3>0. unread >= Cardinality(Unopened)
      BY <1>0 DEF CursorInv
    <3>1. CASE lost = 1
      <4>1. Len(inbox) = MaxEntries /\ IsUnread(inbox[Victim])
        BY <3>1 DEF EvictedUnread, Victim
      <4>2. Victim \in Positions
        BY <1>0, <4>1, RoomIs
      <4>3. inbox[Victim].id \in Unopened
        BY <1>0, <1>4, <4>1, <4>2, UnreadIsUnopened
      <4>4. old = Unopened \ {inbox[Victim].id}
        BY <4>1
      <4>5. IsFiniteSet(old) /\ Cardinality(old) = Cardinality(Unopened) - 1
        <5> DEFINE v == inbox[Victim].id
        <5> HIDE DEF v
        <5>1. v \in Unopened /\ old = Unopened \ {v}
          BY <4>3, <4>4 DEF v
        <5> HIDE DEF old
        <5>2. /\ IsFiniteSet(Unopened \ {v})
              /\ Cardinality(Unopened \ {v}) = Cardinality(Unopened) - 1
          BY <1>3, <5>1, FS_RemoveElement
        <5> QED
          BY <5>1, <5>2
      <4>6. Cardinality(old) \in Nat
        BY <4>5, FS_CardinalityType
      <4> HIDE DEF lost, old
      <4> QED
        BY <1>0, <1>3, <3>0, <3>1, <4>5, <4>6
    <3>2. CASE lost = 0
      <4>1. old \in SUBSET Unopened
        OBVIOUS
      <4>2. IsFiniteSet(old) /\ Cardinality(old) <= Cardinality(Unopened)
        BY <1>3, <4>1, FS_Subset
      <4>3. Cardinality(old) \in Nat
        BY <4>2, FS_CardinalityType
      <4> HIDE DEF lost, old
      <4> QED
        BY <1>0, <1>3, <3>0, <3>2, <4>2, <4>3
    <3> QED
      BY <1>1, <3>1, <3>2
  <2> HIDE DEF old, lost
  <2>3. IsFiniteSet(old \cup new) /\ Cardinality(old \cup new) <= Cardinality(old) + bump
    <3>1. CASE Incoming(e)
      <4>1. new = {e.id} /\ bump = 1
        BY <3>1
      <4>2. IsFiniteSet(old \cup {e.id}) /\ Cardinality(old \cup {e.id}) <= Cardinality(old) + 1
        BY <2>2, FS_AddElement
      <4> QED
        BY <4>1, <4>2
    <3>2. CASE ~Incoming(e)
      <4>1. old \cup new = old /\ bump = 0
        BY <3>2
      <4> HIDE DEF new, bump
      <4> QED
        BY <4>1, <2>2
    <3> QED
      BY <3>1, <3>2
  <2> HIDE DEF new
  <2>4. Cardinality(Unopened') <= Cardinality(old \cup new) /\ Cardinality(Unopened') \in Nat
        /\ Cardinality(old \cup new) \in Nat
    BY <2>1, <2>3, FS_Subset, FS_CardinalityType
  <2>5. unread' = unread - lost + bump
    BY <1>0, <1>1, <2>2 DEF Minus
  <2> HIDE DEF bump
  <2> QED
    BY <1>0, <1>1, <2>2, <2>3, <2>4, <2>5
<1> QED
  BY <1>5, <1>6, <1>7 DEF CursorInv

LEMMA PushKeepsHashes ==
  ASSUME InboxIInv, NEW e, Fresh(e), NEW bump, PushEntry(e, bump),
         UNCHANGED <<transmitted, acked>>,
         pmAir' = pmAir \/ pmAir' = Append(pmAir, e.id)
  PROVE  pmAir' \in Seq(Ids') /\ HashInv'
<1>0. /\ inbox \in Seq(Entry) /\ HashInv /\ written \in Seq(PmPeers) /\ e \in Entry
      /\ e.peer \in PmPeers /\ transmitted \subseteq Ids /\ pmAir \in Seq(Ids)
      /\ e.id = Len(written) + 1
  BY DEF InboxIInv, InboxTypes, Fresh, Entry
<1> DEFINE m == Len(inbox') - 1
<1>1. /\ inbox' \in Seq(Entry) /\ Len(inbox') \in Nat \ {0} /\ inbox'[Len(inbox')] = e
  BY <1>0, PushIs
<1>2. PICK from \in [1 .. m -> Kept] :
              /\ \A k \in 1 .. m : inbox'[k] = inbox[from[k]]
              /\ \A k, l \in 1 .. m : from[k] = from[l] => k = l
  BY <1>0, PushIs
<1>3. Positions' = 1 .. m + 1 /\ m \in Nat /\ m + 1 = Len(inbox') /\ Kept \subseteq Positions
  BY <1>1 DEF Positions, Kept
<1>4. /\ Ids' = Ids \cup {e.id} /\ e.id \notin Ids /\ \A h \in Ids : written'[h] = written[h]
  BY <1>0, IdsGrow DEF Fresh
<1> HIDE DEF m
<1>5. \A k \in Positions' : k \in 1 .. m \/ k = m + 1
  BY <1>3
<1>6. \A k \in 1 .. m : from[k] \in Positions
  BY <1>2, <1>3
<1>7. ~Stamped(inbox'[m + 1]) /\ ~(inbox'[m + 1].dir = "out" /\ inbox'[m + 1].delivery = "delivered")
  BY <1>1, <1>3 DEF Fresh, Stamped
<1>8. \A i \in Positions' :
       /\ Stamped(inbox'[i]) => /\ inbox'[i].hash \in transmitted
                                /\ written'[inbox'[i].hash] = inbox'[i].peer
       /\ inbox'[i].dir = "out" /\ inbox'[i].delivery = "delivered" => inbox'[i].hash \in acked
  <2> SUFFICES ASSUME NEW i \in 1 .. m
               PROVE  /\ Stamped(inbox'[i]) => /\ inbox'[i].hash \in transmitted
                                                /\ written'[inbox'[i].hash] = inbox'[i].peer
                      /\ inbox'[i].dir = "out" /\ inbox'[i].delivery = "delivered"
                            => inbox'[i].hash \in acked
    BY <1>5, <1>7
  <2>1. from[i] \in Positions /\ inbox'[i] = inbox[from[i]]
    BY <1>2, <1>6
  <2> QED
    BY <1>0, <1>4, <2>1 DEF HashInv
<1>9. \A i, j \in Positions' :
        Stamped(inbox'[i]) /\ Stamped(inbox'[j]) /\ inbox'[i].hash = inbox'[j].hash => i = j
  <2> SUFFICES ASSUME NEW i \in 1 .. m, NEW j \in 1 .. m, Stamped(inbox'[i]), Stamped(inbox'[j]),
                      inbox'[i].hash = inbox'[j].hash
               PROVE  i = j
    BY <1>5, <1>7
  <2>1. /\ from[i] \in Positions /\ inbox'[i] = inbox[from[i]]
        /\ from[j] \in Positions /\ inbox'[j] = inbox[from[j]]
    BY <1>2, <1>6
  <2>2. from[i] = from[j]
    BY <1>0, <2>1 DEF HashInv
  <2> QED
    BY <1>2, <2>2
<1>10. /\ pmAir' \in Seq(Ids')
       /\ \A i \in 1 .. Len(pmAir') :
            /\ pmAir'[i] \notin transmitted
            /\ \A j \in 1 .. Len(pmAir') : pmAir'[i] = pmAir'[j] => i = j
  <2>1. Ids \subseteq Ids' /\ \A i \in 1 .. Len(pmAir) : pmAir[i] \in Ids
    BY <1>0, <1>4, ElementOfSeq
  <2>2. pmAir \in Seq(Ids')
    BY <1>0, <2>1, SeqMonotonic
  <2>3. CASE pmAir' = pmAir
    BY <1>0, <2>2, <2>3 DEF HashInv
  <2>4. CASE pmAir' = Append(pmAir, e.id)
    <3>1. Len(pmAir) \in Nat
      BY <1>0, LenProperties
    <3>2. /\ pmAir' \in Seq(Ids') /\ Len(pmAir') = Len(pmAir) + 1
          /\ \A i \in 1 .. Len(pmAir) : pmAir'[i] = pmAir[i]
          /\ pmAir'[Len(pmAir) + 1] = e.id
      BY <1>4, <2>2, <2>4, AppendProperties
    <3>3. \A i \in 1 .. Len(pmAir') : i \in 1 .. Len(pmAir) \/ i = Len(pmAir) + 1
      BY <3>1, <3>2
    <3> QED
      BY <1>0, <1>4, <2>1, <3>2, <3>3 DEF HashInv
  <2> QED
    BY <2>3, <2>4
<1> QED
  BY <1>8, <1>9, <1>10 DEF HashInv, Stamped

-----------------------------------------------------------------------------
(* The entries keep their places, only hashes and delivery marks change.   *)

SameEntries ==
  /\ inbox' \in Seq(Entry) /\ Len(inbox') = Len(inbox)
  /\ \A i \in Positions :
       /\ inbox'[i].id = inbox[i].id /\ inbox'[i].peer = inbox[i].peer
       /\ inbox'[i].dir = inbox[i].dir /\ inbox'[i].at = inbox[i].at

LEMMA SameKeepsEntries ==
  ASSUME InboxIInv, SameEntries, UNCHANGED <<written, cursors, opened, unread>>,
         pmNow' \in Nat, pmNow <= pmNow'
  PROVE  EntryInv' /\ CursorInv'
<1>0. /\ inbox \in Seq(Entry) /\ EntryInv /\ CursorInv /\ pmNow \in Nat
  BY DEF InboxIInv, InboxTypes
<1>1. Positions' = Positions /\ Ids' = Ids
  BY DEF Positions, Ids, SameEntries
<1>2. \A i \in Positions : inbox[i].at \in Nat
  <2>1. \A i \in Positions : inbox[i] \in Entry
    BY <1>0, ElementOfSeq DEF Positions
  <2> QED
    BY <2>1 DEF Entry
<1>3. EntryInv'
  BY <1>0, <1>1, <1>2 DEF EntryInv, SameEntries
<1>4. Unopened' = Unopened
  <2>1. Entries' = {inbox'[i] : i \in Positions}
    BY <1>1, LenProperties DEF Entries, ToSet, Positions, SameEntries
  <2>2. Unopened' = {inbox'[i].id : i \in {k \in Positions : Incoming(inbox'[k])}} \ opened
    BY <2>1 DEF Unopened, Incoming
  <2>3. Unopened = {inbox[i].id : i \in {k \in Positions : Incoming(inbox[k])}} \ opened
    BY <1>0, UnopenedIs
  <2> QED
    BY <2>2, <2>3 DEF SameEntries, Incoming
<1>5. OpenedCovered => OpenedCovered'
  BY <1>1 DEF OpenedCovered, Covered, Incoming, ReadCursor, SameEntries
<1> QED
  BY <1>0, <1>3, <1>4, <1>5 DEF CursorInv

LEMMA HashChanged ==
  ASSUME NEW e \in Entry, NEW h \in Nat
  PROVE  /\ [e EXCEPT !.hash = h] \in Entry
         /\ [e EXCEPT !.hash = h].hash = h /\ [e EXCEPT !.hash = h].delivery = e.delivery
         /\ [e EXCEPT !.hash = h].id = e.id /\ [e EXCEPT !.hash = h].peer = e.peer
         /\ [e EXCEPT !.hash = h].dir = e.dir /\ [e EXCEPT !.hash = h].at = e.at
BY DEF Entry

LEMMA DeliveryChanged ==
  ASSUME NEW e \in Entry, NEW d \in {"sent", "delivered", "failed"}
  PROVE  /\ [e EXCEPT !.delivery = d] \in Entry
         /\ [e EXCEPT !.delivery = d].hash = e.hash /\ [e EXCEPT !.delivery = d].delivery = d
         /\ [e EXCEPT !.delivery = d].id = e.id /\ [e EXCEPT !.delivery = d].peer = e.peer
         /\ [e EXCEPT !.delivery = d].dir = e.dir /\ [e EXCEPT !.delivery = d].at = e.at
BY DEF Entry

(* Some entries get a hash or a delivery mark.                             *)
LEMMA SameByMap ==
  ASSUME InboxTypes, NEW s, DOMAIN s = DOMAIN inbox, s = [i \in DOMAIN inbox |-> s[i]], inbox' = s,
         \A i \in Positions : \/ s[i] = inbox[i]
                              \/ \E h \in Nat : s[i] = [inbox[i] EXCEPT !.hash = h]
                              \/ \E d \in {"sent", "delivered", "failed"} :
                                    s[i] = [inbox[i] EXCEPT !.delivery = d]
  PROVE  SameEntries
<1>1. inbox \in Seq(Entry) /\ DOMAIN inbox = Positions /\ Len(inbox) \in Nat
  BY LenProperties DEF InboxTypes, Positions
<1>2. \A i \in Positions : inbox[i] \in Entry
  BY <1>1, ElementOfSeq DEF Positions
<1>3. \A i \in Positions : /\ s[i] \in Entry
                           /\ s[i].id = inbox[i].id /\ s[i].peer = inbox[i].peer
                           /\ s[i].dir = inbox[i].dir /\ s[i].at = inbox[i].at
  <2> SUFFICES ASSUME NEW i \in Positions
               PROVE  /\ s[i] \in Entry
                      /\ s[i].id = inbox[i].id /\ s[i].peer = inbox[i].peer
                      /\ s[i].dir = inbox[i].dir /\ s[i].at = inbox[i].at
    OBVIOUS
  <2> DEFINE e == inbox[i]
  <2>1. e \in Entry
    BY <1>2
  <2>2. CASE s[i] = e
    BY <2>1, <2>2
  <2>3. ASSUME NEW h \in Nat, s[i] = [e EXCEPT !.hash = h]
        PROVE  /\ s[i] \in Entry /\ s[i].id = e.id /\ s[i].peer = e.peer
               /\ s[i].dir = e.dir /\ s[i].at = e.at
    <3> DEFINE r == [e EXCEPT !.hash = h]
    <3> HIDE DEF e
    <3>1. /\ r \in Entry /\ r.id = e.id /\ r.peer = e.peer
          /\ r.dir = e.dir /\ r.at = e.at
      BY <2>1, HashChanged
    <3>2. s[i] = r
      BY <2>3
    <3> HIDE DEF r
    <3> QED
      BY <3>1, <3>2
  <2>4. ASSUME NEW d \in {"sent", "delivered", "failed"}, s[i] = [e EXCEPT !.delivery = d]
        PROVE  /\ s[i] \in Entry /\ s[i].id = e.id /\ s[i].peer = e.peer
               /\ s[i].dir = e.dir /\ s[i].at = e.at
    <3> DEFINE r == [e EXCEPT !.delivery = d]
    <3> HIDE DEF e
    <3>1. /\ r \in Entry /\ r.id = e.id /\ r.peer = e.peer
          /\ r.dir = e.dir /\ r.at = e.at
      BY <2>1, DeliveryChanged
    <3>2. s[i] = r
      BY <2>4
    <3> HIDE DEF r
    <3> QED
      BY <3>1, <3>2
  <2> QED
    BY <2>2, <2>3, <2>4
<1>4. s \in [1 .. Len(inbox) -> Entry]
  BY <1>1, <1>3 DEF Positions
<1>5. s \in Seq(Entry) /\ Len(s) = Len(inbox)
  BY <1>1, <1>4
<1> QED
  BY <1>3, <1>5 DEF SameEntries

LEMMA AirTail ==
  ASSUME InboxIInv, pmAir # << >>, pmAir' = Tail(pmAir), UNCHANGED written,
         transmitted' = transmitted \/ transmitted' = transmitted \cup {Head(pmAir)}
  PROVE  /\ pmAir' \in Seq(Ids') /\ Head(pmAir) \in Ids /\ Head(pmAir) \notin transmitted
         /\ \A i \in 1 .. Len(pmAir') :
              /\ pmAir'[i] \notin transmitted'
              /\ \A j \in 1 .. Len(pmAir') : pmAir'[i] = pmAir'[j] => i = j
<1>1. pmAir \in Seq(Ids) /\ HashInv /\ Ids' = Ids
  BY DEF InboxIInv, InboxTypes, Ids
<1>2. Len(pmAir) \in Nat \ {0}
  BY <1>1, EmptySeq
<1>3. Head(pmAir) = pmAir[1] /\ Head(pmAir) \in Ids /\ 1 \in 1 .. Len(pmAir)
  BY <1>1, <1>2, HeadTailProperties
<1>4. /\ pmAir' \in Seq(Ids) /\ Len(pmAir') = Len(pmAir) - 1
      /\ \A i \in 1 .. Len(pmAir') : pmAir'[i] = pmAir[i + 1]
  BY <1>1, <1>2, HeadTailProperties
<1>5. \A i \in 1 .. Len(pmAir') : i + 1 \in 1 .. Len(pmAir) /\ i + 1 # 1
  BY <1>2, <1>4
<1>6. ASSUME NEW i \in 1 .. Len(pmAir')
      PROVE  /\ pmAir'[i] \notin transmitted'
             /\ \A j \in 1 .. Len(pmAir') : pmAir'[i] = pmAir'[j] => i = j
  <2>1. pmAir'[i] = pmAir[i + 1] /\ i + 1 \in 1 .. Len(pmAir) /\ i + 1 # 1
    BY <1>4, <1>5
  <2>2. pmAir[i + 1] # pmAir[1] /\ pmAir[i + 1] \notin transmitted
    BY <1>1, <1>3, <2>1 DEF HashInv
  <2>3. ASSUME NEW j \in 1 .. Len(pmAir'), pmAir'[i] = pmAir'[j]
        PROVE  i = j
    <3>1. i + 1 = j + 1
      BY <1>1, <1>4, <1>5, <2>1, <2>3 DEF HashInv
    <3> QED
      BY <3>1
  <2> QED
    BY <1>3, <2>1, <2>2, <2>3
<1> QED
  BY <1>1, <1>3, <1>4, <1>6 DEF HashInv

LEMMA TransmitStep ==
  ASSUME InboxIInv, TransmitPm
  PROVE  InboxIInv'
<1> DEFINE h == Head(pmAir)
           p == written[h]
           hits == {i \in DOMAIN inbox : inbox[i].peer = p /\ Unstamped(inbox[i])}
<1>0. /\ InboxTypes /\ HashInv /\ inbox \in Seq(Entry) /\ written \in Seq(PmPeers)
      /\ transmitted \subseteq Ids /\ acked \subseteq transmitted /\ pmNow \in Nat
  BY DEF InboxIInv, InboxTypes
<1>1. /\ pmAir' \in Seq(Ids') /\ h \in Ids /\ h \notin transmitted
      /\ \A i \in 1 .. Len(pmAir') :
           /\ pmAir'[i] \notin transmitted'
           /\ \A j \in 1 .. Len(pmAir') : pmAir'[i] = pmAir'[j] => i = j
  BY AirTail DEF TransmitPm
<1>2. h \in Nat \ {0}
  <2>1. Len(written) \in Nat
    BY <1>0, LenProperties
  <2> QED
    BY <1>1, <2>1 DEF Ids
<1>3. /\ inbox' = Stamp(p, h) /\ transmitted' = transmitted \cup {h}
      /\ UNCHANGED <<cursors, unread, screen, compose, pmNow, written, acked, opened>>
  BY DEF TransmitPm
<1>4. DOMAIN inbox = Positions /\ \A i \in Positions : inbox[i] \in Entry
  BY <1>0, LenProperties, ElementOfSeq DEF Positions
<1>5. /\ DOMAIN Stamp(p, h) = DOMAIN inbox
      /\ Stamp(p, h) = [i \in DOMAIN inbox |-> Stamp(p, h)[i]]
      /\ \A i \in DOMAIN inbox : Stamp(p, h)[i] = IF i \in hits /\ \A j \in hits : j <= i
                                                 THEN [inbox[i] EXCEPT !.hash = h] ELSE inbox[i]
  BY DEF Stamp
<1> HIDE DEF h, p
<1>6. SameEntries
  <2> DEFINE s == Stamp(p, h)
  <2>1. \A i \in Positions : s[i] = inbox[i] \/ \E g \in Nat : s[i] = [inbox[i] EXCEPT !.hash = g]
    BY <1>2, <1>4, <1>5
  <2>2. DOMAIN s = DOMAIN inbox /\ s = [i \in DOMAIN inbox |-> s[i]] /\ inbox' = s
    BY <1>3, <1>5
  <2> HIDE DEF s
  <2>3. \A i \in Positions : \/ s[i] = inbox[i]
                            \/ \E g \in Nat : s[i] = [inbox[i] EXCEPT !.hash = g]
                            \/ \E d \in {"sent", "delivered", "failed"} :
                                  s[i] = [inbox[i] EXCEPT !.delivery = d]
    BY <2>1
  <2>4. InboxTypes
    BY <1>0
  <2> QED
    BY <2>2, <2>3, <2>4, SameByMap
<1>7. EntryInv' /\ CursorInv'
  BY <1>0, <1>3, <1>6, SameKeepsEntries
<1>8. Positions' = Positions
  BY <1>6 DEF SameEntries, Positions
<1>9. \A i \in Positions :
        \/ inbox'[i] = inbox[i]
        \/ /\ i \in hits /\ \A j \in hits : j <= i
           /\ inbox'[i].hash = h /\ inbox'[i].delivery = inbox[i].delivery
           /\ inbox'[i].dir = inbox[i].dir /\ inbox'[i].peer = inbox[i].peer
  <2> SUFFICES ASSUME NEW i \in Positions
               PROVE  \/ inbox'[i] = inbox[i]
                      \/ /\ i \in hits /\ \A j \in hits : j <= i
                         /\ inbox'[i].hash = h /\ inbox'[i].delivery = inbox[i].delivery
                         /\ inbox'[i].dir = inbox[i].dir /\ inbox'[i].peer = inbox[i].peer
    OBVIOUS
  <2> DEFINE e == inbox[i]
             r == [e EXCEPT !.hash = h]
  <2>1. e \in Entry
    BY <1>4
  <2>2. \/ inbox'[i] = e
        \/ i \in hits /\ (\A j \in hits : j <= i) /\ inbox'[i] = r
    BY <1>3, <1>4, <1>5
  <2> HIDE DEF e
  <2>3. r.hash = h /\ r.delivery = e.delivery /\ r.dir = e.dir /\ r.peer = e.peer
    BY <1>2, <2>1, HashChanged
  <2> HIDE DEF r, hits
  <2> QED
    BY <2>2, <2>3 DEF e
<1>10. \A i \in hits : i \in Positions /\ i \in Nat /\ inbox[i].peer = p /\ inbox[i].delivery = "sent"
  BY <1>4 DEF Unstamped, Positions
<1>11. \A i \in Positions :
         /\ Stamped(inbox'[i]) => inbox'[i].hash \in transmitted'
                                    /\ written[inbox'[i].hash] = inbox'[i].peer
         /\ inbox'[i].dir = "out" /\ inbox'[i].delivery = "delivered" => inbox'[i].hash \in acked
  <2> HIDE DEF hits
  <2> QED
    BY <1>0, <1>3, <1>9, <1>10 DEF HashInv, p
<1>12. \A i, j \in Positions :
         Stamped(inbox'[i]) /\ Stamped(inbox'[j]) /\ inbox'[i].hash = inbox'[j].hash => i = j
  <2> SUFFICES ASSUME NEW i \in Positions, NEW j \in Positions, Stamped(inbox'[i]),
                      Stamped(inbox'[j]), inbox'[i].hash = inbox'[j].hash
               PROVE  i = j
    OBVIOUS
  <2> HIDE DEF hits
  <2>1. CASE inbox'[i] = inbox[i] /\ inbox'[j] = inbox[j]
    BY <1>0, <2>1 DEF HashInv
  <2>2. CASE i \in hits /\ (\A k \in hits : k <= i) /\ j \in hits /\ (\A k \in hits : k <= j)
    BY <1>10, <2>2
  <2>3. CASE inbox'[i] = inbox[i] /\ inbox'[j].hash = h
    BY <1>0, <1>1, <2>3 DEF HashInv, h
  <2>4. CASE inbox'[j] = inbox[j] /\ inbox'[i].hash = h
    BY <1>0, <1>1, <2>4 DEF HashInv, h
  <2> QED
    BY <1>9, <2>1, <2>2, <2>3, <2>4
<1>13. HashInv'
  BY <1>1, <1>3, <1>8, <1>11, <1>12 DEF HashInv, Stamped
<1>14. InboxTypes'
  <2>1. Ids' = Ids /\ h \in Ids
    BY <1>1, <1>3 DEF Ids, h
  <2> QED
    BY <1>0, <1>1, <1>3, <1>6, <2>1 DEF InboxTypes, SameEntries
<1> QED
  BY <1>7, <1>13, <1>14 DEF InboxIInv

LEMMA TransmitFailsStep ==
  ASSUME InboxIInv, TransmitPmFails
  PROVE  InboxIInv'
<1>0. InboxTypes /\ EntryInv /\ CursorInv /\ HashInv
  BY DEF InboxIInv
<1>1. /\ pmAir' \in Seq(Ids')
      /\ \A i \in 1 .. Len(pmAir') :
           /\ pmAir'[i] \notin transmitted'
           /\ \A j \in 1 .. Len(pmAir') : pmAir'[i] = pmAir'[j] => i = j
  BY AirTail DEF TransmitPmFails
<1>2. UNCHANGED <<inbox, cursors, unread, screen, compose, pendingAck, pmNow, written,
                  transmitted, acked, opened>>
  BY DEF TransmitPmFails
<1>3. InboxTypes'
  BY <1>0, <1>1, <1>2 DEF InboxTypes, Ids
<1>4. EntryInv' /\ CursorInv'
  BY <1>0, <1>2 DEF EntryInv, CursorInv, OpenedCovered, Covered, Unopened, Incoming, ReadCursor,
                    Positions, Ids, Entries
<1>5. HashInv'
  BY <1>0, <1>1, <1>2 DEF HashInv, Stamped, Positions
<1> QED
  BY <1>3, <1>4, <1>5 DEF InboxIInv

(* Delivery marks change, hashes stay: what is marked delivered was so     *)
(* before, or carries a hash acknowledged by now.                          *)
LEMMA MarksKeepHashes ==
  ASSUME InboxIInv, SameEntries, UNCHANGED <<pmAir, transmitted, written>>, acked \subseteq acked',
         \A i \in Positions :
           /\ inbox'[i].hash = inbox[i].hash
           /\ inbox'[i].delivery = "delivered" =>
                inbox[i].delivery = "delivered" \/ inbox'[i].hash \in acked'
  PROVE  HashInv'
<1>1. Positions' = Positions /\ HashInv
  BY DEF SameEntries, Positions, InboxIInv
<1> QED
  BY <1>1 DEF HashInv, Stamped, SameEntries

LEMMA DeliveryByMap ==
  ASSUME InboxTypes, NEW d \in {"delivered", "failed"}, NEW some \in SUBSET Positions,
         inbox' = [i \in DOMAIN inbox |-> IF i \in some THEN [inbox[i] EXCEPT !.delivery = d]
                                                        ELSE inbox[i]]
  PROVE  /\ SameEntries
         /\ \A i \in Positions :
              /\ inbox'[i].hash = inbox[i].hash
              /\ inbox'[i].delivery = IF i \in some THEN d ELSE inbox[i].delivery
<1>1. DOMAIN inbox = Positions /\ \A i \in Positions : inbox[i] \in Entry
  BY LenProperties, ElementOfSeq DEF Positions, InboxTypes
<1> DEFINE s == inbox'
<1>2. /\ DOMAIN s = DOMAIN inbox /\ s = [i \in DOMAIN inbox |-> s[i]] /\ inbox' = s
      /\ \A i \in Positions : s[i] = IF i \in some THEN [inbox[i] EXCEPT !.delivery = d] ELSE inbox[i]
  BY <1>1
<1> HIDE DEF s
<1>3. SameEntries
  <2>1. d \in {"sent", "delivered", "failed"}
    OBVIOUS
  <2>2. \A i \in Positions : \/ s[i] = inbox[i]
                             \/ \E c \in {"sent", "delivered", "failed"} :
                                   s[i] = [inbox[i] EXCEPT !.delivery = c]
    BY <1>2, <2>1
  <2> QED
    BY <1>2, <2>2, SameByMap
<1>4. ASSUME NEW i \in Positions
      PROVE  /\ inbox'[i].hash = inbox[i].hash
             /\ inbox'[i].delivery = IF i \in some THEN d ELSE inbox[i].delivery
  <2> DEFINE e == inbox[i]
             r == [e EXCEPT !.delivery = d]
  <2>1. e \in Entry
    BY <1>1
  <2>2. inbox'[i] = IF i \in some THEN r ELSE e
    BY <1>2
  <2> HIDE DEF e
  <2>3. r.hash = e.hash /\ r.delivery = d
    BY <2>1, DeliveryChanged
  <2> HIDE DEF r
  <2> QED
    BY <2>2, <2>3 DEF e
<1> QED
  BY <1>3, <1>4

LEMMA AckStep ==
  ASSUME InboxIInv, NEW h \in 1 .. MaxPms, AckArrives(h)
  PROVE  InboxIInv'
<1>0. InboxTypes /\ pmNow \in Nat /\ pmNow <= pmNow
  BY DEF InboxIInv, InboxTypes
<1> DEFINE hits == {i \in DOMAIN inbox : /\ inbox[i].dir = "out" /\ inbox[i].delivery = "sent"
                                         /\ inbox[i].hash = h}
           some == {i \in hits : \A j \in hits : i <= j}
<1>1. /\ h \in transmitted /\ acked' = acked \union {h} /\ inbox' = MarkDelivered(h)
      /\ UNCHANGED <<cursors, unread, screen, compose, pmAir, pmNow, written, transmitted, opened>>
  BY DEF AckArrives
<1>2. some \in SUBSET Positions
  BY <1>0, LenProperties DEF InboxTypes, Positions
<1>3. inbox' = [i \in DOMAIN inbox |-> IF i \in some THEN [inbox[i] EXCEPT !.delivery = "delivered"]
                                                     ELSE inbox[i]]
  BY <1>1 DEF MarkDelivered
<1>4. \A i \in some : inbox[i].hash = h
  OBVIOUS
<1> HIDE DEF some
<1>5. /\ SameEntries
      /\ \A i \in Positions :
           /\ inbox'[i].hash = inbox[i].hash
           /\ inbox'[i].delivery = IF i \in some THEN "delivered" ELSE inbox[i].delivery
  BY <1>0, <1>2, <1>3, DeliveryByMap
<1>6. HashInv'
  BY <1>1, <1>4, <1>5, MarksKeepHashes
<1>7. EntryInv' /\ CursorInv'
  BY <1>0, <1>1, <1>5, SameKeepsEntries
<1>8. InboxTypes'
  BY <1>0, <1>1, <1>5 DEF InboxTypes, SameEntries, Ids
<1> QED
  BY <1>6, <1>7, <1>8 DEF InboxIInv

LEMMA DrawStep ==
  ASSUME InboxIInv, DrawThread
  PROVE  InboxIInv'
<1>0. InboxTypes /\ pmNow \in Nat /\ pmNow <= pmNow
  BY DEF InboxIInv, InboxTypes
<1> DEFINE some == {i \in DOMAIN inbox : /\ inbox[i].dir = "out" /\ inbox[i].delivery = "sent"
                                         /\ Minus(pmNow, inbox[i].at) > AckWindow}
<1>1. UNCHANGED <<cursors, unread, screen, compose, pmAir, pmNow, written, transmitted, acked, opened>>
  BY DEF DrawThread
<1>2. some \in SUBSET Positions
  BY <1>0, LenProperties DEF InboxTypes, Positions
<1>3. inbox' = [i \in DOMAIN inbox |-> IF i \in some THEN [inbox[i] EXCEPT !.delivery = "failed"]
                                                     ELSE inbox[i]]
  BY DEF DrawThread
<1> HIDE DEF some
<1>5. /\ SameEntries
      /\ \A i \in Positions :
           /\ inbox'[i].hash = inbox[i].hash
           /\ inbox'[i].delivery = IF i \in some THEN "failed" ELSE inbox[i].delivery
  BY <1>0, <1>2, <1>3, DeliveryByMap
<1>6. HashInv'
  BY <1>1, <1>5, MarksKeepHashes
<1>7. EntryInv' /\ CursorInv'
  BY <1>0, <1>1, <1>5, SameKeepsEntries
<1>8. InboxTypes'
  BY <1>0, <1>1, <1>5 DEF InboxTypes, SameEntries, Ids
<1> QED
  BY <1>6, <1>7, <1>8 DEF InboxIInv

LEMMA PushStep ==
  ASSUME InboxIInv, NEW e, Fresh(e), PushEntry(e, IF Incoming(e) THEN 1 ELSE 0),
         UNCHANGED <<cursors, screen, pmNow, transmitted, acked, opened>>,
         pmAir' = pmAir \/ pmAir' = Append(pmAir, e.id),
         compose' \in PmPeers \cup {NoPeer}
  PROVE  InboxIInv'
<1>0. InboxTypes
  BY DEF InboxIInv
<1>1. inbox' \in Seq(Entry) /\ EntryInv'
  BY PushKeepsEntries
<1>2. unread' \in Nat /\ CursorInv'
  BY PushKeepsCursors
<1>3. pmAir' \in Seq(Ids') /\ HashInv'
  BY PushKeepsHashes
<1>4. written' \in Seq(PmPeers) /\ Ids \subseteq Ids'
  <2>1. e.peer \in PmPeers
    BY DEF Fresh, Entry
  <2> QED
    BY <1>0, <2>1, IdsGrow DEF Fresh, InboxTypes
<1>5. InboxTypes'
  BY <1>0, <1>1, <1>2, <1>3, <1>4 DEF InboxTypes
<1> QED
  BY <1>1, <1>2, <1>3, <1>5 DEF InboxIInv

LEMMA ReceivedStep ==
  ASSUME InboxIInv, NEW p \in PmPeers, PmReceived(p)
  PROVE  InboxIInv'
<1> DEFINE e == [peer |-> p, dir |-> "in", at |-> pmNow, delivery |-> "delivered",
                 hash |-> 0, id |-> Len(written) + 1]
<1>0. pmNow \in Nat /\ Len(written) \in Nat /\ compose \in PmPeers \cup {NoPeer}
  BY LenProperties DEF InboxIInv, InboxTypes
<1>1. Fresh(e) /\ (IF Incoming(e) THEN 1 ELSE 0) = 1
  BY <1>0 DEF Fresh, Entry, Incoming, PmReceived
<1>2. PushEntry(e, 1)
  BY DEF PmReceived
<1>3. UNCHANGED <<cursors, screen, compose, pmAir, pmNow, transmitted, acked, opened>>
  BY DEF PmReceived
<1> HIDE DEF e
<1> QED
  BY <1>0, <1>1, <1>2, <1>3, PushStep

LEMMA SubmitStep ==
  ASSUME InboxIInv, SubmitPm
  PROVE  InboxIInv'
<1> DEFINE e == [peer |-> compose, dir |-> "out", at |-> pmNow, delivery |-> "sent",
                 hash |-> 0, id |-> Len(written) + 1]
<1>0. pmNow \in Nat /\ Len(written) \in Nat /\ compose \in PmPeers
  BY LenProperties DEF InboxIInv, InboxTypes, SubmitPm
<1>1. Fresh(e) /\ (IF Incoming(e) THEN 1 ELSE 0) = 0
  BY <1>0 DEF Fresh, Entry, Incoming, SubmitPm
<1>2. PushEntry(e, 0)
  BY DEF SubmitPm
<1>3. /\ UNCHANGED <<cursors, screen, pmNow, transmitted, acked, opened>>
      /\ pmAir' = pmAir \/ pmAir' = Append(pmAir, e.id)
      /\ compose' \in PmPeers \cup {NoPeer}
  BY DEF SubmitPm
<1> HIDE DEF e
<1> QED
  BY <1>0, <1>1, <1>2, <1>3, PushStep

-----------------------------------------------------------------------------
(* A conversation is opened.                                               *)

(* The received messages of one peer.                                      *)
From(p) == {e.id : e \in {x \in Entries : x.peer = p /\ Incoming(x)}}

(* With a cursor per peer, and room for one, the list is never full when   *)
(* another peer's cursor is added: no cursor is forgotten.                 *)
LEMMA CursorsFit ==
  ASSUME cursors \in Seq(ReadMark), NEW p \in PmPeers,
         \A i, j \in 1 .. Len(cursors) : cursors[i].peer = cursors[j].peer => i = j,
         \A i \in 1 .. Len(cursors) : cursors[i].peer # p
  PROVE  Len(cursors) < Cardinality(PmPeers)
<1> DEFINE n == Len(cursors)
           others == PmPeers \ {p}
           f == [i \in 1 .. n |-> cursors[i].peer]
<1>1. n \in Nat
  BY LenProperties
<1>2. \A i \in 1 .. n : cursors[i].peer \in others
  <2>1. \A i \in 1 .. n : cursors[i] \in ReadMark
    BY ElementOfSeq
  <2> QED
    BY <2>1 DEF ReadMark
<1>3. f \in Injection(1 .. n, others)
  BY <1>2 DEF Injection, IsInjective
<1>4. /\ IsFiniteSet(others) /\ Cardinality(PmPeers) \in Nat
      /\ Cardinality(others) = Cardinality(PmPeers) - 1
  BY PmConstants, FS_RemoveElement, FS_CardinalityType
<1>5. Cardinality(1 .. n) <= Cardinality(others)
  <2> HIDE DEF f, others
  <2> QED
    BY <1>3, <1>4, FS_Injection
<1>6. Cardinality(1 .. n) = n
  <2> HIDE DEF n
  <2>1. Cardinality(1 .. n) = IF 1 > n THEN 0 ELSE n - 1 + 1
    BY <1>1, FS_Interval
  <2> QED
    BY <1>1, <2>1
<1> HIDE DEF others
<1> QED
  BY <1>1, <1>4, <1>5, <1>6

LEMMA WithCursorIs ==
  ASSUME cursors \in Seq(ReadMark), NEW p \in PmPeers, NEW t \in Nat
  PROVE  /\ WithCursor([peer |-> p, at |-> t]) \in Seq(ReadMark)
         /\ Cardinality(PmPeers) <= ReadCursorsCap
            /\ (\A i, j \in 1 .. Len(cursors) : cursors[i].peer = cursors[j].peer => i = j)
            => LET s == WithCursor([peer |-> p, at |-> t])
               IN  /\ \A i, j \in 1 .. Len(s) : s[i].peer = s[j].peer => i = j
                   /\ \A i \in 1 .. Len(s) : s[i].peer = p => s[i].at = t
                   /\ \E i \in 1 .. Len(s) : s[i].peer = p
                   /\ \A i \in 1 .. Len(cursors) :
                        cursors[i].peer # p => \E j \in 1 .. Len(s) : s[j] = cursors[i]
                   /\ \A j \in 1 .. Len(s) :
                        s[j].peer # p => \E i \in 1 .. Len(cursors) : s[j] = cursors[i]
<1> DEFINE c == [peer |-> p, at |-> t]
           s == WithCursor(c)
<1>1. c \in ReadMark /\ c.peer = p /\ c.at = t
  BY DEF ReadMark
<1>2. DOMAIN cursors = 1 .. Len(cursors) /\ Len(cursors) \in Nat
      /\ \A i \in 1 .. Len(cursors) : cursors[i] \in ReadMark
  BY LenProperties, ElementOfSeq
<1> HIDE DEF c
<1>3. CASE \E i \in DOMAIN cursors : cursors[i].peer = c.peer
  <2>1. s = [i \in 1 .. Len(cursors) |-> IF cursors[i].peer = p THEN c ELSE cursors[i]]
    BY <1>1, <1>2, <1>3 DEF WithCursor
  <2>2. /\ s \in [1 .. Len(cursors) -> ReadMark] /\ DOMAIN s = 1 .. Len(cursors)
        /\ \A i \in 1 .. Len(cursors) : s[i] = IF cursors[i].peer = p THEN c ELSE cursors[i]
    BY <1>1, <1>2, <2>1
  <2> HIDE DEF s
  <2>3. s \in Seq(ReadMark) /\ Len(s) = Len(cursors)
    BY <1>2, <2>2
  <2>4. \A i \in 1 .. Len(cursors) : s[i].peer = cursors[i].peer
    BY <1>1, <2>2
  <2>5. \E i \in 1 .. Len(s) : s[i].peer = p
    BY <1>1, <1>2, <1>3, <2>3, <2>4
  <2> QED
    BY <1>1, <2>2, <2>3, <2>4, <2>5 DEF s, c
<1>4. CASE ~\E i \in DOMAIN cursors : cursors[i].peer = c.peer
  <2> DEFINE r == IF Len(cursors) = ReadCursorsCap THEN SwapRemove(cursors, Oldest(cursors))
                                                   ELSE cursors
  <2>1. s = Append(r, c)
    BY <1>4 DEF WithCursor
  <2>2. r \in Seq(ReadMark)
    <3>1. CASE Len(cursors) = ReadCursorsCap
      <4>1. cursors # << >>
        BY <3>1, PmConstants, EmptySeq
      <4>2. \A i \in 1 .. Len(cursors) : cursors[i].at \in Nat
        BY <1>2 DEF ReadMark
      <4>3. Oldest(cursors) \in 1 .. Len(cursors)
        BY <4>1, <4>2, OldestInside
      <4>4. SwapRemove(cursors, Oldest(cursors)) \in Seq(ReadMark)
        BY <4>3, SwapRemoved
      <4> QED
        BY <3>1, <4>4
    <3> QED
      BY <3>1
  <2>3. s \in Seq(ReadMark)
    BY <1>1, <2>1, <2>2, AppendProperties
  <2>4. ASSUME Cardinality(PmPeers) <= ReadCursorsCap,
               \A i, j \in 1 .. Len(cursors) : cursors[i].peer = cursors[j].peer => i = j
        PROVE  /\ \A i, j \in 1 .. Len(s) : s[i].peer = s[j].peer => i = j
               /\ \A i \in 1 .. Len(s) : s[i].peer = p => s[i].at = t
               /\ \E i \in 1 .. Len(s) : s[i].peer = p
               /\ \A i \in 1 .. Len(cursors) :
                    cursors[i].peer # p => \E j \in 1 .. Len(s) : s[j] = cursors[i]
               /\ \A j \in 1 .. Len(s) :
                    s[j].peer # p => \E i \in 1 .. Len(cursors) : s[j] = cursors[i]
    <3>1. \A i \in 1 .. Len(cursors) : cursors[i].peer # p
      BY <1>1, <1>2, <1>4
    <3>2. Len(cursors) < Cardinality(PmPeers) /\ Cardinality(PmPeers) \in Nat
      BY <2>4, <3>1, CursorsFit, PmConstants, FS_CardinalityType
    <3>3. r = cursors
      BY <1>2, <2>4, <3>2, PmConstants
    <3> HIDE DEF s, r
    <3>4. /\ Len(s) = Len(cursors) + 1 /\ s[Len(cursors) + 1] = c
          /\ \A i \in 1 .. Len(cursors) : s[i] = cursors[i]
      BY <1>1, <2>1, <3>3, AppendProperties
    <3>5. \A i \in 1 .. Len(s) : i \in 1 .. Len(cursors) \/ i = Len(cursors) + 1
      BY <1>2, <3>4
    <3>6. Len(s) \in 1 .. Len(s) /\ \A i \in 1 .. Len(cursors) : i \in 1 .. Len(s)
      BY <1>2, <3>4
    <3>7. \A i, j \in 1 .. Len(s) : s[i].peer = s[j].peer => i = j
      BY <1>1, <2>4, <3>1, <3>4, <3>5
    <3> QED
      BY <1>1, <3>1, <3>4, <3>5, <3>6, <3>7
  <2> QED
    BY <2>3, <2>4 DEF c
<1> QED
  BY <1>3, <1>4

(* What opening a conversation takes off the badge was still to announce.  *)
LEMMA OpeningCounts ==
  ASSUME InboxTypes, EntryInv, CursorInv, Cardinality(PmPeers) <= ReadCursorsCap,
         NEW p \in PmPeers
  PROVE  /\ IsFiniteSet(Unopened \ From(p)) /\ UnreadOf(p) \in Nat
         /\ Cardinality(Unopened \ From(p)) \in Nat
         /\ Cardinality(Unopened \ From(p)) + UnreadOf(p) <= Cardinality(Unopened)
<1> DEFINE rows == {i \in DOMAIN inbox : inbox[i].peer = p /\ IsUnread(inbox[i])}
           hit == Unopened \cap From(p)
           f == [i \in rows |-> inbox[i].id]
<1>0. /\ inbox \in Seq(Entry) /\ cursors \in Seq(ReadMark) /\ written \in Seq(PmPeers)
      /\ opened \in SUBSET Ids
  BY DEF InboxTypes
<1>1. DOMAIN inbox = Positions /\ Entries = {inbox[i] : i \in Positions}
  BY <1>0, LenProperties DEF Positions, Entries, ToSet
<1>2. IsFiniteSet(Unopened) /\ Cardinality(Unopened) \in Nat
  BY <1>0, UnopenedFinite
<1>3. \A i \in rows : inbox[i].id \in hit
  <2> SUFFICES ASSUME NEW i \in rows PROVE inbox[i].id \in hit
    OBVIOUS
  <2>1. i \in Positions /\ IsUnread(inbox[i]) /\ inbox[i].peer = p
    BY <1>1
  <2>2. inbox[i].id \in Unopened
    <3>1. ReadCursor(inbox[i].peer) \in Nat
      BY <1>0, CursorIsNat
    <3> QED
      BY <2>1, <3>1, UnreadIsUnopened
  <2>3. inbox[i].id \in From(p)
    BY <1>1, <2>1 DEF From, IsUnread
  <2> QED
    BY <2>2, <2>3
<1>4. \A i, j \in rows : inbox[i].id = inbox[j].id => i = j
  BY <1>1 DEF EntryInv
<1>5. f \in Injection(rows, hit)
  BY <1>3, <1>4 DEF Injection, IsInjective
<1>6. IsFiniteSet(hit) /\ Cardinality(hit) \in Nat
  BY <1>2, FS_Subset, FS_CardinalityType
<1>7. IsFiniteSet(rows) /\ Cardinality(rows) <= Cardinality(hit) /\ Cardinality(rows) \in Nat
  <2> HIDE DEF f, rows, hit
  <2>1. IsFiniteSet(rows) /\ Cardinality(rows) <= Cardinality(hit)
    BY <1>5, <1>6, FS_Injection
  <2> QED
    BY <2>1, FS_CardinalityType
<1>8. /\ IsFiniteSet(Unopened \ From(p))
      /\ Cardinality(Unopened \ From(p)) = Cardinality(Unopened) - Cardinality(hit)
      /\ Cardinality(Unopened \ From(p)) \in Nat
  BY <1>2, FS_Difference, FS_CardinalityType
<1>9. UnreadOf(p) = Cardinality(rows)
  BY DEF UnreadOf
<1> HIDE DEF rows, hit
<1> QED
  BY <1>2, <1>6, <1>7, <1>8, <1>9

LEMMA MarkReadStep ==
  ASSUME InboxIInv, NEW p \in PmPeers, MarkRead(p),
         UNCHANGED <<inbox, pmNow, written>>
  PROVE  /\ unread' \in Nat /\ cursors' \in Seq(ReadMark) /\ opened' \subseteq Ids
         /\ CursorInv'
<1> DEFINE c == [peer |-> p, at |-> pmNow]
<1>0. /\ InboxTypes /\ inbox \in Seq(Entry) /\ EntryInv /\ CursorInv /\ unread \in Nat
      /\ cursors \in Seq(ReadMark) /\ pmNow \in Nat /\ opened \subseteq Ids
      /\ written \in Seq(PmPeers)
  BY DEF InboxIInv, InboxTypes
<1>1. /\ cursors' = WithCursor(c) /\ unread' = Minus(unread, UnreadOf(p))
      /\ opened' = opened \union From(p)
  BY DEF MarkRead, From
<1>2. Entries = {inbox[i] : i \in Positions} /\ Entries' = Entries /\ Positions' = Positions
  BY <1>0, LenProperties DEF Entries, ToSet, Positions
<1>3. From(p) \subseteq Ids
  BY <1>0, <1>2 DEF From, EntryInv
<1>4. cursors' \in Seq(ReadMark)
  BY <1>0, <1>1, WithCursorIs
<1>5. unread' \in Nat
  <2>1. UnreadOf(p) \in Nat
    <3> DEFINE rows == {i \in DOMAIN inbox : inbox[i].peer = p /\ IsUnread(inbox[i])}
    <3>1. DOMAIN inbox = 1 .. Len(inbox) /\ Len(inbox) \in Nat
      BY <1>0, LenProperties
    <3>2. rows \in SUBSET (1 .. Len(inbox)) /\ IsFiniteSet(1 .. Len(inbox))
      BY <3>1, FS_Interval
    <3> HIDE DEF rows
    <3>3. Cardinality(rows) \in Nat
      BY <3>2, FS_Subset, FS_CardinalityType
    <3> QED
      BY <3>3 DEF rows, UnreadOf
  <2> QED
    BY <1>0, <1>1, <2>1 DEF Minus
<1> SUFFICES ASSUME Cardinality(PmPeers) <= ReadCursorsCap
             PROVE  CursorInv'
  BY <1>0, <1>1, <1>3, <1>4, <1>5 DEF CursorInv
<1>6. \A i, j \in 1 .. Len(cursors) : cursors[i].peer = cursors[j].peer => i = j
  BY <1>0 DEF CursorInv
<1> DEFINE s == WithCursor(c)
<1>7. /\ \A i, j \in 1 .. Len(s) : s[i].peer = s[j].peer => i = j
      /\ \A i \in 1 .. Len(s) : s[i].peer = p => s[i].at = pmNow
      /\ \E i \in 1 .. Len(s) : s[i].peer = p
      /\ \A i \in 1 .. Len(cursors) :
           cursors[i].peer # p => \E j \in 1 .. Len(s) : s[j] = cursors[i]
      /\ \A j \in 1 .. Len(s) :
           s[j].peer # p => \E i \in 1 .. Len(cursors) : s[j] = cursors[i]
  BY <1>0, <1>6, WithCursorIs
<1>8. cursors' = s
  BY <1>1
<1> HIDE DEF s, c
<1>9. /\ \A i \in 1 .. Len(s) : CursorIn(s, s[i].peer) = s[i].at
      /\ \A q : (\A i \in 1 .. Len(s) : s[i].peer # q) => CursorIn(s, q) = 0
  BY <1>4, <1>7, <1>8, CursorIs
<1>10. CursorIn(s, p) = pmNow
  BY <1>7, <1>9
<1>11. ASSUME NEW q, q # p
       PROVE  CursorIn(s, q) = ReadCursor(q)
  <2>0. ReadCursor(q) = CursorIn(cursors, q)
    BY DEF ReadCursor, CursorIn
  <2>1. /\ \A i \in 1 .. Len(cursors) : CursorIn(cursors, cursors[i].peer) = cursors[i].at
        /\ (\A i \in 1 .. Len(cursors) : cursors[i].peer # q) => CursorIn(cursors, q) = 0
    BY <1>0, <1>6, CursorIs
  <2>2. CASE \E i \in 1 .. Len(cursors) : cursors[i].peer = q
    <3>1. PICK i \in 1 .. Len(cursors) : cursors[i].peer = q
      BY <2>2
    <3>2. PICK j \in 1 .. Len(s) : s[j] = cursors[i]
      BY <1>7, <1>11, <3>1
    <3> QED
      BY <1>9, <2>0, <2>1, <3>1, <3>2
  <2>3. CASE \A i \in 1 .. Len(cursors) : cursors[i].peer # q
    <3>1. \A j \in 1 .. Len(s) : s[j].peer # q
      BY <1>7, <1>11, <2>3
    <3> QED
      BY <1>9, <2>0, <2>1, <2>3, <3>1
  <2> QED
    BY <2>2, <2>3
<1>12. OpenedCovered'
  <2> SUFFICES ASSUME NEW i \in Positions, Incoming(inbox[i]), inbox[i].id \in opened'
               PROVE  Covered(i)'
    BY <1>2 DEF OpenedCovered, Covered, Incoming
  <2> DEFINE q == inbox[i].peer
  <2>1. inbox[i].at <= pmNow
    BY <1>0 DEF EntryInv
  <2>2. CASE q = p
    <3>1. inbox[i].at <= CursorIn(s, q)
      BY <1>10, <2>1, <2>2
    <3> QED
      BY <1>2, <1>8, <3>1 DEF Covered, ReadCursor, CursorIn
  <2>3. CASE q # p
    <3>1. inbox[i].id \notin From(p)
      BY <1>0, <1>2, <2>3 DEF From, EntryInv
    <3>2. inbox[i].at <= ReadCursor(q)
      BY <1>0, <1>1, <3>1 DEF CursorInv, OpenedCovered, Covered
    <3>3. inbox[i].at <= CursorIn(s, q)
      BY <1>11, <2>3, <3>2
    <3> QED
      BY <1>2, <1>8, <3>3 DEF Covered, ReadCursor, CursorIn
  <2> QED
    BY <2>2, <2>3
<1>13. Unopened' = Unopened \ From(p)
  BY <1>1, <1>2 DEF Unopened, Incoming
<1>14. unread' >= Cardinality(Unopened \ From(p))
  <2> DEFINE a == Cardinality(Unopened \ From(p))
             b == UnreadOf(p)
             d == Cardinality(Unopened)
  <2>1. a \in Nat /\ b \in Nat /\ a + b <= d /\ d \in Nat
    BY <1>0, OpeningCounts, UnopenedFinite
  <2>2. unread >= d
    BY <1>0 DEF CursorInv
  <2>3. unread' = Minus(unread, b)
    BY <1>1
  <2> HIDE DEF a, b, d
  <2>4. unread' >= a
    BY <1>0, <2>1, <2>2, <2>3 DEF Minus
  <2> QED
    BY <2>4 DEF a
<1>15. \A i, j \in 1 .. Len(cursors') : cursors'[i].peer = cursors'[j].peer => i = j
  BY <1>7, <1>8
<1> QED
  BY <1>12, <1>13, <1>14, <1>15 DEF CursorInv

LEMMA MovedInside ==
  ASSUME NEW c \in Nat, NEW s \in Nat, NEW n \in Nat, NEW btn \in {"Up", "Down"}
  PROVE  Moved(btn, c, s, n).c \in Nat /\ Moved(btn, c, s, n).s \in Nat
<1>1. VisibleRows \in Nat /\ VisibleRows >= 1
  BY PmConstants
<1>2. CASE btn = "Up"
  <2>1. CASE c > 0
    BY <1>2, <2>1 DEF Moved
  <2>2. CASE c = 0 /\ n > 0
    BY <1>1, <1>2, <2>2 DEF Moved, Minus
  <2>3. CASE c = 0 /\ n = 0
    BY <1>2, <2>3 DEF Moved
  <2> QED
    BY <2>1, <2>2, <2>3
<1>3. CASE btn = "Down"
  <2>1. CASE c + 1 < n
    BY <1>1, <1>3, <2>1 DEF Moved
  <2>2. CASE ~(c + 1 < n) /\ n > 0
    BY <1>3, <2>2 DEF Moved
  <2>3. CASE ~(c + 1 < n) /\ n = 0
    BY <1>3, <2>3 DEF Moved
  <2> QED
    BY <2>1, <2>2, <2>3
<1> QED
  BY <1>2, <1>3

(* A step of the screen that opens nothing.                                *)
LEMMA QuietScreen ==
  ASSUME InboxIInv,
         UNCHANGED <<inbox, cursors, unread, opened, pmAir, written, transmitted, acked>>,
         screen' \in [mode : PmPeers \cup {"inbox"}, cursor : Nat, scroll : Nat, line : Nat],
         compose' \in PmPeers \cup {NoPeer}, pmNow' \in Nat, pmNow <= pmNow'
  PROVE  InboxIInv'
<1>0. InboxTypes /\ EntryInv /\ CursorInv /\ HashInv /\ inbox \in Seq(Entry)
  BY DEF InboxIInv, InboxTypes
<1>1. InboxTypes'
  BY <1>0 DEF InboxTypes, Ids
<1>2. SameEntries
  BY <1>0 DEF SameEntries
<1>3. EntryInv' /\ CursorInv'
  BY <1>2, SameKeepsEntries
<1>4. HashInv'
  BY <1>0 DEF HashInv, Stamped, Positions
<1> QED
  BY <1>1, <1>3, <1>4 DEF InboxIInv

LEMMA InboxPressStep ==
  ASSUME InboxIInv, NEW btn \in {"Up", "Down", "Fire"}, InboxPress(btn, Cardinality(Peers))
  PROVE  InboxIInv'
<1>0. /\ InboxTypes /\ EntryInv /\ HashInv /\ inbox \in Seq(Entry) /\ pmNow \in Nat
      /\ screen \in [mode : PmPeers \cup {"inbox"}, cursor : Nat, scroll : Nat, line : Nat]
      /\ compose \in PmPeers \cup {NoPeer}
  BY DEF InboxIInv, InboxTypes
<1>1. Peers \subseteq PmPeers
  <2>1. Entries = {inbox[i] : i \in 1 .. Len(inbox)}
    BY <1>0, LenProperties DEF Entries, ToSet
  <2>2. \A i \in 1 .. Len(inbox) : inbox[i] \in Entry
    BY <1>0, ElementOfSeq
  <2> QED
    BY <2>1, <2>2 DEF Peers, Entry
<1> DEFINE n == Cardinality(Peers)
<1>2. n \in Nat
  BY <1>1, PmConstants, FS_Subset, FS_CardinalityType
<1>3. UNCHANGED <<inbox, compose, pmAir, pendingAck, pmNow, written, transmitted, acked, txErrors>>
  BY DEF InboxPress
<1> DEFINE c == Clamp(screen.cursor, n)
           s == IF screen.scroll > c THEN c ELSE screen.scroll
<1>4. c \in Nat /\ s \in Nat
  BY <1>0, <1>2 DEF Clamp
<1>5. \/ /\ btn \in {"Up", "Down"}
         /\ screen' = [screen EXCEPT !.cursor = Moved(btn, c, s, n).c, !.scroll = Moved(btn, c, s, n).s]
         /\ UNCHANGED <<unread, cursors, opened>>
      \/ \E p \in Peers : /\ MarkRead(p)
                          /\ screen' = [mode |-> p, cursor |-> c, scroll |-> s, line |-> 0]
  BY DEF InboxPress
<1> HIDE DEF c, s, n
<1>6. CASE /\ btn \in {"Up", "Down"}
           /\ screen' = [screen EXCEPT !.cursor = Moved(btn, c, s, n).c, !.scroll = Moved(btn, c, s, n).s]
           /\ UNCHANGED <<unread, cursors, opened>>
  <2> DEFINE to == Moved(btn, c, s, n)
             r == [screen EXCEPT !.cursor = to.c]
  <2>1. to.c \in Nat /\ to.s \in Nat
    BY <1>2, <1>4, <1>6, MovedInside
  <2>2. screen' = [r EXCEPT !.scroll = to.s]
    BY <1>6
  <2> HIDE DEF to
  <2>3. r \in [mode : PmPeers \cup {"inbox"}, cursor : Nat, scroll : Nat, line : Nat]
    BY <1>0, <2>1
  <2> HIDE DEF r
  <2>4. screen' \in [mode : PmPeers \cup {"inbox"}, cursor : Nat, scroll : Nat, line : Nat]
    BY <2>1, <2>2, <2>3
  <2> QED
    BY <1>0, <1>3, <1>6, <2>4, QuietScreen
<1>7. ASSUME NEW p \in Peers, MarkRead(p),
             screen' = [mode |-> p, cursor |-> c, scroll |-> s, line |-> 0]
      PROVE  InboxIInv'
  <2>1. p \in PmPeers
    BY <1>1
  <2>2. /\ unread' \in Nat /\ cursors' \in Seq(ReadMark) /\ opened' \subseteq Ids /\ CursorInv'
    BY <1>3, <1>7, <2>1, MarkReadStep
  <2>3. screen' \in [mode : PmPeers \cup {"inbox"}, cursor : Nat, scroll : Nat, line : Nat]
    BY <1>4, <1>7, <2>1
  <2>4. Ids' = Ids /\ Positions' = Positions
    BY <1>3 DEF Ids, Positions
  <2>5. InboxTypes'
    BY <1>0, <1>3, <2>2, <2>3, <2>4 DEF InboxTypes
  <2>6. EntryInv' /\ HashInv'
    BY <1>0, <1>3, <2>4 DEF EntryInv, HashInv, Stamped
  <2> QED
    BY <2>2, <2>5, <2>6 DEF InboxIInv
<1> QED
  BY <1>5, <1>6, <1>7

LEMMA ThreadPressStep ==
  ASSUME InboxIInv, NEW btn \in {"Up", "Down", "Fire", "Cancel"}, ThreadPress(btn)
  PROVE  InboxIInv'
<1>0. /\ pmNow \in Nat /\ pmNow <= pmNow
      /\ screen \in [mode : PmPeers \cup {"inbox"}, cursor : Nat, scroll : Nat, line : Nat]
      /\ compose \in PmPeers \cup {NoPeer}
  BY DEF InboxIInv, InboxTypes
<1>1. /\ UNCHANGED <<inbox, cursors, unread, pmAir, pendingAck, pmNow, written, transmitted,
                     acked, opened, txErrors>>
      /\ screen.mode # "inbox"
  BY DEF ThreadPress
<1>2. screen' \in [mode : PmPeers \cup {"inbox"}, cursor : Nat, scroll : Nat, line : Nat]
  <2>1. \/ screen' = [screen EXCEPT !.line = Minus(@, 1)] \/ screen' = [screen EXCEPT !.line = @ + 1]
        \/ screen' = screen \/ screen' = [screen EXCEPT !.mode = "inbox"]
    BY DEF ThreadPress
  <2>2. Minus(screen.line, 1) \in Nat /\ screen.line + 1 \in Nat
    BY <1>0 DEF Minus
  <2> QED
    BY <1>0, <2>1, <2>2
<1>3. compose' \in PmPeers \cup {NoPeer}
  BY <1>0, <1>1 DEF ThreadPress
<1> QED
  BY <1>0, <1>1, <1>2, <1>3, QuietScreen

LEMMA InboxStep ==
  ASSUME InboxIInv, [PmNext]_pmVars
  PROVE  InboxIInv'
<1>0. /\ pmNow \in Nat /\ pmNow <= pmNow /\ pmNow <= pmNow + 1
      /\ screen \in [mode : PmPeers \cup {"inbox"}, cursor : Nat, scroll : Nat, line : Nat]
      /\ compose \in PmPeers \cup {NoPeer}
  BY DEF InboxIInv, InboxTypes
<1>1. CASE AbandonPm
  BY <1>0, <1>1, QuietScreen DEF AbandonPm
<1>2. CASE PmTick
  BY <1>0, <1>2, QuietScreen DEF PmTick
<1>3. CASE UNCHANGED pmVars
  BY <1>0, <1>3, QuietScreen DEF pmVars
<1> QED
  BY <1>1, <1>2, <1>3, ReceivedStep, SubmitStep, TransmitStep, TransmitFailsStep, AckStep,
     InboxPressStep, ThreadPressStep, DrawStep DEF PmNext

LEMMA InboxStart == PmInit => InboxIInv
<1> SUFFICES ASSUME PmInit PROVE InboxIInv
  OBVIOUS
<1>1. /\ inbox = << >> /\ cursors = << >> /\ unread = 0 /\ pmNow = 1 /\ compose = NoPeer
      /\ screen = [mode |-> "inbox", cursor |-> 0, scroll |-> 0, line |-> 0]
      /\ pmAir = << >> /\ written = << >> /\ transmitted = {} /\ acked = {} /\ opened = {}
  BY DEF PmInit
<1>2. InboxTypes
  BY <1>1, EmptySeq DEF InboxTypes
<1>3. EntryInv /\ OpenedCovered /\ HashInv
  BY <1>1, EmptySeq DEF EntryInv, OpenedCovered, HashInv, Positions
<1>4. Unopened = {}
  <2>1. Positions = {}
    BY <1>1, EmptySeq DEF Positions
  <2> QED
    BY <1>2, <2>1, UnopenedIs DEF InboxTypes
<1>5. CursorInv
  BY <1>1, <1>3, <1>4, EmptySeq, FS_EmptySet DEF CursorInv
<1> QED
  BY <1>2, <1>3, <1>5 DEF InboxIInv

LEMMA DeliveriesCounted ==
  ASSUME InboxIInv, NEW p \in PmPeers
  PROVE  Cardinality({e \in Entries : e.dir = "out" /\ e.peer = p /\ e.delivery = "delivered"})
            <= Cardinality({h \in acked : written[h] = p})
<1> DEFINE D == {e \in Entries : e.dir = "out" /\ e.peer = p /\ e.delivery = "delivered"}
           H == {h \in acked : written[h] = p}
           f == [e \in D |-> e.hash]
<1>0. /\ inbox \in Seq(Entry) /\ written \in Seq(PmPeers) /\ HashInv
      /\ acked \subseteq Ids
  BY DEF InboxIInv, InboxTypes
<1>1. Entries = {inbox[i] : i \in Positions}
  BY <1>0, LenProperties DEF Entries, ToSet, Positions
<1>2. \A e \in D : e.hash \in acked /\ Stamped(e) /\ written[e.hash] = p
  <2>1. \A h \in Ids : h # 0
    BY <1>0, LenProperties DEF Ids
  <2> QED
    BY <1>0, <1>1, <2>1 DEF HashInv, Stamped
<1>3. \A d, e \in D : d.hash = e.hash => d = e
  BY <1>0, <1>1, <1>2 DEF HashInv
<1>4. f \in Injection(D, H)
  BY <1>2, <1>3 DEF Injection, IsInjective
<1>5. IsFiniteSet(H)
  <2>1. IsFiniteSet(Ids)
    BY <1>0, LenProperties, FS_Interval DEF Ids
  <2>2. H \in SUBSET Ids
    BY <1>0
  <2> QED
    BY <2>1, <2>2, FS_Subset
<1> HIDE DEF f
<1>6. Cardinality(D) <= Cardinality(H)
  BY <1>4, <1>5, FS_Injection
<1> QED
  BY <1>6

(* What the inbox tells its user is true, for any number of peers, any     *)
(* sizes of the ring and of the list of cursors: the count of the main     *)
(* screen covers every message whose conversation was not opened since, as *)
(* long as there is a cursor for each peer, and no thread shows more       *)
(* deliveries than acknowledgements arrived (pm_inbox.rs:130-165, 235-270, *)
(* 384-418).                                                               *)
THEOREM InboxTellsTheTruth == PmSpec => []InboxIsTruthful
<1>1. InboxIInv => InboxIsTruthful
  BY DeliveriesCounted
  DEF InboxIInv, InboxIsTruthful, BadgeCoversUnopened, DeliveredWereAcked, CursorInv, Unopened
<1>2. InboxIInv /\ [PmNext]_pmVars => InboxIInv'
  BY InboxStep
<1> QED
  BY <1>1, <1>2, InboxStart, PTL DEF PmSpec
----------------------------------------------------------------------------
(* The last and the first of some of the first n places. *)
LEMMA Extremes ==
  ASSUME NEW n \in Nat, NEW S \in SUBSET (1 .. n), S # {}
  PROVE  /\ Max(S) \in S
         /\ Min(S) \in S
<1> DEFINE mirror == {n - x : x \in S}
<1>1. \E x \in S : \A y \in S : x <= y
  BY LeastNatural
<1>2. PICK m \in mirror : \A y \in mirror : m <= y
  <2>1. \A x \in S : n - x \in Nat
    OBVIOUS
  <2>2. mirror \in SUBSET Nat /\ mirror # {}
    BY <2>1
  <2> HIDE DEF mirror
  <2> QED
    BY <2>2, LeastNatural
<1>3. PICK x \in S : m = n - x
  OBVIOUS
<1>4. \A y \in S : x >= y
  <2> SUFFICES ASSUME NEW y \in S PROVE x >= y
    OBVIOUS
  <2>1. n - y \in mirror
    OBVIOUS
  <2> QED
    BY <1>2, <1>3, <2>1
<1> QED
  BY <1>1, <1>3, <1>4 DEF Max, Min
----------------------------------------------------------------------------
(* The lock. *)
LEMMA PadlockKept ==
  ASSUME PadlockIsHonest, LockNext \/ UNCHANGED lockVars
  PROVE  PadlockIsHonest'
BY DEF PadlockIsHonest, LockNext, lockVars, HoldCancel, TouchLocked, TakePoke, WindowEnds
----------------------------------------------------------------------------
(* The carousel. *)
ScreenNames == {"Game", "Main", "Pm", "Channel", "Advert", "Watch", "Calendar", "Name", "Qr"}

LEMMA ScreensAre ==
  /\ DOMAIN Screens = 1 .. 9
  /\ \A i \in 1 .. 9 : Screens[i] \in ScreenNames /\ (Screens[i] = "Game" <=> i = 1)
  /\ \A s \in ScreenNames : IndexOf(s) \in 1 .. 9 /\ Screens[IndexOf(s)] = s
<1>1. DOMAIN Screens = 1 .. 9
  BY DEF Screens
<1>2. \A i \in 1 .. 9 : Screens[i] \in ScreenNames /\ (Screens[i] = "Game" <=> i = 1)
  BY DEF Screens, ScreenNames
<1>3. \A s \in ScreenNames : \E i \in 1 .. 9 : Screens[i] = s
  BY DEF Screens, ScreenNames
<1>4. ASSUME NEW s \in ScreenNames PROVE IndexOf(s) \in 1 .. 9 /\ Screens[IndexOf(s)] = s
  BY <1>1, <1>3 DEF IndexOf
<1> QED
  BY <1>1, <1>2, <1>4

LEMMA Carousel ==
  ASSUME NEW s \in ScreenNames, NEW on \in BOOLEAN, s = "Game" => on
  PROVE  /\ ToLeft(s, on) \in ScreenNames /\ (ToLeft(s, on) = "Game" => on)
         /\ ToRight(s, on) \in ScreenNames /\ (ToRight(s, on) = "Game" => on)
<1> DEFINE before == {i \in Enabled(on) : i < IndexOf(s)}
           after == {i \in Enabled(on) : i > IndexOf(s)}
<1>1. before \in SUBSET (1 .. 9) /\ after \in SUBSET (1 .. 9)
  BY ScreensAre DEF Enabled
<1>2. before # {} => Max(before) \in before
  <2> HIDE DEF before
  <2> QED BY <1>1, Extremes
<1>3. after # {} => Min(after) \in after
  <2> HIDE DEF after
  <2> QED BY <1>1, Extremes
<1>4. \A i \in Enabled(on) : Screens[i] \in ScreenNames /\ (Screens[i] = "Game" => on)
  BY ScreensAre DEF Enabled
<1>5. ToLeft(s, on) = IF before = {} THEN s ELSE Screens[Max(before)]
  BY DEF ToLeft
<1>6. ToRight(s, on) = IF after = {} THEN s ELSE Screens[Min(after)]
  BY DEF ToRight
<1>7. (before # {} => Max(before) \in Enabled(on)) /\ (after # {} => Min(after) \in Enabled(on))
  BY <1>2, <1>3
<1> HIDE DEF before, after
<1> QED
  BY <1>4, <1>5, <1>6, <1>7

(* Nobody is left on the game's screen when it goes off.                   *)
LEMMA ReconciledIs ==
  ASSUME NEW s \in ScreenNames, NEW on \in BOOLEAN
  PROVE  /\ Reconciled(s, on) \in ScreenNames /\ (Reconciled(s, on) = "Game" => on)
         /\ s # "Game" => Reconciled(s, on) = s
<1>1. CASE s = "Game" /\ ~on
  <2> DEFINE after == {i \in Enabled(on) : i > IndexOf(s)}
  <2>1. IndexOf(s) = 1
    BY <1>1, ScreensAre
  <2>2. after \in SUBSET (1 .. 9) /\ 2 \in after
    BY <1>1, <2>1, ScreensAre DEF Enabled
  <2>3. Min(after) \in after
    <3> HIDE DEF after
    <3> QED BY <2>2, Extremes
  <2>4. Min(after) \in 1 .. 9 /\ Min(after) # 1
    BY <2>1, <2>2, <2>3
  <2>5. ToRight(s, on) = Screens[Min(after)]
    BY <2>2 DEF ToRight
  <2> HIDE DEF after
  <2> QED
    BY <1>1, <2>4, <2>5, ScreensAre DEF Reconciled
<1>2. CASE ~(s = "Game" /\ ~on)
  BY <1>2 DEF Reconciled
<1> QED
  BY <1>1, <1>2

LEMMA SetActiveScreenIs ==
  ASSUME NEW s \in ScreenNames, NEW t \in ScreenNames, NEW on \in BOOLEAN
  PROVE  /\ SetActiveScreen(s, t, on) \in {s, t}
         /\ SetActiveScreen(s, t, on) = "Game" => s = "Game" \/ on
BY ScreensAre DEF SetActiveScreen, Enabled
----------------------------------------------------------------------------
(* The menu tree. *)
Subs == {"root", "bornagotchi", "settings", "ble", "adverts", "lora", "meshcore", "sounds",
         "alarm", "days", "events", "about", "presets"}

Questions == {"reset_pet", "factory_reset", "clear_pairings", "repeat", "reset_channels",
              "reset_contacts"}

(* What can be read off a row's kind.                                      *)
RowOK(row) ==
  /\ row[1] = "menu" => row[2] \in Subs \ {"root"}
  /\ row[1] = "step" => row = Step
  /\ row[1] = "ask" => row = Ask(row[2]) /\ row[2] \in Questions
  /\ row[1] = "ask_if" => row = AskIf(row[2]) /\ row[2] \in Questions
  /\ row = Line => row[1] = "line"

ItemsOK(items) ==
  /\ \E n \in Nat \ {0} : DOMAIN items = 1 .. n
  /\ ~NavSkip(items[1])
  /\ \A i \in DOMAIN items : RowOK(items[i])

LEMMA RowsAreOK ==
  /\ RowOK(Back) /\ RowOK(Line) /\ RowOK(Act) /\ RowOK(Step) /\ RowOK(Info)
  /\ \A sub \in Subs \ {"root"} : RowOK(To(sub)) /\ ~NavSkip(To(sub))
  /\ ~NavSkip(Back)
<1>1. RowOK(Back) /\ RowOK(Line) /\ RowOK(Act) /\ RowOK(Step) /\ RowOK(Info) /\ ~NavSkip(Back)
  BY DEF RowOK, Back, Line, Act, Step, Info, Ask, AskIf, NavSkip
<1>2. ASSUME NEW sub \in Subs \ {"root"} PROVE RowOK(To(sub)) /\ ~NavSkip(To(sub))
  BY DEF RowOK, Line, Step, To, Ask, AskIf, NavSkip
<1> QED
  BY <1>1, <1>2

LEMMA NamedRowsAreOK ==
  ASSUME NEW a
  PROVE  RowOK(Do(a)) /\ RowOK(<<"slot", a>>)
BY DEF RowOK, Line, Step, Do, Ask, AskIf

LEMMA QuestionsAreOK ==
  ASSUME NEW a \in Questions
  PROVE  RowOK(Ask(a)) /\ RowOK(AskIf(a))
BY DEF RowOK, Line, Step, Ask, AskIf

LEMMA TablesAreOK ==
  /\ ItemsOK(MAIN_ITEMS) /\ ItemsOK(BORNAGOTCHI_ITEMS) /\ ItemsOK(SETTINGS_ITEMS)
  /\ ItemsOK(BLE_ITEMS) /\ ItemsOK(ADVERTS_ITEMS) /\ ItemsOK(LORA_MENU_ITEMS)
  /\ ItemsOK(MESHCORE_MENU_ITEMS) /\ ItemsOK(SOUNDS_ITEMS) /\ ItemsOK(ALARM_ITEMS)
  /\ ItemsOK(ALARM_DAYS_ITEMS) /\ ItemsOK(EVENTS_ITEMS) /\ ItemsOK(<<Back>>)
<1>1. ItemsOK(MAIN_ITEMS)
  BY RowsAreOK DEF ItemsOK, MAIN_ITEMS, Subs
<1>2. ItemsOK(BORNAGOTCHI_ITEMS)
  <2>1. RowOK(Do("game")) /\ RowOK(Ask("reset_pet")) /\ RowOK(Do("realm"))
    BY NamedRowsAreOK, QuestionsAreOK DEF Questions
  <2> QED
    BY <2>1, RowsAreOK DEF ItemsOK, BORNAGOTCHI_ITEMS, Subs
<1>3. ItemsOK(SETTINGS_ITEMS)
  <2>1. RowOK(Do("scan")) /\ RowOK(Ask("factory_reset"))
    BY NamedRowsAreOK, QuestionsAreOK DEF Questions
  <2> QED
    BY <2>1, RowsAreOK DEF ItemsOK, SETTINGS_ITEMS, Subs
<1>4. ItemsOK(BLE_ITEMS) /\ ItemsOK(<<Back>>)
  <2>1. RowOK(Ask("clear_pairings"))
    BY NamedRowsAreOK, QuestionsAreOK DEF Questions
  <2> QED
    BY <2>1, RowsAreOK DEF ItemsOK, BLE_ITEMS
<1>5. ItemsOK(ADVERTS_ITEMS)
  BY RowsAreOK DEF ItemsOK, ADVERTS_ITEMS
<1>6. ItemsOK(LORA_MENU_ITEMS)
  BY RowsAreOK DEF ItemsOK, LORA_MENU_ITEMS, Subs
<1>7. ItemsOK(MESHCORE_MENU_ITEMS)
  <2>1. RowOK(Do("name")) /\ RowOK(Do("qr")) /\ RowOK(AskIf("repeat")) /\ RowOK(Ask("reset_channels")) /\ RowOK(Ask("reset_contacts"))
    BY NamedRowsAreOK, QuestionsAreOK DEF Questions
  <2> QED
    BY <2>1, RowsAreOK DEF ItemsOK, MESHCORE_MENU_ITEMS, Subs
<1>8. ItemsOK(SOUNDS_ITEMS)
  BY RowsAreOK DEF ItemsOK, SOUNDS_ITEMS
<1>9. ItemsOK(ALARM_ITEMS)
  BY RowsAreOK DEF ItemsOK, ALARM_ITEMS, Subs
<1>10. ItemsOK(ALARM_DAYS_ITEMS)
  BY RowsAreOK DEF ItemsOK, ALARM_DAYS_ITEMS
<1>11. ItemsOK(EVENTS_ITEMS)
  <2> DEFINE slots == [i \in 1 .. EventRows |-> <<"slot", i>>]
             top == <<Back, Do("quick_test"), Line>>
             bottom == <<Line, Do("clear_events")>>
             AllRows == {Back, Line, Do("quick_test"), Do("clear_events")} \cup {<<"slot", i>> : i \in 1 .. EventRows}
  <2>1. EventRows \in Nat
    BY UiAssumption
  <2>2. slots \in Seq(AllRows) /\ top \in Seq(AllRows) /\ bottom \in Seq(AllRows)
    BY <2>1
  <2>3. Len(top) = 3 /\ top[1] = Back
    OBVIOUS
  <2>4. \A row \in AllRows : RowOK(row)
    BY RowsAreOK, NamedRowsAreOK
  <2> HIDE DEF slots, top, bottom, AllRows
  <2>5. /\ top \o slots \in Seq(AllRows) /\ Len(top \o slots) = Len(top) + Len(slots)
        /\ (top \o slots)[1] = Back
    <3>1. top \o slots \in Seq(AllRows) /\ Len(top \o slots) = Len(top) + Len(slots)
      BY <2>2, ConcatProperties
    <3>2. (top \o slots)[1] = top[1]
      BY <2>2, <2>3, ConcatProperties, LenProperties
    <3> QED
      BY <2>3, <3>1, <3>2
  <2>6. /\ (top \o slots) \o bottom \in Seq(AllRows)
        /\ ((top \o slots) \o bottom)[1] = Back
        /\ Len((top \o slots) \o bottom) \in Nat \ {0}
    BY <2>2, <2>3, <2>5, ConcatProperties, LenProperties
  <2>7. EVENTS_ITEMS = (top \o slots) \o bottom
    BY DEF EVENTS_ITEMS, top, slots, bottom
  <2> QED
    BY <2>4, <2>6, <2>7, RowsAreOK DEF ItemsOK
<1> QED
  BY <1>1, <1>2, <1>3, <1>4, <1>5, <1>6, <1>7, <1>8, <1>9, <1>10, <1>11

LEMMA ItemsAreOK ==
  ASSUME NEW sub \in Subs
  PROVE  ItemsOK(Items(sub))
BY TablesAreOK DEF Items, Subs

OnRow(sub, p) == p \in DOMAIN Items(sub) /\ Items(sub)[p] # Line

Menu == [root : Nat, sub : Subs, pos : Nat, editing : BOOLEAN, page : Nat,
         confirm : {"none"} \cup Questions]

MenuOK(m) ==
  /\ m \in Menu
  /\ OnRow("root", m.root) /\ OnRow(m.sub, Pos(m))
  /\ m.editing => Row(m) = Step
  /\ m.confirm # "none" => Row(m) \in {Ask(m.confirm), AskIf(m.confirm)}
  /\ m.sub = "about" => m.page < AboutPages

LEMMA SelectableAreRows ==
  ASSUME NEW sub \in Subs
  PROVE  /\ Selectable(Items(sub)) # {} /\ OnRow(sub, 1)
         /\ \E n \in Nat : Selectable(Items(sub)) \in SUBSET (1 .. n)
         /\ \A i \in Selectable(Items(sub)) : OnRow(sub, i)
<1>1. ItemsOK(Items(sub))
  BY ItemsAreOK
<1>2. \A row : RowOK(row) /\ ~NavSkip(row) => row # Line
  BY DEF RowOK, NavSkip
<1> QED
  BY <1>1, <1>2 DEF ItemsOK, Selectable, OnRow

LEMMA MoveKeeps ==
  ASSUME NEW m, MenuOK(m), ~m.editing, m.confirm = "none", NEW p \in Nat, OnRow(m.sub, p)
  PROVE  MenuOK(MoveTo(m, p))
<1>1. CASE m.sub = "root"
  <2> DEFINE r == [m EXCEPT !.root = p]
  <2>1. /\ r \in Menu /\ r.sub = "root" /\ r.root = p /\ ~r.editing /\ r.confirm = "none"
        /\ MoveTo(m, p) = r
    BY <1>1 DEF MoveTo, MenuOK, Menu
  <2> HIDE DEF r
  <2> QED
    BY <1>1, <2>1 DEF MenuOK, Pos
<1>2. CASE m.sub # "root"
  <2> DEFINE r == [m EXCEPT !.pos = p]
  <2>1. /\ r \in Menu /\ r.sub = m.sub /\ r.root = m.root /\ r.pos = p /\ ~r.editing
        /\ r.confirm = "none" /\ r.page = m.page /\ MoveTo(m, p) = r
    BY <1>2 DEF MoveTo, MenuOK, Menu
  <2> HIDE DEF r
  <2> QED
    BY <1>2, <2>1 DEF MenuOK, Pos
<1> QED
  BY <1>1, <1>2

LEMMA UpAndDownKeep ==
  ASSUME NEW m, MenuOK(m), m.confirm = "none"
  PROVE  MenuOK(MenuUp(m)) /\ MenuOK(MenuDown(m))
<1> DEFINE rows == Selectable(Items(m.sub))
           above == {i \in rows : i < Pos(m)}
           below == {i \in rows : i > Pos(m)}
<1>1. m.sub \in Subs
  BY DEF MenuOK, Menu
<1>2. rows # {} /\ \A i \in rows : OnRow(m.sub, i)
  BY <1>1, SelectableAreRows
<1>3. PICK n \in Nat : rows \in SUBSET (1 .. n)
  BY <1>1, SelectableAreRows
<1>4. above \in SUBSET rows /\ below \in SUBSET rows
  OBVIOUS
<1> HIDE DEF rows, above, below
<1>5. /\ Max(IF above = {} THEN rows ELSE above) \in rows
      /\ Min(IF below = {} THEN rows ELSE below) \in rows
  BY <1>2, <1>3, <1>4, Extremes
<1>6. MenuUp(m) = IF m.editing THEN m ELSE MoveTo(m, Max(IF above = {} THEN rows ELSE above))
  BY DEF MenuUp, rows, above
<1>7. MenuDown(m) = IF m.editing THEN m ELSE MoveTo(m, Min(IF below = {} THEN rows ELSE below))
  BY DEF MenuDown, rows, below
<1>8. CASE m.editing
  BY <1>6, <1>7, <1>8
<1>9. CASE ~m.editing
  <2>1. \A p \in rows : p \in Nat /\ OnRow(m.sub, p)
    BY <1>2, <1>3
  <2>2. \A p \in rows : MenuOK(MoveTo(m, p))
    BY <2>1, <1>9, MoveKeeps
  <2> QED
    BY <1>5, <1>6, <1>7, <1>9, <2>2
<1> QED
  BY <1>8, <1>9

(* A submenu is entered at its first row; its page is the caller's.        *)
LEMMA EnterKeeps ==
  ASSUME NEW m, MenuOK(m), ~m.editing, m.confirm = "none",
         NEW sub \in Subs \ {"root"}, NEW p \in Nat
  PROVE  MenuOK(Enter(m, sub, p))
<1> DEFINE page == IF sub = "presets" THEN p ELSE 0
           r == Enter(m, sub, p)
<1>1. page \in Nat /\ (sub = "about" => page < AboutPages)
  BY UiAssumption
<1>2. OnRow(sub, 1)
  BY SelectableAreRows
<1>3. r = [m EXCEPT !.sub = sub, !.pos = 1, !.page = page]
  BY DEF Enter
<1> HIDE DEF page, r
<1>4. r \in Menu /\ r.sub = sub /\ r.root = m.root /\ r.pos = 1 /\ r.page = page
  BY <1>1, <1>3 DEF MenuOK, Menu
<1>5. ~r.editing /\ r.confirm = "none"
  BY <1>1, <1>3 DEF MenuOK, Menu
<1>6. MenuOK(r)
  BY <1>1, <1>2, <1>4, <1>5 DEF MenuOK, Pos
<1> QED
  BY <1>6 DEF r

(* To the root menu, with the row the cursor stands on there.              *)
LEMMA LeaveKeeps ==
  ASSUME NEW m, MenuOK(m), ~m.editing, m.confirm = "none", NEW p \in Nat
  PROVE  MenuOK([m EXCEPT !.sub = "root"]) /\ MenuOK([m EXCEPT !.page = p, !.sub = "root"])
<1> DEFINE r == [m EXCEPT !.sub = "root"]
           t == [m EXCEPT !.page = p, !.sub = "root"]
<1>1. r \in Menu /\ r.sub = "root" /\ r.root = m.root /\ ~r.editing /\ r.confirm = "none"
  BY DEF MenuOK, Menu, Subs
<1>2. t \in Menu /\ t.sub = "root" /\ t.root = m.root /\ ~t.editing /\ t.confirm = "none"
  BY DEF MenuOK, Menu, Subs
<1>3. OnRow("root", m.root)
  BY DEF MenuOK
<1> HIDE DEF r, t
<1>4. MenuOK(r) /\ MenuOK(t)
  BY <1>1, <1>2, <1>3 DEF MenuOK, Pos
<1> QED
  BY <1>4 DEF r, t

LEMMA EditEnds ==
  ASSUME NEW m, MenuOK(m)
  PROVE  MenuOK([m EXCEPT !.editing = FALSE])
<1> DEFINE r == [m EXCEPT !.editing = FALSE]
<1>1. /\ r \in Menu /\ r.sub = m.sub /\ r.root = m.root /\ r.pos = m.pos /\ r.page = m.page
      /\ r.confirm = m.confirm
  BY DEF MenuOK, Menu
<1>2. ~r.editing
  BY DEF MenuOK, Menu
<1> HIDE DEF r
<1>3. MenuOK(r)
  BY <1>1, <1>2 DEF MenuOK, Pos, Row
<1> QED
  BY <1>3 DEF r

LEMMA EditBegins ==
  ASSUME NEW m, MenuOK(m), Row(m) = Step
  PROVE  MenuOK([m EXCEPT !.editing = TRUE])
<1> DEFINE r == [m EXCEPT !.editing = TRUE]
<1>1. /\ r \in Menu /\ r.sub = m.sub /\ r.root = m.root /\ r.pos = m.pos /\ r.page = m.page
      /\ r.confirm = m.confirm
  BY DEF MenuOK, Menu
<1> HIDE DEF r
<1>2. MenuOK(r)
  BY <1>1 DEF MenuOK, Pos, Row
<1> QED
  BY <1>2 DEF r

LEMMA QuestionKeeps ==
  ASSUME NEW m, MenuOK(m), NEW c \in {"none"} \cup Questions,
         c = "none" \/ Row(m) \in {Ask(c), AskIf(c)}
  PROVE  MenuOK([m EXCEPT !.confirm = c])
<1> DEFINE r == [m EXCEPT !.confirm = c]
<1>1. /\ r \in Menu /\ r.sub = m.sub /\ r.root = m.root /\ r.pos = m.pos /\ r.page = m.page
      /\ r.confirm = c
  BY DEF MenuOK, Menu
<1>2. r.editing = m.editing
  BY DEF MenuOK, Menu
<1> HIDE DEF r
<1>3. MenuOK(r)
  BY <1>1, <1>2 DEF MenuOK, Pos, Row
<1> QED
  BY <1>3 DEF r

LEMMA PageKeeps ==
  ASSUME NEW m, MenuOK(m), NEW p \in Nat, m.sub = "about" => p < AboutPages
  PROVE  MenuOK([m EXCEPT !.page = p])
<1> DEFINE r == [m EXCEPT !.page = p]
<1>1. /\ r \in Menu /\ r.sub = m.sub /\ r.root = m.root /\ r.pos = m.pos /\ r.page = p
      /\ r.confirm = m.confirm
  BY DEF MenuOK, Menu
<1>2. r.editing = m.editing
  BY DEF MenuOK, Menu
<1> HIDE DEF r
<1>3. MenuOK(r)
  BY <1>1, <1>2 DEF MenuOK, Pos, Row
<1> QED
  BY <1>3 DEF r

LEMMA CancelKeeps ==
  ASSUME NEW m, MenuOK(m), m.confirm = "none"
  PROVE  MenuOK(OnCancel(m))
BY EditEnds, LeaveKeeps DEF OnCancel

LEMMA FireKeeps ==
  ASSUME NEW m, MenuOK(m), m.confirm = "none", NEW asked \in BOOLEAN, NEW p \in Nat
  PROVE  MenuOK(Fire(m, asked, p))
<1> DEFINE row == Row(m)
<1>1. m.sub \in Subs /\ OnRow(m.sub, Pos(m)) /\ m.editing \in BOOLEAN
  BY DEF MenuOK, Menu
<1>2. RowOK(row)
  BY <1>1, ItemsAreOK DEF ItemsOK, Row, OnRow
<1> HIDE DEF row
<1>3. Fire(m, asked, p) =
        CASE m.editing                                   -> [m EXCEPT !.editing = FALSE]
          [] ~m.editing /\ row[1] = "menu"               -> Enter(m, row[2], p)
          [] ~m.editing /\ row[1] = "back"               -> [m EXCEPT !.sub = "root"]
          [] ~m.editing /\ row[1] = "step"               -> [m EXCEPT !.editing = TRUE]
          [] ~m.editing /\ (row[1] = "ask" \/ (row[1] = "ask_if" /\ asked))
                                                         -> [m EXCEPT !.confirm = row[2]]
          [] OTHER                                       -> m
  BY DEF Fire, row
<1>4. CASE m.editing
  BY <1>3, <1>4, EditEnds
<1>5. CASE ~m.editing /\ row[1] = "menu"
  BY <1>2, <1>3, <1>5, EnterKeeps DEF RowOK
<1>6. CASE ~m.editing /\ row[1] = "back"
  BY <1>3, <1>6, LeaveKeeps
<1>7. CASE ~m.editing /\ row[1] = "step"
  <2>1. Row(m) = Step
    BY <1>2, <1>7 DEF RowOK, row
  <2> QED
    BY <1>3, <1>7, <2>1, EditBegins
<1>8. CASE ~m.editing /\ (row[1] = "ask" \/ (row[1] = "ask_if" /\ asked))
  <2>1. Row(m) \in {Ask(row[2]), AskIf(row[2])} /\ row[2] \in Questions
    BY <1>2, <1>8 DEF RowOK, row
  <2>2. Fire(m, asked, p) = [m EXCEPT !.confirm = row[2]]
    BY <1>3, <1>8
  <2> QED
    BY <2>1, <2>2, QuestionKeeps
<1> QED
  BY <1>3, <1>4, <1>5, <1>6, <1>7, <1>8

(* On the two pages the only row is Back: nothing is edited or asked.      *)
LEMMA PagesAreIdle ==
  ASSUME NEW m, MenuOK(m), m.sub \in {"about", "presets"}
  PROVE  ~m.editing /\ m.confirm = "none"
<1>1. Items(m.sub) = <<Back>>
  BY DEF Items
<1>2. Row(m) = Back
  BY <1>1 DEF MenuOK, OnRow, Row
<1>3. Back # Step /\ \A c \in Questions : Back # Ask(c) /\ Back # AskIf(c)
  BY DEF Back, Step, Ask, AskIf
<1>4. m.editing \in BOOLEAN /\ m.confirm \in {"none"} \cup Questions
  BY DEF MenuOK, Menu
<1> QED
  BY <1>2, <1>3, <1>4 DEF MenuOK

LEMMA ConfirmKeepsMenu ==
  ASSUME MenuOK(menu), NEW btn, PressConfirm(btn)
  PROVE  MenuOK(menu')
<1>1. MenuOK([menu EXCEPT !.confirm = "none"])
  BY QuestionKeeps
<1> QED
  BY <1>1 DEF PressConfirm

LEMMA PresetsKeepMenu ==
  ASSUME MenuOK(menu), menu.sub = "presets", NEW btn, PressPresets(btn)
  PROVE  MenuOK(menu')
<1> DEFINE p == IF menu.page >= Presets THEN 0 ELSE menu.page
           left == (p + Presets - 1) % Presets
           right == IF menu.page >= Presets THEN 0 ELSE (p + 1) % Presets
<1>1. ~menu.editing /\ menu.confirm = "none"
  BY PagesAreIdle
<1>2. menu.page \in Nat /\ Presets \in Nat \ {0}
  BY UiAssumption DEF MenuOK, Menu
<1>3. left \in Nat /\ right \in Nat
  BY <1>2
<1>4. menu' = CASE btn \in {"Left", "Up"}    -> [menu EXCEPT !.page = left]
                [] btn \in {"Right", "Down"} -> [menu EXCEPT !.page = right]
                [] btn = "Cancel"            -> [menu EXCEPT !.sub = "root"]
                [] OTHER                     -> menu
  BY DEF PressPresets
<1> HIDE DEF p, left, right
<1>5. MenuOK([menu EXCEPT !.page = left]) /\ MenuOK([menu EXCEPT !.page = right])
  BY <1>3, PageKeeps
<1>6. MenuOK([menu EXCEPT !.sub = "root"])
  BY <1>1, <1>3, LeaveKeeps
<1> QED
  BY <1>4, <1>5, <1>6

LEMMA AboutKeepsMenu ==
  ASSUME MenuOK(menu), menu.sub = "about", NEW btn, PressAbout(btn)
  PROVE  MenuOK(menu')
<1> DEFINE left == IF menu.page > 0 THEN menu.page - 1 ELSE menu.page
           right == IF menu.page < AboutPages - 1 THEN menu.page + 1 ELSE menu.page
<1>1. ~menu.editing /\ menu.confirm = "none"
  BY PagesAreIdle
<1>2. menu.page \in Nat /\ AboutPages \in Nat \ {0} /\ menu.page < AboutPages
  BY UiAssumption DEF MenuOK, Menu
<1>3. left \in Nat /\ right \in Nat /\ left < AboutPages /\ right < AboutPages
  BY <1>2
<1>4. menu' = CASE btn = "Left"                   -> [menu EXCEPT !.page = left]
                [] btn = "Right"                  -> [menu EXCEPT !.page = right]
                [] btn \in Enters \cup {"Cancel"} -> [menu EXCEPT !.page = 0, !.sub = "root"]
                [] OTHER                          -> menu
  BY DEF PressAbout
<1> HIDE DEF left, right
<1>5. MenuOK([menu EXCEPT !.page = left]) /\ MenuOK([menu EXCEPT !.page = right])
  BY <1>3, PageKeeps
<1>6. MenuOK([menu EXCEPT !.page = 0, !.sub = "root"])
  BY <1>1, LeaveKeeps
<1> QED
  BY <1>4, <1>5, <1>6

LEMMA MenuKeepsMenu ==
  ASSUME MenuOK(menu), active = "Main" => menu.confirm = "none", NEW btn, PressMenu(btn)
  PROVE  MenuOK(menu')
<1>1. CASE active # "Main"
  BY <1>1 DEF PressMenu
<1>2. CASE active = "Main"
  <2>1. menu' \in CASE btn = "Up"       -> {MenuUp(menu)}
                    [] btn = "Down"     -> {MenuDown(menu)}
                    [] btn = "Cancel"   -> {OnCancel(menu)}
                    [] btn \in Enters   -> {Fire(menu, asked, p) : asked \in BOOLEAN, p \in 0 .. Presets}
                    [] OTHER            -> {menu}
    BY <1>2 DEF PressMenu
  <2>2. MenuOK(MenuUp(menu)) /\ MenuOK(MenuDown(menu)) /\ MenuOK(OnCancel(menu))
    BY <1>2, UpAndDownKeep, CancelKeeps
  <2>3. \A f \in {Fire(menu, asked, p) : asked \in BOOLEAN, p \in 0 .. Presets} : MenuOK(f)
    <3>1. \A p \in 0 .. Presets : p \in Nat
      BY UiAssumption
    <3> QED
      BY <1>2, <3>1, FireKeeps
  <2> QED
    BY <2>1, <2>2, <2>3
<1> QED
  BY <1>1, <1>2
----------------------------------------------------------------------------
(* Typing. *)
Tables == {"abc", "yz", "space", "special", "number"}
Places == {At(s) : s \in {"root", "ask", "commands", "more"}}
            \cup {Letters(q) : q \in {"Left", "Up", "Right"}}
            \cup UNION {{Picking(t, c) : c \in 0 .. TableSize[t] - 1} : t \in Tables}
Texts == [confirm : BOOLEAN, len : 0 .. MaxText, alt : BOOLEAN, at : Places]

LEMMA TableSizes ==
  \A t \in Tables : TableSize[t] \in Nat \ {0}
BY TextEntryAssumption DEF Tables, TableSize

LEMMA PlacesAre ==
  /\ At("root") \in Places /\ At("ask") \in Places /\ At("commands") \in Places /\ At("more") \in Places
  /\ Letters("Left") \in Places /\ Letters("Up") \in Places /\ Letters("Right") \in Places
  /\ \A t \in Tables : \A c \in 0 .. TableSize[t] - 1 : Picking(t, c) \in Places
BY DEF Places

LEMMA MiddleIsAPlace ==
  ASSUME NEW t \in Tables
  PROVE  Middle(t) \in Places
<1>1. TableSize[t] \div 2 \in 0 .. TableSize[t] - 1
  BY TableSizes
<1> QED
  BY <1>1, PlacesAre DEF Middle

LEMMA PlaceCases ==
  ASSUME NEW p \in Places
  PROVE  \/ \E s \in {"root", "ask", "commands", "more"} : p = At(s)
         \/ \E q \in {"Left", "Up", "Right"} : p = Letters(q)
         \/ \E t \in Tables : \E c \in 0 .. TableSize[t] - 1 : p = Picking(t, c)
BY DEF Places

(* Wherever a press leads from a place, it leads to a place.               *)
LEMMA PressLeadsToAPlace ==
  ASSUME NEW e, e.at \in Places, NEW btn \in Buttons
  PROVE  /\ FromRoot(e, btn) \in Places
         /\ FromLetters(e, btn) \in Places
         /\ FromCommands(e, btn) \in Places
         /\ FromMore(e, btn) \in Places
         /\ e.at.state = "pick" => FromPick(e, btn) \in Places
<1>1. FromRoot(e, btn) \in Places
  BY PlacesAre DEF FromRoot, Opposite
<1>2. FromLetters(e, btn) \in Places
  BY PlacesAre, MiddleIsAPlace DEF FromLetters, Tables
<1>3. FromCommands(e, btn) \in Places
  <2>1. 0 \in 0 .. TableSize["space"] - 1
    BY TableSizes DEF Tables
  <2> QED
    BY <2>1, PlacesAre, MiddleIsAPlace DEF FromCommands, Tables
<1>4. FromMore(e, btn) \in Places
  BY PlacesAre, MiddleIsAPlace DEF FromMore, Tables
<1>5. ASSUME e.at.state = "pick" PROVE FromPick(e, btn) \in Places
  <2>0. PICK t \in Tables : \E c \in 0 .. TableSize[t] - 1 : e.at = Picking(t, c)
    BY <1>5, PlaceCases DEF At, Letters
  <2>1. PICK c \in 0 .. TableSize[t] - 1 : e.at = Picking(t, c)
    BY <2>0
  <2>2. TableSize[t] \in Nat \ {0}
    BY TableSizes
  <2>3. c > 0 => Picking(t, c - 1) \in Places
    BY <2>2, PlacesAre
  <2>4. c + 1 < TableSize[t] => Picking(t, c + 1) \in Places
    BY <2>2, PlacesAre
  <2>5. [e.at EXCEPT !.cursor = c - 1] = Picking(t, c - 1) /\ [e.at EXCEPT !.cursor = c + 1] = Picking(t, c + 1)
    BY <2>1 DEF Picking
  <2>6. At(LeaveTo[t]) \in Places
    BY PlacesAre DEF LeaveTo, Tables
  <2>7. e.at.cursor = c /\ e.at.table = t
    BY <2>1 DEF Picking
  <2> QED
    BY <2>3, <2>4, <2>5, <2>6, <2>7 DEF FromPick
<1> QED
  BY <1>1, <1>2, <1>3, <1>4, <1>5

LEMMA MovedText ==
  ASSUME NEW e \in Texts, NEW p \in Places, NEW n \in 0 .. MaxText
  PROVE  /\ [e EXCEPT !.at = p] \in Texts
         /\ [e EXCEPT !.len = n, !.at = p] \in Texts
BY DEF Texts

LEMMA CharacterKeepsText ==
  ASSUME NEW e \in Texts
  PROVE  PushChar(e) \in Texts /\ Backspace(e) \in Texts
<1> DEFINE more == IF e.len < MaxText THEN e.len + 1 ELSE e.len
           less == IF e.len > 0 THEN e.len - 1 ELSE 0
           alt == e.alt /\ e.len >= MaxText
<1>1. e.len \in 0 .. MaxText /\ MaxText \in Nat
  BY TextEntryAssumption DEF Texts
<1>2. more \in 0 .. MaxText /\ less \in 0 .. MaxText
  BY <1>1
<1>3. alt \in BOOLEAN
  OBVIOUS
<1>4. PushChar(e) = [e EXCEPT !.len = more, !.alt = alt, !.at = At("root")]
  BY DEF PushChar
<1>5. Backspace(e) = [e EXCEPT !.len = less, !.at = At("root")]
  BY DEF Backspace
<1> HIDE DEF more, less, alt
<1>6. At("root") \in Places
  BY PlacesAre
<1>7. [e EXCEPT !.len = more, !.alt = alt, !.at = At("root")] \in Texts
  BY <1>2, <1>3, <1>6 DEF Texts
<1>8. [e EXCEPT !.len = less, !.at = At("root")] \in Texts
  BY <1>2, <1>6, MovedText
<1> QED
  BY <1>4, <1>5, <1>7, <1>8

LEMMA ButtonKeepsText ==
  ASSUME NEW e \in Texts, NEW btn \in Buttons
  PROVE  AfterButton(e, btn) \in Texts
<1>1. e.at \in Places /\ e.len \in 0 .. MaxText /\ 0 \in 0 .. MaxText
  BY TextEntryAssumption DEF Texts
<1>2. CASE e.at.state = "root"
  BY <1>1, <1>2, MovedText, PressLeadsToAPlace DEF AfterButton
<1>3. CASE e.at.state = "ask"
  BY <1>1, <1>3, MovedText, PlacesAre DEF AfterButton
<1>4. CASE e.at.state = "letters"
  BY <1>1, <1>4, MovedText, PressLeadsToAPlace DEF AfterButton
<1>5. CASE e.at.state = "commands"
  BY <1>1, <1>5, MovedText, PressLeadsToAPlace DEF AfterButton
<1>6. CASE e.at.state = "more"
  <2>1. FromMore(e, btn) \in Places
    BY <1>1, PressLeadsToAPlace
  <2> DEFINE n == IF btn = "Down" THEN 0 ELSE e.len
  <2>2. AfterButton(e, btn) = [e EXCEPT !.at = FromMore(e, btn), !.len = n]
    BY <1>6 DEF AfterButton
  <2>3. n \in 0 .. MaxText
    BY <1>1
  <2> HIDE DEF n
  <2> QED
    BY <2>1, <2>2, <2>3 DEF Texts
<1>7. CASE e.at.state = "pick"
  <2>1. FromPick(e, btn) \in Places
    BY <1>1, <1>7, PressLeadsToAPlace
  <2>2. PushChar(e) \in Texts /\ Backspace(e) \in Texts
    BY CharacterKeepsText
  <2>3. AfterButton(e, btn) \in {PushChar(e), Backspace(e), [e EXCEPT !.at = FromPick(e, btn)]}
    BY <1>7 DEF AfterButton
  <2> QED
    BY <1>1, <2>1, <2>2, <2>3, MovedText
<1>8. e.at.state \in {"root", "ask", "letters", "commands", "more", "pick"}
  BY <1>1, PlaceCases DEF At, Letters, Picking
<1> QED
  BY <1>2, <1>3, <1>4, <1>5, <1>6, <1>7, <1>8

LEMMA KeyKeepsText ==
  ASSUME NEW e \in Texts, NEW key \in ExtKeys
  PROVE  AfterKey(e, key) \in Texts
<1>1. [e EXCEPT !.alt = ~e.alt] \in Texts
  BY DEF Texts
<1> QED
  BY <1>1, CharacterKeepsText DEF AfterKey

TextInv == typed = NoEntry \/ typed \in Texts

LEMMA TextKept ==
  ASSUME TextInv, TextNext \/ UNCHANGED typed
  PROVE  TextInv'
BY ButtonKeepsText, KeyKeepsText DEF TextInv, TextNext

LEMMA TextStarts ==
  TextInit => TextInv
<1> SUFFICES ASSUME TextInit PROVE TextInv
  OBVIOUS
<1>1. PICK c \in BOOLEAN, n \in 0 .. MaxText : typed = NewEntry(c, n)
  BY DEF TextInit
<1>2. At("root") \in Places
  BY PlacesAre
<1> QED
  BY <1>1, <1>2 DEF TextInv, NewEntry, Texts

LEMMA TextInRange ==
  TextInv => EntryIsInRange
<1> SUFFICES ASSUME typed \in Texts, typed # NoEntry PROVE EntryIsInRange
  BY DEF TextInv, EntryIsInRange
<1>1. typed.len \in 0 .. MaxText /\ typed.at \in Places
  BY DEF Texts
<1>2. ASSUME typed.at.state = "pick" PROVE typed.at.cursor \in 0 .. TableSize[typed.at.table] - 1
  BY <1>1, <1>2, PlaceCases DEF At, Letters, Picking
<1> QED
  BY <1>1, <1>2 DEF EntryIsInRange
----------------------------------------------------------------------------
(* The screens. *)
UiTypes ==
  /\ active \in ScreenNames
  /\ gameOn \in BOOLEAN /\ scan \in BOOLEAN /\ realm \in BOOLEAN
  /\ egg \in BOOLEAN /\ naming \in BOOLEAN /\ pulled \in BOOLEAN

(* The game's views are open on its screen only.                           *)
ViewInv == view # "none" => active = "Game"

(* An entry is open on the game's screen only if a tap led there or the    *)
(* game opened it, and while it asks for the pet's name nothing is about   *)
(* to be named.                                                            *)
DraftInv ==
  /\ ~replaced
  /\ active = "Game" /\ entry # "none" => pulled \/ entry = "pet"
  /\ naming => ~egg
  /\ entry = "pet" => ~naming /\ ~egg

UiIInv ==
  /\ UiTypes /\ ViewInv /\ NeverStranded /\ DraftInv
  /\ MenuOK(menu) /\ TextInv /\ PadlockIsHonest

LEMMA MenuInRange ==
  ASSUME MenuOK(menu)
  PROVE  /\ Pos(menu) \in DOMAIN Items(menu.sub)
         /\ Row(menu) # Line
         /\ menu.editing => Row(menu) = Step
         /\ menu.confirm # "none" => Row(menu) \in {Ask(menu.confirm), AskIf(menu.confirm)}
         /\ menu.sub = "about" => menu.page < AboutPages
BY DEF MenuOK, OnRow, Row

LEMMA FocusFollows ==
  UiIInv => FocusIsShown
<1> SUFFICES ASSUME UiIInv PROVE FocusIsShown
  OBVIOUS
<1>1. view # "none" => active = "Game"
  BY DEF UiIInv, ViewInv
<1>2. menu.sub \in {"about", "presets"} => menu.confirm = "none"
  BY PagesAreIdle DEF UiIInv
<1> QED
  BY <1>1, <1>2 DEF FocusIsShown, Drawn, DrawnOnMain, Focus

LEMMA UiInvIsSound ==
  UiIInv => UiIsSound
<1> SUFFICES ASSUME UiIInv PROVE UiIsSound
  OBVIOUS
<1>1. FocusIsShown
  BY FocusFollows
<1>2. RowsExist
  BY MenuInRange, TextInRange DEF UiIInv, RowsExist
<1> QED
  BY <1>1, <1>2 DEF UiIInv, UiIsSound, DraftIsKept, DraftInv

LEMMA UiStarts ==
  UiInit /\ TextInit /\ LockInit => UiIInv
<1> SUFFICES ASSUME UiInit, TextInit, LockInit PROVE UiIInv
  OBVIOUS
<1>1. UiTypes /\ ViewInv /\ NeverStranded
  <2>1. "Game" \in ScreenNames
    BY DEF ScreenNames
  <2>2. gameOn \in BOOLEAN /\ active = Reconciled("Game", gameOn) /\ shown = gameOn
    BY DEF UiInit
  <2>3. active \in ScreenNames /\ (active = "Game" => gameOn)
    BY <2>1, <2>2, ReconciledIs
  <2>4. UiTypes
    BY <2>2, <2>3 DEF UiInit, UiTypes
  <2> QED
    BY <2>2, <2>3, <2>4 DEF UiInit, ViewInv, NeverStranded
<1>2. DraftInv
  BY DEF UiInit, DraftInv
<1>3. MenuOK(menu)
  <2>1. menu = NewMenu
    BY DEF UiInit
  <2>2. NewMenu \in Menu /\ NewMenu.sub = "root" /\ NewMenu.root = 1 /\ NewMenu.confirm = "none"
    BY DEF NewMenu, Menu, Subs
  <2>3. ~NewMenu.editing
    BY DEF NewMenu
  <2>4. OnRow("root", 1)
    BY SelectableAreRows DEF Subs
  <2> QED
    BY <2>1, <2>2, <2>3, <2>4 DEF MenuOK, Pos
<1>4. TextInv
  BY TextStarts
<1>5. PadlockIsHonest
  BY DEF LockInit, PadlockIsHonest
<1> QED
  BY <1>1, <1>2, <1>3, <1>4, <1>5 DEF UiIInv

ScreensOK == UiTypes /\ ViewInv /\ NeverStranded /\ DraftInv

LEMMA EntryPressKeeps ==
  ASSUME ScreensOK, UNCHANGED <<active, shown, gameOn, overlays, egg, naming, replaced>>,
         KeyOfEntry(TRUE) \/ KeyOfEntry(FALSE)
  PROVE  ScreensOK'
<1>1. entry' \in {entry, "none"} /\ pulled' = (pulled /\ entry' # "none")
  BY DEF KeyOfEntry
<1>2. UiTypes' /\ ViewInv' /\ NeverStranded'
  BY <1>1 DEF ScreensOK, UiTypes, ViewInv, NeverStranded, overlays
<1>3. DraftInv'
  BY <1>1 DEF ScreensOK, DraftInv
<1> QED
  BY <1>2, <1>3 DEF ScreensOK

(* The carousel, and what the fired row of Main's menu does elsewhere.     *)
LEMMA MenuPressKeeps ==
  ASSUME ScreensOK, entry = "none", active = "Game" => view = "none", NEW btn \in Buttons,
         PressMenu(btn), UNCHANGED <<egg, naming>>
  PROVE  ScreensOK'
<1> DEFINE does == IF active = "Main" /\ btn \in Enters THEN Does(menu) ELSE "nothing"
           on == IF does = "game" THEN ~gameOn ELSE gameOn
           moved == CASE btn = "Left"   -> ToLeft(active, shown)
                      [] btn = "Right"  -> ToRight(active, shown)
                      [] does = "qr"    -> SetActiveScreen(active, "Qr", shown)
                      [] OTHER          -> active
<1>1. /\ gameOn' = on /\ shown' = on /\ active' = Reconciled(moved, on)
      /\ scan' = (scan \/ does = "scan") /\ realm' = (realm \/ does = "realm")
      /\ IF does = "name" THEN Begin("node") ELSE UNCHANGED <<entry, pulled, replaced>>
      /\ view' = view
  BY DEF PressMenu
<1>2. on \in BOOLEAN
  BY DEF ScreensOK, UiTypes
<1>3. moved \in ScreenNames
  <2>1. active \in ScreenNames /\ shown \in BOOLEAN /\ (active = "Game" => shown)
    BY DEF ScreensOK, UiTypes, NeverStranded
  <2>2. ToLeft(active, shown) \in ScreenNames /\ ToRight(active, shown) \in ScreenNames
    BY <2>1, Carousel
  <2>3. SetActiveScreen(active, "Qr", shown) \in ScreenNames
    BY <2>1, SetActiveScreenIs DEF ScreenNames
  <2> QED
    BY <2>1, <2>2, <2>3
<1>4. does # "nothing" => active = "Main" /\ btn \in Enters
  OBVIOUS
<1>5. active = "Main" /\ btn \in Enters /\ does = "name" => moved = "Main"
  BY DEF Enters
<1>6. view = "none"
  BY DEF ScreensOK, ViewInv
<1> HIDE DEF does, on, moved
<1>7. active' \in ScreenNames /\ (active' = "Game" => on) /\ (moved # "Game" => active' = moved)
  BY <1>1, <1>2, <1>3, ReconciledIs
<1>8. ViewInv' /\ NeverStranded'
  BY <1>1, <1>6, <1>7 DEF ViewInv, NeverStranded
<1>9. CASE does = "name"
  <2>1. entry' = "node" /\ pulled' = FALSE /\ ~replaced'
    BY <1>1, <1>9 DEF Begin, ScreensOK, DraftInv
  <2>2. active' = "Main"
    BY <1>4, <1>5, <1>7, <1>9
  <2>3. DraftInv'
    BY <2>1, <2>2 DEF ScreensOK, DraftInv
  <2>4. UiTypes'
    BY <1>1, <1>2, <1>7, <2>1 DEF ScreensOK, UiTypes
  <2> QED
    BY <1>8, <2>3, <2>4 DEF ScreensOK
<1>10. CASE does # "name"
  <2>1. UNCHANGED <<entry, pulled, replaced>>
    BY <1>1, <1>10
  <2>2. DraftInv'
    BY <2>1 DEF ScreensOK, DraftInv
  <2>3. UiTypes'
    BY <1>1, <1>2, <1>7, <2>1 DEF ScreensOK, UiTypes
  <2> QED
    BY <1>8, <2>2, <2>3 DEF ScreensOK
<1> QED
  BY <1>9, <1>10

LEMMA OwnPressKeeps ==
  ASSUME ScreensOK, entry = "none", NEW btn \in Buttons, PressOwn(btn), UNCHANGED <<egg, naming>>
  PROVE  ScreensOK'
<1>1. active # "Game" /\ UNCHANGED <<active, shown, gameOn, overlays>>
  BY DEF PressOwn, Own, Writers
<1>2. CASE UNCHANGED <<entry, pulled, replaced>>
  <2>1. UiTypes'
    BY <1>1, <1>2 DEF ScreensOK, UiTypes, overlays
  <2> QED
    BY <1>1, <1>2, <2>1 DEF ScreensOK, ViewInv, NeverStranded, DraftInv, overlays
<1>3. CASE Begin("message")
  <2>1. entry' = "message" /\ pulled' = FALSE /\ ~replaced'
    BY <1>3 DEF Begin, ScreensOK, DraftInv
  <2>2. UiTypes'
    BY <1>1, <2>1 DEF ScreensOK, UiTypes, overlays
  <2> QED
    BY <1>1, <2>1, <2>2 DEF ScreensOK, ViewInv, NeverStranded, DraftInv, overlays
<1> QED
  BY <1>2, <1>3 DEF PressOwn

LEMMA DispatchKeeps ==
  ASSUME ScreensOK, MenuOK(menu), NEW btn \in Buttons, DispatchButton(btn), UNCHANGED <<egg, naming>>,
         active = "Game" /\ entry = "none" => GameLetsPass(btn)
  PROVE  ScreensOK' /\ MenuOK(menu')
<1>1. CASE UNCHANGED <<active, shown, gameOn, menu, eventSet, entry, overlays, pulled, replaced>>
  <2>1. UiTypes'
    BY <1>1 DEF ScreensOK, UiTypes, overlays
  <2>2. ViewInv' /\ NeverStranded' /\ DraftInv'
    BY <1>1 DEF ScreensOK, ViewInv, NeverStranded, DraftInv, overlays
  <2> QED
    BY <1>1, <2>1, <2>2 DEF ScreensOK
<1>2. CASE Focus = "entry" /\ PressEntry(btn)
  <2>1. KeyOfEntry(TRUE) \/ KeyOfEntry(FALSE)
    BY <1>2 DEF PressEntry, KeyOfEntry
  <2> QED
    BY <1>2, <2>1, EntryPressKeeps DEF PressEntry
<1>3. CASE Focus = "scan" /\ PressScan
  <2>1. UiTypes'
    BY <1>3 DEF ScreensOK, UiTypes, PressScan
  <2>2. ViewInv' /\ NeverStranded' /\ DraftInv'
    BY <1>3 DEF ScreensOK, ViewInv, NeverStranded, DraftInv, PressScan
  <2> QED
    BY <1>3, <2>1, <2>2 DEF ScreensOK, PressScan
<1>4. CASE Focus = "realm" /\ PressRealm(btn)
  <2>1. UiTypes'
    BY <1>4 DEF ScreensOK, UiTypes, PressRealm
  <2>2. ViewInv' /\ NeverStranded' /\ DraftInv'
    BY <1>4 DEF ScreensOK, ViewInv, NeverStranded, DraftInv, PressRealm
  <2> QED
    BY <1>4, <2>1, <2>2 DEF ScreensOK, PressRealm
<1>5. ASSUME UNCHANGED <<active, shown, gameOn, entry, overlays, pulled, replaced>> PROVE ScreensOK'
  <2>1. UiTypes'
    BY <1>5 DEF ScreensOK, UiTypes, overlays
  <2>2. ViewInv' /\ NeverStranded' /\ DraftInv'
    BY <1>5 DEF ScreensOK, ViewInv, NeverStranded, DraftInv, overlays
  <2> QED
    BY <2>1, <2>2 DEF ScreensOK
<1>6. CASE Focus = "confirm" /\ PressConfirm(btn)
  BY <1>5, <1>6, ConfirmKeepsMenu DEF PressConfirm
<1>7. CASE Focus = "presets" /\ PressPresets(btn)
  <2>1. menu.sub = "presets"
    BY <1>7 DEF Focus
  <2> QED
    BY <1>5, <1>7, <2>1, PresetsKeepMenu DEF PressPresets
<1>8. CASE Focus = "about" /\ PressAbout(btn)
  <2>1. menu.sub = "about"
    BY <1>8 DEF Focus
  <2> QED
    BY <1>5, <1>8, <2>1, AboutKeepsMenu DEF PressAbout
<1>9. CASE Focus \in {"menu", "screen"} /\ PressMenu(btn)
  <2>1. entry = "none" /\ (active = "Main" => menu.confirm = "none")
    BY <1>9 DEF Focus
  <2>2. active = "Game" => view = "none"
    BY <2>1 DEF GameLetsPass
  <2> QED
    BY <1>9, <2>1, <2>2, MenuKeepsMenu, MenuPressKeeps
<1>10. CASE Focus = "screen" /\ PressOwn(btn)
  <2>1. entry = "none"
    BY <1>10 DEF Focus
  <2> QED
    BY <1>10, <2>1, OwnPressKeeps DEF PressOwn
<1>11. Focus \in {"entry", "scan", "realm", "confirm", "presets", "about", "menu", "screen"}
  BY DEF Focus
<1>12. CASE CASE Focus = "entry"   -> PressEntry(btn)
              [] Focus = "scan"    -> PressScan
              [] Focus = "realm"   -> PressRealm(btn)
              [] Focus = "confirm" -> PressConfirm(btn)
              [] Focus = "presets" -> PressPresets(btn)
              [] Focus = "about"   -> PressAbout(btn)
              [] Focus = "menu"    -> PressMenu(btn)
              [] OTHER             -> PressOwn(btn) \/ PressMenu(btn)
  <2> HIDE DEF Focus
  <2> QED
    BY <1>2, <1>3, <1>4, <1>6, <1>7, <1>8, <1>9, <1>10, <1>11, <1>12
<1> QED
  BY <1>1, <1>12 DEF DispatchButton

LEMMA GameKeeps ==
  ASSUME ScreensOK, active = "Game", entry = "none", NEW btn \in Buttons, GamePress(btn)
  PROVE  ScreensOK'
<1>1. UNCHANGED <<active, shown, gameOn, entry, scan, realm, pulled, replaced>>
  BY DEF GamePress
<1>2. UNCHANGED <<egg, naming>> \/ (egg' = TRUE /\ naming' = FALSE)
  BY DEF GamePress, ConfirmPet
<1>3. UiTypes'
  BY <1>1, <1>2 DEF ScreensOK, UiTypes
<1>4. DraftInv'
  BY <1>1, <1>2 DEF ScreensOK, DraftInv
<1> QED
  BY <1>1, <1>3, <1>4 DEF ScreensOK, ViewInv, NeverStranded

LEMMA UiKept ==
  ASSUME ScreensOK, MenuOK(menu), UiNext
  PROVE  ScreensOK' /\ MenuOK(menu')
<1>1. ASSUME NEW btn \in Buttons, Press(btn) PROVE ScreensOK' /\ MenuOK(menu')
  <2>1. CASE UNCHANGED uiVars
    <3>1. UNCHANGED <<active, shown, gameOn, menu, entry, scan, realm, view, egg, naming, pulled, replaced>>
      BY <2>1 DEF uiVars
    <3>2. UiTypes'
      BY <3>1 DEF ScreensOK, UiTypes
    <3> QED
      BY <3>1, <3>2 DEF ScreensOK, ViewInv, NeverStranded, DraftInv
  <2>2. CASE active = "Game" /\ entry = "none" /\ GamePress(btn)
    BY <2>2, GameKeeps DEF GamePress
  <2>3. CASE /\ active = "Game" /\ entry = "none" => GameLetsPass(btn)
             /\ DispatchButton(btn) /\ UNCHANGED <<egg, naming>>
    BY <2>3, DispatchKeeps
  <2> QED
    BY <1>1, <2>1, <2>2, <2>3 DEF Press
<1>2. CASE TypeKey
  BY <1>2, EntryPressKeeps DEF TypeKey
<1>3. CASE StationPulls
  <2>1. /\ UNCHANGED <<shown, gameOn, menu, entry, overlays, egg, naming, replaced>>
        /\ pulled' = (entry # "none") /\ active' = SetActiveScreen(active, "Game", shown)
    BY <1>3 DEF StationPulls
  <2>2. active' \in {active, "Game"} /\ (active' = "Game" => active = "Game" \/ gameOn)
    BY <2>1, SetActiveScreenIs DEF ScreensOK, UiTypes, NeverStranded, ScreenNames
  <2>3. UiTypes'
    BY <2>1, <2>2 DEF ScreensOK, UiTypes, overlays, ScreenNames
  <2>4. ViewInv' /\ NeverStranded'
    BY <2>1, <2>2 DEF ScreensOK, ViewInv, NeverStranded, overlays
  <2>5. DraftInv'
    BY <2>1 DEF ScreensOK, DraftInv
  <2> QED
    BY <2>1, <2>3, <2>4, <2>5 DEF ScreensOK
<1>4. CASE EggHatches
  <2>1. /\ UNCHANGED <<active, shown, gameOn, menu, entry, overlays, pulled, replaced>>
        /\ egg /\ egg' = FALSE /\ naming' = TRUE
    BY <1>4 DEF EggHatches
  <2>2. UiTypes'
    BY <2>1 DEF ScreensOK, UiTypes, overlays
  <2>3. ViewInv' /\ NeverStranded' /\ DraftInv'
    BY <2>1 DEF ScreensOK, ViewInv, NeverStranded, DraftInv, overlays
  <2> QED
    BY <2>1, <2>2, <2>3 DEF ScreensOK
<1>5. CASE AskPetName
  <2>1. /\ UNCHANGED <<active, shown, gameOn, menu, overlays, egg>>
        /\ active = "Game" /\ naming /\ naming' = FALSE /\ entry' = "pet" /\ pulled' = FALSE
        /\ replaced' = (replaced \/ (entry # "none" /\ ~pulled))
    BY <1>5 DEF AskPetName, Begin
  <2>2. UiTypes'
    BY <2>1 DEF ScreensOK, UiTypes, overlays
  <2>3. DraftInv'
    BY <2>1 DEF ScreensOK, DraftInv
  <2>4. ViewInv' /\ NeverStranded'
    BY <2>1 DEF ScreensOK, ViewInv, NeverStranded, overlays
  <2> QED
    BY <2>1, <2>2, <2>3, <2>4 DEF ScreensOK
<1>6. CASE EventEnds
  <2>1. UNCHANGED <<active, shown, gameOn, menu, entry, overlays, egg, naming, pulled, replaced>>
    BY <1>6 DEF EventEnds
  <2>2. UiTypes'
    BY <2>1 DEF ScreensOK, UiTypes, overlays
  <2>3. ViewInv' /\ NeverStranded' /\ DraftInv'
    BY <2>1 DEF ScreensOK, ViewInv, NeverStranded, DraftInv, overlays
  <2> QED
    BY <2>1, <2>2, <2>3 DEF ScreensOK
<1> QED
  BY <1>1, <1>2, <1>3, <1>4, <1>5, <1>6 DEF UiNext

(* The screens are sound (menu.rs, lib.rs, game/input.rs, text_entry.rs,   *)
(* fw/lock.rs): a press acts on what is drawn, nobody is left on a screen  *)
(* that is off, cursors are on rows that exist, the prompt for the pet's   *)
(* name replaces no draft but that of a writer a station took to the game, *)
(* and once the last touch was seen a padlock means a locked badge.        *)
THEOREM ScreensSound == UiSpec => []UiIsSound
<1>1. UiInit /\ TextInit /\ LockInit => UiIInv
  BY UiStarts
<1>2. ASSUME UiIInv,
             [ \/ UiNext /\ UNCHANGED <<typed, lockVars>>
               \/ TextNext /\ UNCHANGED <<uiVars, lockVars>>
               \/ LockNext /\ UNCHANGED <<uiVars, typed>> ]_<<uiVars, typed, lockVars>>
      PROVE  UiIInv'
  <2>1. ScreensOK /\ MenuOK(menu) /\ TextInv /\ PadlockIsHonest
    BY <1>2 DEF UiIInv, ScreensOK
  <2>2. ScreensOK' /\ MenuOK(menu') /\ TextInv' /\ PadlockIsHonest' => UiIInv'
    BY DEF UiIInv, ScreensOK
  <2>3. ASSUME UNCHANGED uiVars PROVE ScreensOK' /\ MenuOK(menu')
    <3>1. UNCHANGED <<active, shown, gameOn, menu, entry, scan, realm, view, egg, naming, pulled, replaced>>
      BY <2>3 DEF uiVars
    <3>2. UiTypes'
      BY <2>1, <3>1 DEF ScreensOK, UiTypes
    <3> QED
      BY <2>1, <3>1, <3>2 DEF ScreensOK, ViewInv, NeverStranded, DraftInv
  <2>4. CASE UiNext /\ UNCHANGED <<typed, lockVars>>
    BY <2>1, <2>2, <2>4, UiKept, TextKept, PadlockKept
  <2>5. CASE TextNext /\ UNCHANGED <<uiVars, lockVars>>
    BY <2>1, <2>2, <2>3, <2>5, TextKept, PadlockKept
  <2>6. CASE LockNext /\ UNCHANGED <<uiVars, typed>>
    BY <2>1, <2>2, <2>3, <2>6, TextKept, PadlockKept
  <2>7. CASE UNCHANGED <<uiVars, typed, lockVars>>
    BY <2>1, <2>2, <2>3, <2>7, TextKept, PadlockKept
  <2> QED
    BY <1>2, <2>4, <2>5, <2>6, <2>7
<1>3. UiIInv => UiIsSound
  BY UiInvIsSound
<1> QED
  BY <1>1, <1>2, <1>3, PTL DEF UiSpec
============================================================================
