------------------------- MODULE ContactStoreProofs -------------------------
(***************************************************************************)
(* Proofs about ContactStore for any number of slots, keys and hashes and  *)
(* any number of calls, power losses and failed writes.  The inductive     *)
(* invariant adds to NoDangling what the lock holder knows at each of its  *)
(* writes: the slot still holds what it read (OldInv), what it will write  *)
(* is well formed (NewInv), and no index points at a slot it is about to   *)
(* overwrite (UnlinkedInv).  The second half is about the indices: while   *)
(* no write failed and no power was lost, the key index, the hash index    *)
(* and the count are exact whenever no mutation is under way; inside one,  *)
(* Exact says for each write what is off at that point.                    *)
(***************************************************************************)
EXTENDS ContactStore, FiniteSetTheorems, WellFoundedInduction,
        SequenceTheorems, TLAPS

(* Only the holder of the lock is inside a mutation, and the call it is    *)
(* making is at the head of its queue.                                     *)
LockInv ==
  \A t \in Tasks : step[t] # "idle" => lock = t /\ req[t] # <<>>

Unlinking == {"unlinkHi", "unlinkCi"}
Linking == {"linkCi", "linkHi"}

OldInv ==
  \A t \in Tasks :
    /\ step[t] \in Unlinking \cup {"slot"} => slot[job[t].s] = job[t].old
    /\ step[t] \in Unlinking => job[t].old \in Contact /\ job[t].kind # "set"

NewInv ==
  \A t \in Tasks :
    /\ step[t] \in Unlinking \cup {"slot"} /\ job[t].kind = "add"
         => job[t].new \in Contact
    /\ step[t] \in Unlinking \cup {"slot"} /\ job[t].kind = "del"
         => job[t].new = Free
    /\ step[t] = "slot" /\ job[t].kind = "set"
         => /\ job[t].new \in Contact /\ job[t].old \in Contact
            /\ job[t].new.key = job[t].old.key
    /\ step[t] \in Linking => /\ job[t].new \in Contact
                              /\ slot[job[t].s] = job[t].new

NoHi(s) == \A h \in Hashes : s \notin hi[h]
NoCi(s) == \A k \in Keys : ci[k] # s

UnlinkedInv ==
  errors = 0 =>
    \A t \in Tasks :
      /\ step[t] = "unlinkCi" => NoHi(job[t].s)
      /\ step[t] = "slot" /\ job[t].kind # "set"
           => NoHi(job[t].s) /\ NoCi(job[t].s)

IInv ==
  TypeOK /\ LockInv /\ OldInv /\ NewInv /\ UnlinkedInv /\ NoDangling

----------------------------------------------------------------------------
(* A non-empty set of naturals has a least element. *)
LEMMA LeastNatural ==
  ASSUME NEW S \in SUBSET Nat, S # {}
  PROVE  \E x \in S : \A y \in S : x <= y
<1>1. PICK m \in S : TRUE
  OBVIOUS
<1> DEFINE low == {x \in S : x <= m}
           down == {0 .. x : x \in low}
<1>2. IsWellFoundedOn(StrictSubsetOrdering(0 .. m), SUBSET (0 .. m))
  <2>1. IsFiniteSet(0 .. m)
    BY FS_Interval
  <2>2. FiniteSubsetsOf(0 .. m) = SUBSET (0 .. m)
    BY <2>1, FS_FiniteSubsetsOfFinite
  <2> QED
    BY <2>2, FS_StrictSubsetOrderingWellFounded, Zenon
<1>3. down \subseteq SUBSET (0 .. m) /\ down # {}
  BY <1>1
<1>4. PICK d \in down :
        \A e \in down : <<e, d>> \notin StrictSubsetOrdering(0 .. m)
  BY <1>2, <1>3, WFMin
<1>5. PICK x \in low : d = 0 .. x
  BY <1>4
<1>6. \A y \in low : ~(y < x)
  <2> SUFFICES ASSUME NEW y \in low, y < x PROVE FALSE
    OBVIOUS
  <2>1. 0 .. y \subseteq 0 .. x /\ x \notin 0 .. y /\ x \in 0 .. x
    OBVIOUS
  <2>2. 0 .. y \in down
    OBVIOUS
  <2>3. <<0 .. y, d>> \in StrictSubsetOrdering(0 .. m)
    BY <2>1, <2>2, <1>5, <1>3, <1>4 DEF StrictSubsetOrdering
  <2> QED
    BY <2>2, <2>3, <1>4
<1> QED
  BY <1>1, <1>6

(* Oldest picks a slot among the candidates, the least recently modified.  *)
LEMMA OldestIsCandidate ==
  ASSUME TypeOK, NEW cand \in SUBSET Live, cand # {}
  PROVE  /\ Oldest(cand) \in cand
         /\ \A r \in cand : slot[Oldest(cand)].lastmod <= slot[r].lastmod
<1>1. /\ cand \in SUBSET Nat
      /\ \A s \in cand : slot[s].lastmod \in Nat
  <2> SUFFICES ASSUME NEW s \in cand
               PROVE  s \in Nat /\ slot[s].lastmod \in Nat
    OBVIOUS
  <2>1. s \in Slots /\ slot[s] \in Contact
    BY DEF TypeOK, Live
  <2>2. slot[s].lastmod \in Times
    BY <2>1 DEF Contact
  <2>3. Slots \subseteq Nat /\ Times \subseteq Nat
    BY ConstantsAssumption DEF Slots
  <2> QED
    BY <2>1, <2>2, <2>3, Zenon
<1> DEFINE times == {slot[s].lastmod : s \in cand}
<1>2. times \in SUBSET Nat /\ times # {}
  BY <1>1
<1>3. PICK m \in times : \A n \in times : m <= n
  BY <1>2, LeastNatural
<1> DEFINE best == {s \in cand : slot[s].lastmod = m}
<1>4. best \in SUBSET Nat /\ best # {}
  BY <1>1, <1>3
<1>5. PICK s \in best : \A r \in best : s <= r
  BY <1>4, LeastNatural
<1>6. \A r \in cand : \/ slot[s].lastmod < slot[r].lastmod
                      \/ slot[s].lastmod = slot[r].lastmod /\ s <= r
  <2> SUFFICES ASSUME NEW r \in cand,
                      ~(slot[s].lastmod < slot[r].lastmod)
               PROVE  slot[s].lastmod = slot[r].lastmod /\ s <= r
    OBVIOUS
  <2>1. m <= slot[r].lastmod /\ slot[s].lastmod = m
    BY <1>3
  <2>2. slot[r].lastmod = m
    BY <2>1, <1>1
  <2> QED
    BY <2>1, <2>2, <1>5
<1>7. PICK o \in cand : /\ o = Oldest(cand)
                        /\ \A r \in cand :
                             \/ slot[o].lastmod < slot[r].lastmod
                             \/ slot[o].lastmod = slot[r].lastmod /\ o <= r
  BY <1>6 DEF Oldest
<1>8. \A r \in cand : slot[o].lastmod <= slot[r].lastmod
  BY <1>1, <1>7
<1> QED
  BY <1>7, <1>8, Zenon

(* The destination of a new contact is a slot, free if there is a free     *)
(* one, and it holds a favourite only if all slots do.                     *)
LEMMA TargetProperties ==
  ASSUME TypeOK
  PROVE  /\ Target \in Slots
         /\ slot[Target] # Free => \A r \in Slots : slot[r] # Free
         /\ slot[Target] # Free /\ slot[Target].fav
              => \A r \in Slots : slot[r] # Free /\ slot[r].fav
<1> DEFINE free   == Slots \ Live
           nonfav == {s \in Live : ~slot[s].fav}
<1>1. CASE free # {}
  <2>0. free \in SUBSET Nat
    BY DEF Slots
  <2>1. PICK s \in free : \A r \in free : s <= r
    BY <2>0, <1>1, LeastNatural
  <2>2. Target = CHOOSE x \in free : \A r \in free : x <= r
    BY <1>1 DEF Target
  <2>3. Target \in free
    BY <2>1, <2>2
  <2> QED
    BY <2>3 DEF Live
<1>2. CASE free = {} /\ nonfav # {}
  <2>1. Target = Oldest(nonfav)
    BY <1>2 DEF Target
  <2>2. Target \in nonfav
    BY <1>2, <2>1, OldestIsCandidate
  <2> QED
    BY <1>2, <2>2 DEF Live
<1>3. CASE free = {} /\ nonfav = {}
  <2>1. Target = Oldest(Live)
    BY <1>3 DEF Target
  <2>2. 0 \in Slots /\ Live # {}
    BY <1>3, ConstantsAssumption DEF Slots
  <2>3. Target \in Live
    BY <2>1, <2>2, OldestIsCandidate
  <2> QED
    BY <1>3, <2>3 DEF Live
<1> QED
  BY <1>1, <1>2, <1>3

----------------------------------------------------------------------------
LEMMA LookupProperties ==
  ASSUME TypeOK, NEW k \in Keys, Lookup(k) # None
  PROVE  Lookup(k) \in Slots /\ slot[Lookup(k)] \in Contact
           /\ slot[Lookup(k)].key = k
BY DEF TypeOK, Lookup

LEMMA NextCall ==
  ASSUME TypeOK, NEW t \in Tasks, req[t] # <<>>
  PROVE  Next1(t) \in Request /\ Tail(req[t]) \in Seq(Request)
BY HeadTailProperties DEF TypeOK, Next1

(* A call that names a contact carries a contact. *)
LEMMA NextCallContact ==
  ASSUME TypeOK, NEW t \in Tasks, req[t] # <<>>, Next1(t).kind # "clear"
  PROVE  Next1(t).kind \in Kinds /\ Next1(t).c \in Contact
BY NextCall DEF Request

(* The merged record is a contact of the same key.                         *)
LEMMA MergedProperties ==
  ASSUME NEW r, r.c \in Contact, NEW c \in Contact,
         r.kind = "add" => r.c.key = c.key
  PROVE  Merged(r, c) \in Contact /\ Merged(r, c).key = c.key
BY DEF Merged, Contact

(* While the lock is free nobody is inside a mutation.                     *)
LEMMA FreeLock ==
  ASSUME LockInv, lock = None
  PROVE  \A t \in Tasks : step[t] = "idle"
BY ConstantsAssumption DEF LockInv

LEMMA OneHolder ==
  ASSUME LockInv, NEW t \in Tasks, step[t] # "idle"
  PROVE  lock = t /\ \A u \in Tasks \ {t} : step[u] = "idle"
BY DEF LockInv

----------------------------------------------------------------------------
LEMMA InitIInv == Init => IInv
<1> SUFFICES ASSUME Init PROVE IInv
  OBVIOUS
<1>1. NoJob \in Job
  BY ConstantsAssumption DEF NoJob, Job, Slots
<1>2. TypeOK
  <2>1. <<>> \in Seq(Request)
    OBVIOUS
  <2>2. req \in [Tasks -> Seq(Request)] /\ job \in [Tasks -> Job]
    BY <1>1, <2>1 DEF Init
  <2>3. /\ slot \in [Slots -> Contact \cup {Free}]
        /\ ci \in [Keys -> Slots \cup {None}]
        /\ hi \in [Hashes -> SUBSET Slots]
        /\ step \in [Tasks -> Steps]
    BY DEF Init, Steps
  <2>4. count \in Nat /\ calls \in 0 .. MaxCalls /\ crashes \in 0 .. MaxCrashes
          /\ errors \in 0 .. MaxErrors
    BY ConstantsAssumption DEF Init
  <2> QED
    BY <2>2, <2>3, <2>4, Zenon DEF Init, TypeOK
<1> QED
  BY <1>2 DEF Init, IInv, LockInv, OldInv, NewInv, UnlinkedInv, NoDangling,
              CiPointsAtKey, HiPointsAtHash, Unlinking, Linking

(* Steps outside the lock only change the queue of calls of idle tasks.    *)
LEMMA QueueStep ==
  ASSUME IInv, NEW t \in Tasks, step[t] = "idle",
         NEW rs \in Seq(Request), req' = [req EXCEPT ![t] = rs],
         calls' \in 0 .. MaxCalls,
         UNCHANGED <<flash, lock, step, job, marks, crashes, errors>>
  PROVE  IInv'
<1> USE DEF IInv, flash, marks
<1>1. TypeOK'
  BY DEF TypeOK
<1>2. LockInv'
  BY DEF LockInv, TypeOK
<1>3. OldInv' /\ NewInv'
  BY DEF OldInv, NewInv, Unlinking, Linking
<1>4. UnlinkedInv'
  BY DEF UnlinkedInv, NoHi, NoCi
<1>5. NoDangling'
  BY DEF NoDangling, CiPointsAtKey, HiPointsAtHash
<1> QED
  BY <1>1, <1>2, <1>3, <1>4, <1>5

LEMMA ReqTyped ==
  ASSUME NEW kind \in Kinds, NEW c \in Contact, NEW ow \in BOOLEAN
  PROVE  Req(kind, c, ow, 0) \in Request
BY ConstantsAssumption DEF Req, Request

LEMMA AdvertTyped ==
  ASSUME NEW k \in Keys, NEW ts \in Times
  PROVE  FromAdvert(k, ts) \in Contact
BY ConstantsAssumption DEF FromAdvert, Contact

LEMMA PathUpdateTyped ==
  ASSUME NEW k \in Keys, NEW p \in Paths
  PROVE  OnPath(k, p) \in Request /\ PathUpdate(k, p) \in Seq(Request)
<1>1. [FromAdvert(k, 0) EXCEPT !.path = p] \in Contact
  BY ConstantsAssumption DEF FromAdvert, Contact
<1>2. OnPath(k, p) \in Request
  BY <1>1, ReqTyped DEF OnPath, Kinds
<1> QED
  BY <1>2 DEF PathUpdate

LEMMA CallStep ==
  ASSUME IInv, NEW t \in Tasks, NEW rs \in Seq(Request), Call(t, rs)
  PROVE  IInv'
<1>1. step[t] = "idle"
  BY DEF Call, IInv, LockInv
<1>2. calls' \in 0 .. MaxCalls
  BY ConstantsAssumption DEF Call, IInv, TypeOK
<1> QED
  BY <1>1, <1>2, QueueStep DEF Call

LEMMA OneCallStep ==
  ASSUME IInv, NEW t \in Tasks, NEW r \in Request, Call(t, <<r>>)
  PROVE  IInv'
<1>1. <<r>> \in Seq(Request)
  OBVIOUS
<1> QED
  BY <1>1, CallStep

LEMMA CallsStep ==
  ASSUME IInv, Calls
  PROVE  IInv'
<1> USE DEF Kinds
<1>1. ASSUME NEW k \in Keys, NEW ts \in Times, NEW p \in Paths,
             NEW allowed \in BOOLEAN, NEW ow \in BOOLEAN,
             MeshAdvert(k, ts, p, allowed, ow)
      PROVE  IInv'
  <2> DEFINE adds == IF allowed THEN <<Req("auto", FromAdvert(k, ts), ow, 0)>>
                     ELSE <<>>
  <2>1. Req("auto", FromAdvert(k, ts), ow, 0) \in Request
    BY AdvertTyped, ReqTyped
  <2>2. adds \in Seq(Request)
    BY <2>1
  <2>3. adds \o PathUpdate(k, p) \in Seq(Request)
    BY <2>2, PathUpdateTyped, ConcatProperties
  <2> QED
    BY <1>1, <2>3, CallStep DEF MeshAdvert, Tasks
<1>2. ASSUME NEW k \in Keys, NEW ts \in Times, NEW p \in Paths,
             MeshPost(k, ts, p)
      PROVE  IInv'
  <2> DEFINE sync == Req("sync", [FromAdvert(k, 0) EXCEPT !.sync = ts], FALSE, 0)
  <2>1. [FromAdvert(k, 0) EXCEPT !.sync = ts] \in Contact
    BY ConstantsAssumption DEF FromAdvert, Contact
  <2>2. sync \in Request
    BY <2>1, ReqTyped
  <2>3. Append(PathUpdate(k, p), sync) \in Seq(Request)
    BY <2>2, PathUpdateTyped, AppendProperties
  <2> QED
    BY <1>2, <2>3, CallStep DEF MeshPost, Tasks
<1>3. ASSUME NEW k \in Keys, NEW fav \in BOOLEAN, NEW ts \in Times,
             NEW p \in Paths, BleAdd(k, fav, ts, p)
      PROVE  IInv'
  <2>1. [FromAdvert(k, ts) EXCEPT !.fav = fav, !.path = p] \in Contact
    BY ConstantsAssumption DEF FromAdvert, Contact
  <2>2. Req("add", [FromAdvert(k, ts) EXCEPT !.fav = fav, !.path = p], FALSE, 0)
          \in Request
    BY <2>1, ReqTyped
  <2> QED
    BY <1>3, <2>2, OneCallStep DEF BleAdd, Tasks
<1>4. ASSUME NEW k \in Keys, BleRemove(k) \/ BleResetPath(k) \/ UiForget(k)
      PROVE  IInv'
  <2>1. Req("del", FromAdvert(k, 0), FALSE, 0) \in Request
    BY AdvertTyped, ReqTyped, ConstantsAssumption
  <2>2. OnPath(k, NoPath) \in Request
    BY PathUpdateTyped, ConstantsAssumption
  <2> QED
    BY <1>4, <2>1, <2>2, OneCallStep DEF BleRemove, BleResetPath, UiForget, Tasks
<1>5. ASSUME NEW k \in Keys, NEW ts \in Times, UiAdd(k, ts)
      PROVE  IInv'
  <2>1. Req("add", FromAdvert(k, ts), FALSE, 0) \in Request
    BY AdvertTyped, ReqTyped
  <2> QED
    BY <1>5, <2>1, OneCallStep DEF UiAdd, Tasks
<1>6. ASSUME NEW k \in Keys, NEW fav \in BOOLEAN, UiFavorite(k, fav)
      PROVE  IInv'
  <2>1. [FromAdvert(k, 0) EXCEPT !.fav = fav] \in Contact
    BY ConstantsAssumption DEF FromAdvert, Contact
  <2>2. Req("fav", [FromAdvert(k, 0) EXCEPT !.fav = fav], FALSE, 0) \in Request
    BY <2>1, ReqTyped
  <2> QED
    BY <1>6, <2>2, OneCallStep DEF UiFavorite, Tasks
<1>7. ASSUME PersisterClear PROVE IInv'
  <2>1. Req("clear", Free, FALSE, 0) \in Request
    BY ConstantsAssumption DEF Req, Request
  <2> QED
    BY <1>7, <2>1, OneCallStep DEF PersisterClear, Tasks
<1> QED
  BY <1>1, <1>2, <1>3, <1>4, <1>5, <1>6, <1>7 DEF Calls

----------------------------------------------------------------------------
LEMMA PreCheckStep ==
  ASSUME IInv, NEW t \in Tasks, PreCheck(t)
  PROVE  IInv'
<1> DEFINE more == [Next1(t) EXCEPT !.kind = "add"]
<1>1. req[t] # <<>> /\ step[t] = "idle" /\ TypeOK
  BY DEF PreCheck, Waiting, IInv
<1>2. more \in Request /\ Tail(req[t]) \in Seq(Request)
  <2>1. Next1(t) \in Request /\ Next1(t).c \in Contact
    BY <1>1, NextCall, NextCallContact DEF PreCheck
  <2> QED
    BY <1>1, <2>1, NextCall, ConstantsAssumption DEF Request, Kinds
<1>3. <<>> \o Tail(req[t]) \in Seq(Request)
        /\ <<more>> \o Tail(req[t]) \in Seq(Request)
  BY <1>2, ConcatProperties
<1>4. calls' \in 0 .. MaxCalls
  BY DEF PreCheck, bounds, IInv, TypeOK
<1>5. \E rs \in Seq(Request) : req' = [req EXCEPT ![t] = rs]
  BY <1>3 DEF PreCheck, Replace
<1> QED
  BY <1>1, <1>4, <1>5, QueueStep DEF PreCheck, bounds

LEMMA ClearStepStep ==
  ASSUME IInv, NEW t \in Tasks, ClearStep(t)
  PROVE  IInv'
<1> DEFINE i == Next1(t).i
           more == [Next1(t) EXCEPT !.i = i + 1]
<1>1. req[t] # <<>> /\ step[t] = "idle" /\ TypeOK
  BY DEF ClearStep, Waiting, IInv
<1>2. Next1(t) \in Request /\ Tail(req[t]) \in Seq(Request)
  BY <1>1, NextCall
<1>3. Next1(t).kind = "clear" /\ Next1(t).c = Free
  BY <1>2 DEF ClearStep, Request, Kinds
<1>4. i \in 0 .. NSlots
  BY <1>2 DEF Request
<1>5. i # NSlots => more \in Request
  BY <1>2, <1>3, <1>4, ConstantsAssumption DEF Request
<1>6. i # NSlots /\ slot[i] # Free => Req("del", slot[i], FALSE, 0) \in Request
  <2>1. i # NSlots => i \in Slots
    BY <1>4, ConstantsAssumption DEF Slots
  <2>2. i # NSlots /\ slot[i] # Free => slot[i] \in Contact
    BY <1>1, <2>1 DEF TypeOK
  <2>3. "del" \in Kinds /\ FALSE \in BOOLEAN
    BY DEF Kinds
  <2> QED
    BY <2>2, <2>3, ReqTyped
<1>7. /\ <<>> \o Tail(req[t]) \in Seq(Request)
      /\ i # NSlots => <<more>> \o Tail(req[t]) \in Seq(Request)
      /\ i # NSlots /\ slot[i] # Free =>
           <<Req("del", slot[i], FALSE, 0), more>> \o Tail(req[t]) \in Seq(Request)
  <2>1. /\ <<>> \in Seq(Request)
        /\ \A r \in Request : <<r>> \in Seq(Request)
        /\ \A q, r \in Request : <<q, r>> \in Seq(Request)
    OBVIOUS
  <2>2. /\ i # NSlots => <<more>> \in Seq(Request)
        /\ i # NSlots /\ slot[i] # Free
             => <<Req("del", slot[i], FALSE, 0), more>> \in Seq(Request)
    BY <2>1, <1>5, <1>6
  <2> HIDE DEF more
  <2> QED
    BY <1>2, <2>1, <2>2, ConcatProperties
<1>8. \E rs \in Seq(Request) : req' = [req EXCEPT ![t] = rs]
  BY <1>7 DEF ClearStep, Replace
<1>9. calls' \in 0 .. MaxCalls
  BY DEF ClearStep, bounds, IInv, TypeOK
<1> QED
  BY <1>1, <1>8, <1>9, QueueStep DEF ClearStep, bounds

LEMMA ReturnStep ==
  ASSUME IInv, NEW t \in Tasks, Return(t)
  PROVE  IInv'
<1>1. req[t] # <<>> /\ step[t] = "idle" /\ TypeOK
  BY DEF Return, Locks, Waiting, IInv
<1>2. Tail(req[t]) \in Seq(Request)
  BY <1>1, NextCall
<1>3. calls' \in 0 .. MaxCalls
  BY DEF Return, bounds, IInv, TypeOK
<1> QED
  BY <1>1, <1>2, <1>3, QueueStep DEF Return, bounds

----------------------------------------------------------------------------
(* Taking the lock: what the holder decided from what it read.             *)
LEMMA BeginStep ==
  ASSUME IInv, NEW t \in Tasks, lock = None, req[t] # <<>>,
         NEW j \in Job, Begin(t, j), slot[j.s] = j.old,
         j.kind # "set" => j.old = Free \/ j.old \in Contact,
         j.kind = "add" => j.new \in Contact,
         j.kind = "del" => j.new = Free,
         j.kind = "set" => /\ j.new \in Contact /\ j.old \in Contact
                           /\ j.new.key = j.old.key
  PROVE  IInv'
<1> USE DEF IInv, Begin, flash, marks, bounds
<1>0. \A u \in Tasks : step[u] = "idle"
  BY FreeLock
<1> DEFINE first == IF j.kind = "set" \/ j.old = Free THEN "slot"
                    ELSE "unlinkHi"
<1>1. /\ job'[t] = j /\ lock' = t /\ req' = req
      /\ step'[t] = first
      /\ \A u \in Tasks \ {t} : step'[u] = "idle"
  BY <1>0 DEF TypeOK
<1>2. TypeOK'
  BY DEF TypeOK, Steps
<1>3. LockInv'
  BY <1>1 DEF LockInv
<1>4. OldInv'
  BY <1>1 DEF OldInv, Unlinking
<1>5. NewInv'
  BY <1>1 DEF NewInv, Unlinking, Linking
<1>6. UnlinkedInv'
  <2>1. errors = 0 /\ slot[j.s] = Free => NoHi(j.s) /\ NoCi(j.s)
    BY ConstantsAssumption
       DEF NoDangling, CiPointsAtKey, HiPointsAtHash, NoHi, NoCi, TypeOK, Job
  <2> QED
    BY <1>1, <2>1 DEF UnlinkedInv, NoHi, NoCi
<1>7. NoDangling'
  BY DEF NoDangling, CiPointsAtKey, HiPointsAtHash
<1> QED
  BY <1>2, <1>3, <1>4, <1>5, <1>6, <1>7

LEMMA BeginSetStep ==
  ASSUME IInv, NEW t \in Tasks, BeginSet(t)
  PROVE  IInv'
<1> DEFINE k == Next1(t).c.key
           s == Found(t)
           m == Merged(Next1(t), slot[s])
<1>1. TypeOK /\ req[t] # <<>> /\ lock = None /\ Begin(t, SetJob(s, m))
  BY DEF IInv, BeginSet, Locks, Waiting
<1>2. Next1(t).c \in Contact /\ k \in Keys
  BY <1>1, NextCallContact DEF BeginSet, Locks, Contact
<1>3. s \in Slots /\ slot[s] \in Contact /\ slot[s].key = k
  BY <1>1, <1>2, LookupProperties DEF BeginSet, Found
<1>4. m \in Contact /\ m.key = slot[s].key
  BY <1>2, <1>3, MergedProperties
<1>5. SetJob(s, m) \in Job
  BY <1>1, <1>3, <1>4 DEF SetJob, Job, TypeOK
<1> QED
  BY <1>1, <1>3, <1>4, <1>5, BeginStep DEF SetJob

LEMMA BeginAddStep ==
  ASSUME IInv, NEW t \in Tasks, BeginAdd(t)
  PROVE  IInv'
<1> DEFINE c == Next1(t).c
<1>1. TypeOK /\ req[t] # <<>> /\ lock = None /\ Begin(t, AddJob(c, Target))
  BY DEF IInv, BeginAdd, Locks, Waiting
<1>2. c \in Contact
  BY <1>1, NextCallContact DEF BeginAdd, Locks
<1>3. Target \in Slots
  BY <1>1, TargetProperties
<1>4. slot[Target] \in Contact \cup {Free}
  BY <1>1, <1>3 DEF TypeOK
<1>5. AddJob(c, Target) \in Job
  BY <1>1, <1>2, <1>3, <1>4 DEF AddJob, Job, TypeOK
<1> QED
  BY <1>1, <1>2, <1>4, <1>5, BeginStep DEF AddJob

LEMMA BeginDelStep ==
  ASSUME IInv, NEW t \in Tasks, BeginDel(t)
  PROVE  IInv'
<1> DEFINE s == Found(t)
<1>1. TypeOK /\ req[t] # <<>> /\ lock = None /\ Begin(t, DelJob(s))
  BY DEF IInv, BeginDel, Locks, Waiting
<1>2. Next1(t).c.key \in Keys
  BY <1>1, NextCallContact DEF BeginDel, Locks, Contact
<1>3. s \in Slots /\ slot[s] \in Contact
  BY <1>1, <1>2, LookupProperties DEF BeginDel, Found
<1>5. DelJob(s) \in Job
  BY <1>1, <1>3 DEF DelJob, Job, TypeOK
<1> QED
  BY <1>1, <1>3, <1>5, BeginStep DEF DelJob

----------------------------------------------------------------------------
(* The writes.  Finish leaves every task idle. *)
LEMMA FinishStep ==
  ASSUME IInv, NEW t \in Tasks, step[t] # "idle", Finish(t)
  PROVE  /\ \A u \in Tasks : step'[u] = "idle"
         /\ lock' \in Tasks \cup {None}
         /\ req' \in [Tasks -> Seq(Request)]
         /\ step' \in [Tasks -> Steps]
         /\ job' \in [Tasks -> Job]
         /\ LockInv' /\ OldInv' /\ NewInv' /\ UnlinkedInv'
<1>1. NoJob \in Job
  BY ConstantsAssumption DEF NoJob, Job, Slots
<1>2. Tail(req[t]) \in Seq(Request)
  BY NextCall DEF IInv, LockInv
<1>3. \A u \in Tasks : step'[u] = "idle"
  BY OneHolder DEF IInv, Finish, Go, TypeOK
<1>4. LockInv' /\ OldInv' /\ NewInv' /\ UnlinkedInv'
  BY <1>3 DEF LockInv, OldInv, NewInv, UnlinkedInv, Unlinking, Linking
<1> QED
  BY <1>1, <1>2, <1>3, <1>4 DEF IInv, TypeOK, Finish, Go, Steps

LEMMA UnlinkHiStep ==
  ASSUME IInv, NEW t \in Tasks, UnlinkHi(t)
  PROVE  IInv'
<1> USE DEF UnlinkHi, Go, marks, bounds
<1> DEFINE s == job[t].s
           h == HashOf[job[t].old.key]
<1>1. /\ TypeOK /\ lock = t /\ req[t] # <<>>
      /\ \A u \in Tasks \ {t} : step[u] = "idle"
  BY OneHolder DEF IInv, LockInv
<1>2. /\ job[t].old \in Contact /\ slot[s] = job[t].old /\ h \in Hashes
      /\ s \in Slots /\ job[t].kind # "set"
  BY <1>1, ConstantsAssumption
     DEF IInv, OldInv, Unlinking, TypeOK, Job, Contact
<1>3. step'[t] = "unlinkCi" /\ \A u \in Tasks \ {t} : step'[u] = "idle"
  BY <1>1 DEF TypeOK
<1>4. TypeOK'
  BY <1>1 DEF TypeOK, Steps
<1>5. LockInv'
  BY <1>1, <1>3 DEF LockInv
<1>6. OldInv' /\ NewInv'
  BY <1>1, <1>2, <1>3 DEF IInv, OldInv, NewInv, Unlinking, Linking
<1>7. errors = 0 => NoHi(s)'
  BY <1>1, <1>2, ConstantsAssumption
     DEF IInv, NoDangling, HiPointsAtHash, NoHi, TypeOK
<1>8. UnlinkedInv'
  BY <1>3, <1>7 DEF UnlinkedInv, NoHi
<1>9. NoDangling'
  BY <1>1 DEF IInv, NoDangling, CiPointsAtKey, HiPointsAtHash, TypeOK
<1> QED
  BY <1>4, <1>5, <1>6, <1>8, <1>9 DEF IInv

LEMMA UnlinkCiStep ==
  ASSUME IInv, NEW t \in Tasks, UnlinkCi(t)
  PROVE  IInv'
<1> USE DEF UnlinkCi, Go, marks, bounds
<1> DEFINE s == job[t].s
           k == job[t].old.key
<1>1. /\ TypeOK /\ lock = t /\ req[t] # <<>>
      /\ \A u \in Tasks \ {t} : step[u] = "idle"
  BY OneHolder DEF IInv, LockInv
<1>2. /\ job[t].old \in Contact /\ slot[s] = job[t].old /\ k \in Keys
      /\ s \in Slots /\ job[t].kind # "set"
  BY <1>1 DEF IInv, OldInv, Unlinking, TypeOK, Job, Contact
<1>3. step'[t] = "slot" /\ \A u \in Tasks \ {t} : step'[u] = "idle"
  BY <1>1 DEF TypeOK
<1>4. TypeOK'
  BY <1>1 DEF TypeOK, Steps
<1>5. LockInv'
  BY <1>1, <1>3 DEF LockInv
<1>6. OldInv' /\ NewInv'
  BY <1>1, <1>2, <1>3 DEF IInv, OldInv, NewInv, Unlinking, Linking
<1>7. errors = 0 => NoHi(s)' /\ NoCi(s)'
  <2>1. errors = 0 => NoHi(s)'
    BY DEF IInv, UnlinkedInv, NoHi
  <2>2. s # None
    BY <1>2, ConstantsAssumption
  <2>3. errors = 0 => NoCi(s)'
    BY <1>1, <1>2, <2>2 DEF IInv, NoDangling, CiPointsAtKey, NoCi, TypeOK
  <2> QED
    BY <2>1, <2>3
<1>8. UnlinkedInv'
  BY <1>3, <1>7 DEF UnlinkedInv, NoHi, NoCi
<1>9. NoDangling'
  BY <1>1 DEF IInv, NoDangling, CiPointsAtKey, HiPointsAtHash, TypeOK
<1> QED
  BY <1>4, <1>5, <1>6, <1>8, <1>9 DEF IInv

LEMMA WriteSlotStep ==
  ASSUME IInv, NEW t \in Tasks, WriteSlot(t)
  PROVE  IInv'
<1> DEFINE s == job[t].s
<1>1. /\ TypeOK /\ lock = t /\ req[t] # <<>> /\ step[t] = "slot"
      /\ \A u \in Tasks \ {t} : step[u] = "idle"
  BY OneHolder DEF IInv, LockInv, WriteSlot
<1>2. s \in Slots /\ slot[s] = job[t].old /\ job[t].kind \in {"add", "del", "set"}
        /\ job[t].new \in Contact \cup {Free}
  BY <1>1 DEF IInv, OldInv, TypeOK, Job
<1>3. /\ job[t].kind = "add" => job[t].new \in Contact
      /\ job[t].kind = "del" => job[t].new = Free
      /\ job[t].kind = "set" => /\ job[t].new \in Contact /\ job[t].old \in Contact
                                /\ job[t].new.key = job[t].old.key
  BY <1>1 DEF IInv, NewInv
<1>4. slot' = [slot EXCEPT ![s] = job[t].new] /\ UNCHANGED <<ci, hi, count, bounds>>
  BY DEF WriteSlot
<1>5. slot' \in [Slots -> Contact \cup {Free}]
  BY <1>1, <1>2, <1>4 DEF TypeOK
<1>6. NoDangling'
  <2>1. CASE job[t].kind = "set"
    <3>1. Free \notin Contact
      BY ConstantsAssumption
    <3> QED
      BY <1>1, <1>2, <1>3, <1>4, <2>1, <3>1
         DEF IInv, NoDangling, CiPointsAtKey, HiPointsAtHash, TypeOK, bounds
  <2>2. CASE job[t].kind # "set"
    <3>1. errors = 0 => NoHi(s) /\ NoCi(s)
      BY <1>1, <2>2 DEF IInv, UnlinkedInv
    <3> QED
      BY <1>1, <1>2, <1>4, <3>1
         DEF IInv, NoDangling, CiPointsAtKey, HiPointsAtHash, NoHi, NoCi,
             TypeOK, bounds
  <2> QED
    BY <2>1, <2>2
<1>7. CASE job[t].kind = "set" /\ MarkDirty /\ Finish(t)
  <2>1. /\ req' \in [Tasks -> Seq(Request)] /\ step' \in [Tasks -> Steps]
        /\ lock' \in Tasks \cup {None} /\ job' \in [Tasks -> Job]
        /\ LockInv' /\ OldInv' /\ NewInv' /\ UnlinkedInv'
    BY <1>1, <1>7, FinishStep
  <2>2. TypeOK'
    BY <1>1, <1>4, <1>5, <1>7, <2>1 DEF TypeOK, MarkDirty, bounds
  <2> QED
    BY <1>6, <2>1, <2>2 DEF IInv
<1>8. CASE /\ job[t].kind # "set"
           /\ Go(t, IF job[t].kind = "add" THEN "linkCi" ELSE "meta")
           /\ UNCHANGED <<lock, req, job, marks>>
  <2>1. /\ step'[t] = IF job[t].kind = "add" THEN "linkCi" ELSE "meta"
        /\ \A u \in Tasks \ {t} : step'[u] = "idle"
    BY <1>1, <1>8 DEF TypeOK, Go
  <2>2. TypeOK'
    BY <1>1, <1>4, <1>5, <1>8 DEF TypeOK, Go, Steps, marks, bounds
  <2>3. LockInv'
    BY <1>1, <1>8, <2>1 DEF LockInv
  <2>4. OldInv' /\ UnlinkedInv'
    BY <2>1 DEF OldInv, UnlinkedInv, Unlinking
  <2>5. slot'[s] = job[t].new
    BY <1>1, <1>2, <1>4 DEF TypeOK
  <2>6. NewInv'
    BY <1>3, <1>8, <2>1, <2>5 DEF NewInv, Unlinking, Linking
  <2> QED
    BY <1>6, <2>2, <2>3, <2>4, <2>6 DEF IInv
<1> QED
  BY <1>7, <1>8 DEF WriteSlot

LEMMA LinkCiStep ==
  ASSUME IInv, NEW t \in Tasks, LinkCi(t)
  PROVE  IInv'
<1> USE DEF LinkCi, Go, marks, bounds
<1> DEFINE s == job[t].s
<1>1. /\ TypeOK /\ lock = t /\ req[t] # <<>>
      /\ \A u \in Tasks \ {t} : step[u] = "idle"
  BY OneHolder DEF IInv, LockInv
<1>2. s \in Slots /\ job[t].new \in Contact /\ slot[s] = job[t].new
        /\ job[t].new.key \in Keys
  BY <1>1 DEF IInv, NewInv, Linking, TypeOK, Job, Contact
<1>3. step'[t] = "linkHi" /\ \A u \in Tasks \ {t} : step'[u] = "idle"
  BY <1>1 DEF TypeOK
<1>4. TypeOK'
  BY <1>1, <1>2 DEF TypeOK, Steps
<1>5. LockInv'
  BY <1>1, <1>3 DEF LockInv
<1>6. OldInv' /\ NewInv' /\ UnlinkedInv'
  BY <1>2, <1>3 DEF OldInv, NewInv, UnlinkedInv, Unlinking, Linking
<1>7. NoDangling'
  BY <1>1, <1>2, ConstantsAssumption
     DEF IInv, NoDangling, CiPointsAtKey, HiPointsAtHash, TypeOK
<1> QED
  BY <1>4, <1>5, <1>6, <1>7 DEF IInv

LEMMA LinkHiStep ==
  ASSUME IInv, NEW t \in Tasks, LinkHi(t)
  PROVE  IInv'
<1> USE DEF LinkHi, Go, marks, bounds
<1> DEFINE s == job[t].s
           h == HashOf[job[t].new.key]
<1>1. /\ TypeOK /\ lock = t /\ req[t] # <<>>
      /\ \A u \in Tasks \ {t} : step[u] = "idle"
  BY OneHolder DEF IInv, LockInv
<1>2. s \in Slots /\ job[t].new \in Contact /\ slot[s] = job[t].new
        /\ h \in Hashes
  BY <1>1, ConstantsAssumption
     DEF IInv, NewInv, Linking, TypeOK, Job, Contact
<1>3. step'[t] = "meta" /\ \A u \in Tasks \ {t} : step'[u] = "idle"
  BY <1>1 DEF TypeOK
<1>4. hi' = hi \/ hi' = [hi EXCEPT ![h] = @ \cup {s}]
  BY <1>1, <1>2 DEF TypeOK
<1>5. TypeOK'
  BY <1>1, <1>2, <1>4 DEF TypeOK, Steps
<1>6. LockInv'
  BY <1>1, <1>3 DEF LockInv
<1>7. OldInv' /\ NewInv' /\ UnlinkedInv'
  BY <1>3 DEF OldInv, NewInv, UnlinkedInv, Unlinking, Linking
<1>8. NoDangling'
  <2>1. CiPointsAtKey'
    BY DEF IInv, NoDangling, CiPointsAtKey
  <2>2. slot[s] # Free
    BY <1>2, ConstantsAssumption
  <2>3. HiPointsAtHash'
    <3> SUFFICES ASSUME errors = 0, NEW g \in Hashes, NEW r \in hi'[g]
                 PROVE  slot[r] # Free /\ HashOf[slot[r].key] = g
      BY DEF HiPointsAtHash
    <3>1. CASE r \in hi[g]
      BY <3>1 DEF IInv, NoDangling, HiPointsAtHash
    <3>2. CASE r \notin hi[g]
      <4>1. g = h /\ r = s
        BY <1>1, <1>2, <1>4, <3>2 DEF TypeOK
      <4> QED
        BY <4>1, <1>2, <2>2
    <3> QED
      BY <3>1, <3>2
  <2> QED
    BY <2>1, <2>3 DEF NoDangling
<1> QED
  BY <1>5, <1>6, <1>7, <1>8 DEF IInv

LEMMA WriteMetaStep ==
  ASSUME IInv, NEW t \in Tasks, WriteMeta(t)
  PROVE  IInv'
<1>1. /\ req' \in [Tasks -> Seq(Request)] /\ step' \in [Tasks -> Steps]
      /\ lock' \in Tasks \cup {None} /\ job' \in [Tasks -> Job]
      /\ LockInv' /\ OldInv' /\ NewInv' /\ UnlinkedInv'
  BY FinishStep DEF WriteMeta
<1>2. TypeOK'
  BY <1>1 DEF IInv, TypeOK, WriteMeta, MarkDirty, bounds, Job
<1>3. NoDangling'
  BY DEF IInv, NoDangling, CiPointsAtKey, HiPointsAtHash, WriteMeta, bounds
<1> QED
  BY <1>1, <1>2, <1>3 DEF IInv

LEMMA FailStep ==
  ASSUME IInv, NEW t \in Tasks, Fail(t)
  PROVE  IInv'
<1>1. /\ TypeOK /\ lock = t /\ req[t] # <<>>
      /\ \A u \in Tasks \ {t} : step[u] = "idle"
      /\ UNCHANGED <<flash, marks, calls, crashes>>
      /\ errors' \in 0 .. MaxErrors /\ errors' # 0
  BY OneHolder, ConstantsAssumption DEF IInv, LockInv, Fail, TypeOK
<1>2. NoDangling' /\ UnlinkedInv'
  BY <1>1 DEF NoDangling, CiPointsAtKey, HiPointsAtHash, UnlinkedInv
<1>3. CASE step[t] \in Ignored
  <2>1. /\ step' = [step EXCEPT ![t] = Following[step[t]]]
        /\ UNCHANGED <<lock, req, job>>
    BY <1>3 DEF Fail, Go
  <2>2. \/ step[t] = "unlinkHi" /\ step'[t] = "unlinkCi"
        \/ step[t] = "unlinkCi" /\ step'[t] = "slot"
        \/ step[t] = "linkHi" /\ step'[t] = "meta"
    <3>1. Ignored = {"unlinkHi", "unlinkCi", "linkHi"}
      BY DEF Ignored, Following
    <3>2. /\ Following["unlinkHi"] = "unlinkCi"
          /\ Following["unlinkCi"] = "slot"
          /\ Following["linkHi"] = "meta"
      BY DEF Following
    <3>3. step'[t] = Following[step[t]]
      BY <1>1, <2>1 DEF TypeOK
    <3>4. CASE step[t] = "unlinkHi"
      BY <3>2, <3>3, <3>4
    <3>5. CASE step[t] = "unlinkCi"
      BY <3>2, <3>3, <3>5
    <3>6. CASE step[t] = "linkHi"
      BY <3>2, <3>3, <3>6
    <3> QED
      BY <1>3, <3>1, <3>4, <3>5, <3>6, Zenon
  <2>3. \A u \in Tasks \ {t} : step'[u] = "idle"
    BY <1>1, <2>1 DEF TypeOK
  <2>4. TypeOK'
    BY <1>1, <2>1, <2>2 DEF TypeOK, Steps, flash, marks
  <2>5. LockInv'
    BY <1>1, <2>1, <2>3 DEF LockInv
  <2>6. OldInv' /\ NewInv'
    BY <1>1, <2>1, <2>2, <2>3
       DEF IInv, OldInv, NewInv, Unlinking, Linking, flash
  <2> QED
    BY <1>2, <2>4, <2>5, <2>6 DEF IInv
<1>4. CASE step[t] \notin Ignored
  <2>1. step[t] # "idle" /\ Finish(t)
    BY <1>4 DEF Fail
  <2>2. /\ req' \in [Tasks -> Seq(Request)] /\ step' \in [Tasks -> Steps]
        /\ lock' \in Tasks \cup {None} /\ job' \in [Tasks -> Job]
        /\ LockInv' /\ OldInv' /\ NewInv'
    BY <2>1, FinishStep
  <2>3. TypeOK'
    BY <1>1, <2>2 DEF TypeOK, flash, marks
  <2> QED
    BY <1>2, <2>2, <2>3 DEF IInv
<1> QED
  BY <1>3, <1>4

LEMMA CrashStep ==
  ASSUME IInv, Crash
  PROVE  IInv'
<1>1. NoJob \in Job /\ <<>> \in Seq(Request)
  BY ConstantsAssumption DEF NoJob, Job, Slots
<1>2. \A u \in Tasks : step'[u] = "idle"
  BY DEF Crash
<1>3. TypeOK'
  <2>1. /\ req' \in [Tasks -> Seq(Request)] /\ job' \in [Tasks -> Job]
        /\ step' \in [Tasks -> Steps]
    BY <1>1 DEF Crash, Steps
  <2>2. crashes' \in 0 .. MaxCrashes
    BY ConstantsAssumption DEF IInv, TypeOK, Crash
  <2> QED
    BY <2>1, <2>2 DEF IInv, TypeOK, Crash, flash
<1>4. LockInv' /\ OldInv' /\ NewInv' /\ UnlinkedInv'
  BY <1>2 DEF LockInv, OldInv, NewInv, UnlinkedInv, Unlinking, Linking
<1>5. NoDangling'
  BY DEF IInv, NoDangling, CiPointsAtKey, HiPointsAtHash, Crash, flash
<1> QED
  BY <1>3, <1>4, <1>5 DEF IInv

LEMMA StutterStep ==
  ASSUME IInv, UNCHANGED vars
  PROVE  IInv'
BY DEF vars, IInv, TypeOK, LockInv, OldInv, NewInv, UnlinkedInv, NoHi, NoCi,
       NoDangling, CiPointsAtKey, HiPointsAtHash

LEMMA NextIInv == IInv /\ [Next]_vars => IInv'
<1> SUFFICES ASSUME IInv, Next PROVE IInv'
  BY StutterStep
<1>1. CASE Calls
  BY <1>1, CallsStep
<1>2. ASSUME NEW t \in Tasks, Work(t) PROVE IInv'
  BY <1>2, PreCheckStep, ClearStepStep, ReturnStep, BeginSetStep, BeginAddStep,
     BeginDelStep, UnlinkHiStep, UnlinkCiStep, WriteSlotStep, LinkCiStep,
     LinkHiStep, WriteMetaStep DEF Work
<1>3. ASSUME NEW t \in Tasks, Fail(t) PROVE IInv'
  BY <1>3, FailStep
<1>4. CASE Crash
  BY <1>4, CrashStep
<1> QED
  BY <1>1, <1>2, <1>3, <1>4 DEF Next

(* Every behaviour keeps the inductive invariant. *)
THEOREM Invariance == Spec => []IInv
BY InitIInv, NextIInv, PTL DEF Spec

----------------------------------------------------------------------------
(* The store's variables keep their types, whatever the tasks call, however *)
(* often power is lost and writes fail.                                     *)
THEOREM TypeCorrect == Spec => []TypeOK
<1>1. IInv => TypeOK
  BY DEF IInv
<1> QED
  BY Invariance, <1>1, PTL

(* As long as no write fails, no index entry ever points at a slot that    *)
(* does not hold its key, at any point of a mutation and after any number  *)
(* of power losses: the order of the unlinking writes is right.            *)
THEOREM CrashLeavesNoDanglingLookup == Spec => []NoDangling
<1>1. IInv => NoDangling
  BY DEF IInv
<1> QED
  BY Invariance, <1>1, PTL

(* MUTATION_LOCK makes each mutation act on the record it read.            *)
THEOREM MutationsSeeLatest == Spec => []NoLostUpdate
<1>1. IInv => NoLostUpdate
  BY DEF IInv, OldInv, NoLostUpdate, Unlinking
<1> QED
  BY Invariance, <1>1, PTL

----------------------------------------------------------------------------
(* An add that is about to overwrite a favourite found nothing else: every *)
(* slot holds a favourite until the slot is written.                       *)
FavInv ==
  \A t \in Tasks :
    /\ step[t] \in Unlinking \cup {"slot"}
    /\ job[t].kind = "add"
    /\ job[t].old # Free
    /\ job[t].old.fav
    => \A r \in Slots : slot[r] # Free /\ slot[r].fav

LEMMA NextFav == IInv /\ FavInv /\ [Next]_vars => FavInv'
<1> SUFFICES ASSUME IInv, FavInv, [Next]_vars PROVE FavInv'
  OBVIOUS
<1> USE DEF FavInv, Unlinking
<1>1. CASE UNCHANGED <<slot, step, job>>
  BY <1>1
<1>2. CASE \A t \in Tasks : step'[t] = "idle"
  BY <1>2
<1>3. ASSUME NEW t \in Tasks, BeginSet(t) PROVE FavInv'
  <2> DEFINE j == SetJob(Found(t), Merged(Next1(t), slot[Found(t)]))
  <2>1. Begin(t, j) /\ lock = None
    BY <1>3 DEF BeginSet, Locks
  <2>2. job'[t].kind = "set" /\ \A u \in Tasks \ {t} : step'[u] = "idle"
    BY <2>1, FreeLock DEF IInv, TypeOK, Begin, SetJob
  <2> QED
    BY <2>2
<1>4. ASSUME NEW t \in Tasks, BeginAdd(t) PROVE FavInv'
  <2> DEFINE j == AddJob(Next1(t).c, Target)
  <2>1. Begin(t, j) /\ lock = None
    BY <1>4 DEF BeginAdd, Locks
  <2>2. /\ job'[t] = j /\ slot' = slot
        /\ \A u \in Tasks \ {t} : step'[u] = "idle"
    BY <2>1, FreeLock DEF IInv, TypeOK, Begin, flash
  <2>3. j.old = slot[Target]
    BY DEF AddJob
  <2>4. slot[Target] # Free /\ slot[Target].fav
          => \A r \in Slots : slot[r] # Free /\ slot[r].fav
    BY TargetProperties DEF IInv
  <2> QED
    BY <2>2, <2>3, <2>4
<1>5. ASSUME NEW t \in Tasks, BeginDel(t) PROVE FavInv'
  <2>1. Begin(t, DelJob(Found(t))) /\ lock = None
    BY <1>5 DEF BeginDel, Locks
  <2>2. job'[t].kind = "del" /\ \A u \in Tasks \ {t} : step'[u] = "idle"
    BY <2>1, FreeLock DEF IInv, TypeOK, Begin, DelJob
  <2> QED
    BY <2>2
<1>6. ASSUME NEW t \in Tasks, UnlinkHi(t) \/ UnlinkCi(t) PROVE FavInv'
  <2>1. /\ slot' = slot /\ job' = job /\ step[t] \in Unlinking
        /\ \A u \in Tasks \ {t} : step'[u] = step[u]
    BY <1>6 DEF UnlinkHi, UnlinkCi, Go, IInv, TypeOK
  <2> QED
    BY <2>1
<1>7. ASSUME NEW t \in Tasks, WriteSlot(t) PROVE FavInv'
  <2>1. \A u \in Tasks \ {t} : step[u] = "idle"
    BY <1>7, OneHolder DEF IInv, WriteSlot
  <2>2. \A u \in Tasks : step'[u] \in {"idle", "linkCi", "meta"}
    BY <1>7, <2>1 DEF WriteSlot, Finish, Go, IInv, TypeOK
  <2> QED
    BY <2>2
<1>8. ASSUME NEW t \in Tasks, LinkCi(t) \/ LinkHi(t) PROVE FavInv'
  <2>1. /\ step[t] # "idle" /\ step'[t] \in {"linkHi", "meta"}
        /\ \A u \in Tasks \ {t} : step'[u] = step[u]
    BY <1>8 DEF LinkCi, LinkHi, Go, IInv, TypeOK
  <2>2. \A u \in Tasks \ {t} : step'[u] = "idle"
    BY <2>1, OneHolder DEF IInv
  <2> QED
    BY <2>1, <2>2
<1>9. ASSUME NEW t \in Tasks, WriteMeta(t) PROVE FavInv'
  BY <1>2, <1>9, FinishStep DEF WriteMeta
<1>10. ASSUME NEW t \in Tasks, Fail(t) PROVE FavInv'
  <2>1. CASE Finish(t)
    BY <1>2, <1>10, <2>1, FinishStep DEF Fail
  <2>2. CASE /\ step[t] \in Ignored
             /\ Go(t, Following[step[t]])
             /\ UNCHANGED <<lock, req, job>>
    <3>1. \A u \in Tasks \ {t} : step'[u] = step[u]
      BY <2>2 DEF Go, IInv, TypeOK
    <3>2. slot' = slot /\ job' = job
      BY <1>10, <2>2 DEF Fail, flash
    <3>3. step'[t] \in Unlinking \cup {"slot"} => step[t] \in Unlinking
      <4>1. Ignored = {"unlinkHi", "unlinkCi", "linkHi"}
              /\ Following["linkHi"] = "meta"
        BY DEF Ignored, Following
      <4>2. step'[t] = Following[step[t]]
        BY <2>2 DEF Go, IInv, TypeOK
      <4> QED
        BY <2>2, <4>1, <4>2
    <3> QED
      BY <3>1, <3>2, <3>3
  <2> QED
    BY <1>10, <2>1, <2>2 DEF Fail
<1>11. CASE Crash
  BY <1>2, <1>11 DEF Crash
<1>12. ASSUME NEW t \in Tasks, PreCheck(t) \/ ClearStep(t) \/ Return(t)
       PROVE  FavInv'
  BY <1>1, <1>12 DEF PreCheck, ClearStep, Return, flash
<1>13. CASE Calls
  BY <1>1, <1>13 DEF Calls, MeshAdvert, MeshPost, BleAdd, BleRemove,
     BleResetPath, UiAdd, UiForget, UiFavorite, PersisterClear, Call, flash
<1>14. CASE UNCHANGED vars
  BY <1>1, <1>14 DEF vars
<1> QED
  BY <1>3, <1>4, <1>5, <1>6, <1>7, <1>8, <1>9, <1>10, <1>11, <1>12, <1>13, <1>14
     DEF Next, Work

(* A favourite is overwritten by another contact only when there is no     *)
(* free slot and no other contact to evict, whatever runs concurrently and *)
(* whatever fails.                                                         *)
THEOREM FavouritesEvictedLast == Spec => FavouritesLast
<1> DEFINE Last == \A s \in Slots : Evicted(s) /\ slot[s].fav =>
                     \A r \in Slots : slot[r] # Free /\ slot[r].fav
<1>1. Init => FavInv
  BY DEF Init, FavInv, Unlinking
<1>2. IInv /\ FavInv /\ [Next]_vars => [Last]_vars
  <2> SUFFICES ASSUME IInv, FavInv, Next, NEW s \in Slots, Evicted(s),
                      slot[s].fav
               PROVE  \A r \in Slots : slot[r] # Free /\ slot[r].fav
    BY DEF Evicted
  <2>1. PICK t \in Tasks : WriteSlot(t)
    <3>1. slot' # slot
      BY DEF Evicted
    <3> QED
      BY <3>1
         DEF Next, Work, Calls, MeshAdvert, MeshPost, BleAdd, BleRemove,
             BleResetPath, UiAdd, UiForget, UiFavorite, PersisterClear, Call,
             PreCheck, ClearStep, Return, BeginSet, BeginAdd, BeginDel, Begin,
             UnlinkHi, UnlinkCi, LinkCi, LinkHi, WriteMeta, Fail, Crash, flash
  <2>2. /\ s = job[t].s /\ slot'[s] = job[t].new /\ step[t] = "slot"
        /\ slot[s] = job[t].old /\ job[t] \in Job
    BY <2>1 DEF WriteSlot, Evicted, IInv, OldInv, TypeOK
  <2>3. job[t].kind = "add"
    BY <2>2 DEF IInv, NewInv, Evicted, Job
  <2> QED
    BY <2>2, <2>3 DEF FavInv, Evicted
<1> QED
  BY <1>1, <1>2, NextFav, Invariance, PTL DEF Spec, FavouritesLast

-----------------------------------------------------------------------------
(* Without faults the indices and the count are exact between mutations.   *)
(* Inside one, a slot is missing from an index only at the writes between  *)
(* its removal and its insertion.                                          *)

CiOffAt(st, j) == st = "linkCi" \/ (st = "slot" /\ j.kind # "set")
HiOffAt(st, j) == st \in {"unlinkCi", "linkHi"} \/ CiOffAt(st, j)
CiOff(t) == CiOffAt(step[t], job[t])
HiOff(t) == HiOffAt(step[t], job[t])
AllLinked ==
  \A s \in Live :
    /\ ci[slot[s].key] = s \/ \E t \in Tasks : job[t].s = s /\ CiOff(t)
    /\ s \in hi[HashOf[slot[s].key]] \/ \E t \in Tasks : job[t].s = s /\ HiOff(t)

BucketsFit == \A h \in Hashes : Cardinality(hi[h]) <= BucketCap

(* The bucket of a contact to be added has room once the incumbent is out. *)
AddFits ==
  \A t \in Tasks : job[t].kind = "add" =>
    /\ step[t] = "unlinkHi"
         => Cardinality(hi[HashOf[job[t].new.key]] \ {job[t].s}) < BucketCap
    /\ step[t] \in {"unlinkCi", "slot"} \cup Linking
         => Cardinality(hi[HashOf[job[t].new.key]]) < BucketCap

(* Nobody else holds the key of a contact to be added. *)
AddIsNew ==
  \A t \in Tasks :
    /\ step[t] \in Linking => job[t].kind = "add"
    /\ job[t].kind = "add" /\ step[t] \in Unlinking \cup {"slot"} \cup Linking
         => \A r \in Live \ {job[t].s} : slot[r].key # job[t].new.key

(* The count that will be written is that of the slots after the mutation. *)
LiveAfter(j) == IF j.kind = "del" THEN Live \ {j.s} ELSE Live \cup {j.s}
Counted ==
  /\ \A t \in Tasks :
       /\ step[t] \in Unlinking \cup {"slot"}
            => count = Cardinality(Live) /\ job[t].n = Cardinality(LiveAfter(job[t]))
       /\ step[t] \in Linking \cup {"meta"} => job[t].n = Cardinality(Live)
  /\ lock = None => count = Cardinality(Live)

Exact == AllLinked /\ BucketsFit /\ AddFits /\ AddIsNew /\ Counted
ConsInv == NoFaults => Exact

-----------------------------------------------------------------------------
LEMMA LiveFinite ==
  ASSUME TypeOK
  PROVE  /\ Live \subseteq Slots /\ IsFiniteSet(Live) /\ Cardinality(Live) \in Nat
         /\ \A h \in Hashes : IsFiniteSet(hi[h]) /\ Cardinality(hi[h]) \in Nat
<1>1. IsFiniteSet(Slots)
  BY ConstantsAssumption, FS_Interval DEF Slots
<1>2. Live \subseteq Slots /\ \A h \in Hashes : hi[h] \subseteq Slots
  BY DEF Live, TypeOK
<1> QED
  BY <1>1, <1>2, FS_Subset, FS_CardinalityType

(* A step that writes nothing to flash and starts or ends no mutation.     *)
LEMMA SameExact ==
  ASSUME Exact, UNCHANGED <<slot, ci, hi, count, lock, step, job>>
  PROVE  Exact'
<1> USE DEF Exact
<1>1. Live' = Live
  BY DEF Live
<1>2. AllLinked'
  BY <1>1 DEF AllLinked, CiOff, HiOff, CiOffAt, HiOffAt
<1>3. BucketsFit' /\ AddFits'
  BY DEF BucketsFit, AddFits
<1>4. AddIsNew'
  BY <1>1 DEF AddIsNew
<1>5. Counted'
  BY <1>1 DEF Counted, LiveAfter
<1> QED
  BY <1>2, <1>3, <1>4, <1>5

LEMMA InitCons == Init => ConsInv
<1> SUFFICES ASSUME Init PROVE Exact
  BY DEF ConsInv
<1>1. Live = {} /\ \A t \in Tasks : step[t] = "idle"
  BY DEF Init, Live
<1>2. Cardinality({}) = 0 /\ BucketCap \in Nat
  BY FS_EmptySet, ConstantsAssumption
<1> QED
  BY <1>1, <1>2 DEF Init, Exact, AllLinked, BucketsFit, AddFits, AddIsNew, Counted,
     Unlinking, Linking

(* The index finds every live contact when no mutation is under way.       *)
LEMMA LookupFinds ==
  ASSUME IInv, Exact, lock = None, NEW r \in Live
  PROVE  /\ Lookup(slot[r].key) = r
         /\ r \in hi[HashOf[slot[r].key]]
<1>1. \A t \in Tasks : ~CiOff(t) /\ ~HiOff(t)
  BY FreeLock DEF IInv, CiOff, HiOff, CiOffAt, HiOffAt
<1>2. ci[slot[r].key] = r /\ r \in hi[HashOf[slot[r].key]]
  BY <1>1 DEF Exact, AllLinked
<1>3. r \in Slots /\ slot[r] # Free
  BY DEF Live
<1>4. r # None
  BY <1>3, ConstantsAssumption
<1> QED
  BY <1>2, <1>3, <1>4 DEF Lookup

(* What every Begin has in common: the flash is untouched and the mutation *)
(* is at its first write.                                                  *)
LEMMA BeginExact ==
  ASSUME IInv, Exact, NoFaults, NEW t \in Tasks, lock = None, NEW j, Begin(t, j),
         j.s \in Slots, j.old = slot[j.s],
         j.n = Cardinality(LiveAfter(j)),
         j.kind \in {"add", "del", "set"},
         j.kind # "add" => j.s \in Live,
         j.kind = "add" =>
           /\ \A r \in Live : slot[r].key # j.new.key
           /\ j.new.key \in Keys
           /\ Cardinality(hi[HashOf[j.new.key]] \ {j.s}) < BucketCap
           /\ slot[j.s] = Free => Cardinality(hi[HashOf[j.new.key]]) < BucketCap
  PROVE  Exact'
<1>1. /\ \A u \in Tasks : step[u] = "idle"
      /\ UNCHANGED <<slot, ci, hi, count>>
      /\ lock' = t /\ job'[t] = j
      /\ step'[t] = IF j.kind = "set" \/ j.old = Free THEN "slot" ELSE "unlinkHi"
      /\ \A u \in Tasks \ {t} : step'[u] = "idle"
  BY FreeLock DEF IInv, TypeOK, Begin, flash
<1>2. t # None
  BY ConstantsAssumption
<1>3. Live' = Live
  BY <1>1 DEF Live
<1>4. AllLinked'
  <2>1. \A r \in Live : ci[slot[r].key] = r /\ r \in hi[HashOf[slot[r].key]]
    BY <1>1 DEF Exact, AllLinked, CiOff, HiOff, CiOffAt, HiOffAt
  <2> QED
    BY <1>1, <1>3, <2>1 DEF AllLinked
<1>5. BucketsFit'
  BY <1>1 DEF Exact, BucketsFit
<1>6. AddFits'
  BY <1>1, <1>2 DEF AddFits, Linking
<1>7. AddIsNew'
  BY <1>1, <1>3 DEF AddIsNew, Linking, Unlinking
<1>8. Counted'
  <2>1. LiveAfter(j)' = LiveAfter(j)
    BY <1>3 DEF LiveAfter
  <2>2. count = Cardinality(Live)
    BY DEF Exact, Counted
  <2> QED
    BY <1>1, <1>2, <1>3, <2>1, <2>2 DEF Counted, Unlinking, Linking, LiveAfter
<1> QED
  BY <1>4, <1>5, <1>6, <1>7, <1>8 DEF Exact

LEMMA BeginAddExact ==
  ASSUME IInv, Exact, NoFaults, NEW t \in Tasks, BeginAdd(t)
  PROVE  Exact'
<1> DEFINE c == Next1(t).c
           s == Target
           j == AddJob(c, s)
<1>1. TypeOK /\ lock = None /\ req[t] # <<>> /\ Next1(t).kind = "add" /\ Begin(t, j)
      /\ Lookup(c.key) = None /\ ~BucketFull(c)
  BY DEF IInv, BeginAdd, Locks, Waiting, Found
<1>2. c \in Contact /\ c.key \in Keys /\ s \in Slots
  BY <1>1, NextCallContact, TargetProperties DEF Contact
<1>3. /\ j.s = s /\ j.old = slot[s] /\ j.new = c /\ j.kind = "add"
      /\ j.n = IF slot[s] = Free THEN count + 1 ELSE count
  BY DEF AddJob
<1>4. \A r \in Live : slot[r].key # c.key
  <2> SUFFICES ASSUME NEW r \in Live, slot[r].key = c.key PROVE FALSE
    OBVIOUS
  <2>1. Lookup(c.key) = r
    BY <1>1, LookupFinds
  <2>2. r # None
    BY ConstantsAssumption DEF Live
  <2> QED
    BY <1>1, <2>1, <2>2
<1> HIDE DEF c, s, j
<1>5. j.n = Cardinality(LiveAfter(j))
  <2>1. count = Cardinality(Live) /\ LiveAfter(j) = Live \cup {s}
    BY <1>1, <1>3 DEF Exact, Counted, LiveAfter
  <2>2. CASE slot[s] = Free
    <3>1. s \notin Live
      BY <2>2 DEF Live
    <3> QED
      BY <1>1, <1>3, <2>1, <2>2, <3>1, LiveFinite, FS_AddElement
  <2>3. CASE slot[s] # Free
    <3>1. Live \cup {s} = Live
      BY <1>2, <2>3 DEF Live
    <3> QED
      BY <1>3, <2>1, <2>3, <3>1
  <2> QED
    BY <2>2, <2>3
<1> DEFINE h == HashOf[c.key]
<1>6. h \in Hashes
  BY <1>2, ConstantsAssumption
<1>7. IsFiniteSet(hi[h]) /\ Cardinality(hi[h]) \in Nat /\ Cardinality(hi[h]) <= BucketCap
      /\ BucketCap \in Nat
  BY <1>1, <1>6, LiveFinite, ConstantsAssumption DEF Exact, BucketsFit
<1>8. /\ Cardinality(hi[h] \ {s}) < BucketCap
      /\ slot[s] = Free => Cardinality(hi[h]) < BucketCap
  <2>1. CASE slot[s] # Free /\ HashOf[slot[s].key] = h
    <3>1. s \in hi[h]
      BY <1>1, <1>2, <2>1, LookupFinds DEF Live
    <3>2. Cardinality(hi[h] \ {s}) = Cardinality(hi[h]) - 1
      BY <1>7, <3>1, FS_RemoveElement
    <3> QED
      BY <1>7, <2>1, <3>2
  <2>2. CASE ~(slot[s] # Free /\ HashOf[slot[s].key] = h)
    <3>1. Cardinality(hi[h]) < BucketCap
      <4>1. ~(Cardinality(hi[h]) >= BucketCap)
        BY <1>1, <2>2 DEF BucketFull, s
      <4> QED
        BY <1>7, <4>1
    <3>2. Cardinality(hi[h] \ {s}) <= Cardinality(hi[h]) /\ Cardinality(hi[h] \ {s}) \in Nat
      BY <1>7, FS_Subset, FS_CardinalityType
    <3> QED
      BY <1>7, <3>1, <3>2
  <2> QED
    BY <2>1, <2>2
<1> QED
  BY <1>1, <1>2, <1>3, <1>4, <1>5, <1>8, BeginExact

LEMMA BeginDelExact ==
  ASSUME IInv, Exact, NoFaults, NEW t \in Tasks, BeginDel(t)
  PROVE  Exact'
<1> DEFINE s == Found(t)
           j == DelJob(s)
<1>1. TypeOK /\ lock = None /\ req[t] # <<>> /\ Begin(t, j) /\ Lookup(Next1(t).c.key) # None
      /\ Next1(t).kind # "clear"
  BY DEF IInv, BeginDel, Locks, Waiting, Found
<1>2. Next1(t).c.key \in Keys
  BY <1>1, NextCallContact DEF Contact
<1>3. s \in Slots /\ slot[s] \in Contact
  BY <1>1, <1>2, LookupProperties DEF Found
<1>4. s \in Live
  BY <1>3, ConstantsAssumption DEF Live
<1>5. /\ j.s = s /\ j.old = slot[s] /\ j.kind = "del"
      /\ j.n = IF count = 0 THEN 0 ELSE count - 1
  BY DEF DelJob
<1> HIDE DEF s, j
<1>6. j.n = Cardinality(LiveAfter(j))
  <2>1. count = Cardinality(Live) /\ LiveAfter(j) = Live \ {s}
    BY <1>1, <1>5 DEF Exact, Counted, LiveAfter
  <2>2. Cardinality(Live \ {s}) = Cardinality(Live) - 1 /\ Cardinality(Live) \in Nat
        /\ Cardinality(Live \ {s}) \in Nat
    BY <1>1, <1>4, LiveFinite, FS_RemoveElement, FS_Subset, FS_CardinalityType
  <2> QED
    BY <1>5, <2>1, <2>2
<1> QED
  BY <1>1, <1>3, <1>4, <1>5, <1>6, BeginExact

LEMMA BeginSetExact ==
  ASSUME IInv, Exact, NoFaults, NEW t \in Tasks, BeginSet(t)
  PROVE  Exact'
<1> DEFINE s == Found(t)
           j == SetJob(s, Merged(Next1(t), slot[s]))
<1>1. TypeOK /\ lock = None /\ req[t] # <<>> /\ Begin(t, j) /\ Lookup(Next1(t).c.key) # None
      /\ Next1(t).kind # "clear"
  BY DEF IInv, BeginSet, Locks, Waiting, Found
<1>2. Next1(t).c.key \in Keys
  BY <1>1, NextCallContact DEF Contact
<1>3. s \in Slots /\ slot[s] \in Contact
  BY <1>1, <1>2, LookupProperties DEF Found
<1>4. s \in Live
  BY <1>3, ConstantsAssumption DEF Live
<1>5. j.s = s /\ j.old = slot[s] /\ j.kind = "set" /\ j.n = count
  BY DEF SetJob
<1> HIDE DEF s, j
<1>6. j.n = Cardinality(LiveAfter(j))
  <2>1. count = Cardinality(Live) /\ LiveAfter(j) = Live
    BY <1>1, <1>4, <1>5 DEF Exact, Counted, LiveAfter
  <2> QED
    BY <1>5, <2>1
<1> QED
  BY <1>1, <1>3, <1>4, <1>5, <1>6, BeginExact
-----------------------------------------------------------------------------
(* The writes.  What is common to them: only the holder is in a mutation,  *)
(* and the exactness of the stores is that of its own position.            *)
ExactAt(t, st, j) ==
  /\ \A r \in Live :
       /\ \/ ci[slot[r].key] = r
          \/ j.s = r /\ CiOffAt(st, j)
       /\ \/ r \in hi[HashOf[slot[r].key]]
          \/ j.s = r /\ HiOffAt(st, j)
  /\ BucketsFit
  /\ j.kind = "add" =>
       /\ st = "unlinkHi"
            => Cardinality(hi[HashOf[j.new.key]] \ {j.s}) < BucketCap
       /\ st \in {"unlinkCi", "slot", "linkCi", "linkHi"}
            => Cardinality(hi[HashOf[j.new.key]]) < BucketCap
       /\ st \in {"unlinkHi", "unlinkCi", "slot", "linkCi", "linkHi"}
            => \A r \in Live \ {j.s} : slot[r].key # j.new.key
  /\ st \in {"linkCi", "linkHi"} => j.kind = "add"
  /\ st \in {"unlinkHi", "unlinkCi", "slot"}
       => count = Cardinality(Live) /\ j.n = Cardinality(LiveAfter(j))
  /\ st \in {"linkCi", "linkHi", "meta"} => j.n = Cardinality(Live)

LEMMA HolderExact ==
  ASSUME IInv, Exact, NEW t \in Tasks, step[t] # "idle"
  PROVE  ExactAt(t, step[t], job[t])
<1>1. \A u \in Tasks \ {t} : step[u] = "idle"
  BY OneHolder DEF IInv
<1> USE <1>1 DEF Exact
<1>2. \A u \in Tasks : (CiOff(u) => u = t) /\ (HiOff(u) => u = t)
  BY DEF CiOff, HiOff, CiOffAt, HiOffAt
<1>3. ASSUME NEW r \in Live
      PROVE  /\ \/ ci[slot[r].key] = r
                \/ job[t].s = r /\ CiOffAt(step[t], job[t])
             /\ \/ r \in hi[HashOf[slot[r].key]]
                \/ job[t].s = r /\ HiOffAt(step[t], job[t])
  <2>1. ci[slot[r].key] # r => \E u \in Tasks : job[u].s = r /\ CiOff(u)
    BY DEF AllLinked
  <2>2. r \notin hi[HashOf[slot[r].key]] => \E u \in Tasks : job[u].s = r /\ HiOff(u)
    BY DEF AllLinked
  <2> QED
    BY <1>2, <2>1, <2>2, Zenon DEF CiOff, HiOff
<1>4. \A r \in Live :
       /\ \/ ci[slot[r].key] = r
          \/ job[t].s = r /\ CiOffAt(step[t], job[t])
       /\ \/ r \in hi[HashOf[slot[r].key]]
          \/ job[t].s = r /\ HiOffAt(step[t], job[t])
  BY <1>3
<1>5. BucketsFit
  OBVIOUS
<1>6. job[t].kind = "add" =>
       /\ step[t] = "unlinkHi"
            => Cardinality(hi[HashOf[job[t].new.key]] \ {job[t].s}) < BucketCap
       /\ step[t] \in {"unlinkCi", "slot", "linkCi", "linkHi"}
            => Cardinality(hi[HashOf[job[t].new.key]]) < BucketCap
  BY DEF AddFits, Linking
<1>7. /\ job[t].kind = "add" /\ step[t] \in {"unlinkHi", "unlinkCi", "slot", "linkCi", "linkHi"}
           => \A r \in Live \ {job[t].s} : slot[r].key # job[t].new.key
      /\ step[t] \in {"linkCi", "linkHi"} => job[t].kind = "add"
  BY DEF AddIsNew, Linking, Unlinking
<1>8. /\ step[t] \in {"unlinkHi", "unlinkCi", "slot"}
           => count = Cardinality(Live) /\ job[t].n = Cardinality(LiveAfter(job[t]))
      /\ step[t] \in {"linkCi", "linkHi", "meta"} => job[t].n = Cardinality(Live)
  BY DEF Counted, Linking, Unlinking
<1> QED
  BY <1>4, <1>5, <1>6, <1>7, <1>8 DEF ExactAt

LEMMA ExactHolder ==
  ASSUME NEW t \in Tasks, NEW st, NEW j,
         lock' = t, step'[t] = st, job'[t] = j, \A u \in Tasks \ {t} : step'[u] = "idle",
         ExactAt(t, st, j)'
  PROVE  Exact'
<1>1. t # None
  BY ConstantsAssumption
<1>2. AllLinked'
  BY DEF ExactAt, AllLinked, CiOff, HiOff
<1>3. BucketsFit'
  BY DEF ExactAt
<1>4. AddFits' /\ AddIsNew'
  BY DEF ExactAt, AddFits, AddIsNew, Linking, Unlinking
<1>5. Counted'
  BY <1>1 DEF ExactAt, Counted, Linking, Unlinking
<1> QED
  BY <1>2, <1>3, <1>4, <1>5 DEF Exact
LEMMA UnlinkHiExact ==
  ASSUME IInv, Exact, NoFaults, NEW t \in Tasks, UnlinkHi(t)
  PROVE  Exact'
<1>0. PICK j : j = job[t]
  OBVIOUS
<1> DEFINE s == j.s
           h == HashOf[j.old.key]
<1>1. /\ TypeOK /\ lock = t /\ step[t] = "unlinkHi" /\ errors = 0
      /\ \A u \in Tasks \ {t} : step[u] = "idle"
  BY <1>0, OneHolder DEF IInv, UnlinkHi, NoFaults
<1>2. /\ j.old \in Contact /\ slot[s] = j.old /\ h \in Hashes /\ s \in Slots
      /\ j.kind = "add" => j.new \in Contact /\ HashOf[j.new.key] \in Hashes
  BY <1>0, <1>1, ConstantsAssumption
     DEF IInv, OldInv, NewInv, Unlinking, TypeOK, Job, Contact
<1>3. /\ lock' = t /\ step'[t] = "unlinkCi" /\ job'[t] = j
      /\ \A u \in Tasks \ {t} : step'[u] = "idle"
      /\ UNCHANGED <<slot, ci, count>>
      /\ hi' = [hi EXCEPT ![h] = @ \ {s}]
  BY <1>0, <1>1 DEF UnlinkHi, Go, TypeOK
<1>4. \A g \in Hashes : hi'[g] = IF g = h THEN hi[g] \ {s} ELSE hi[g]
  BY <1>1, <1>3 DEF TypeOK
<1>5. \A g \in Hashes : s \in hi[g] => g = h
  BY <1>1, <1>2 DEF IInv, NoDangling, HiPointsAtHash
<1>6. ExactAt(t, "unlinkHi", j)
  BY <1>0, <1>1, HolderExact
<1>7. Live' = Live
  BY <1>3 DEF Live
<1> HIDE DEF s, h
<1>8. \A g \in Hashes : hi'[g] = hi[g] \ {s}
  BY <1>4, <1>5
<1>9. ASSUME NEW r \in Live
      PROVE  /\ ci[slot[r].key] = r
             /\ r \in hi'[HashOf[slot[r].key]] \/ s = r
  <2>1. ci[slot[r].key] = r /\ r \in hi[HashOf[slot[r].key]]
    BY <1>6 DEF ExactAt, CiOffAt, HiOffAt
  <2>2. HashOf[slot[r].key] \in Hashes
    BY <1>1, ConstantsAssumption DEF Live, TypeOK, Contact
  <2> QED
    BY <1>8, <2>1, <2>2
<1>10. BucketsFit'
  <2>1. \A g \in Hashes : /\ Cardinality(hi'[g]) <= Cardinality(hi[g])
                          /\ Cardinality(hi'[g]) \in Nat /\ Cardinality(hi[g]) \in Nat
    BY <1>1, <1>8, LiveFinite, FS_Subset, FS_CardinalityType
  <2>2. BucketCap \in Nat
    BY ConstantsAssumption
  <2> QED
    BY <1>6, <2>1, <2>2 DEF ExactAt, BucketsFit
<1>11. j.kind = "add" => Cardinality(hi'[HashOf[j.new.key]]) < BucketCap
  BY <1>2, <1>6, <1>8 DEF ExactAt, s
<1>12. LiveAfter(j)' = LiveAfter(j)
  BY <1>7 DEF LiveAfter
<1>13. ExactAt(t, "unlinkCi", j)'
  BY <1>3, <1>6, <1>7, <1>9, <1>10, <1>11, <1>12 DEF ExactAt, CiOffAt, HiOffAt, s
<1> QED
  BY <1>3, <1>13, ExactHolder
LEMMA UnlinkCiExact ==
  ASSUME IInv, Exact, NEW t \in Tasks, UnlinkCi(t)
  PROVE  Exact'
<1>0. PICK j : j = job[t]
  OBVIOUS
<1> DEFINE s == j.s
           k == j.old.key
<1>1. /\ TypeOK /\ lock = t /\ step[t] = "unlinkCi"
      /\ \A u \in Tasks \ {t} : step[u] = "idle"
  BY <1>0, OneHolder DEF IInv, UnlinkCi
<1>2. /\ j.old \in Contact /\ slot[s] = j.old /\ k \in Keys /\ s \in Slots
      /\ j.kind # "set"
  BY <1>0, <1>1 DEF IInv, OldInv, Unlinking, TypeOK, Job, Contact
<1>3. /\ lock' = t /\ step'[t] = "slot" /\ job'[t] = j
      /\ \A u \in Tasks \ {t} : step'[u] = "idle"
      /\ UNCHANGED <<slot, hi, count>>
      /\ \A g \in Keys : ci'[g] = IF g = k THEN None ELSE ci[g]
  BY <1>0, <1>1 DEF UnlinkCi, Go, TypeOK
<1>4. ExactAt(t, "unlinkCi", j)
  BY <1>0, <1>1, HolderExact
<1>5. Live' = Live /\ s \in Live
  BY <1>2, <1>3, ConstantsAssumption DEF Live
<1>6. ASSUME NEW r \in Live, s # r
      PROVE  ci'[slot[r].key] = r
  <2>1. ci[slot[r].key] = r /\ ci[slot[s].key] = s
    BY <1>4, <1>5 DEF ExactAt, CiOffAt
  <2>2. slot[r].key \in Keys
    BY <1>1, ConstantsAssumption DEF Live, TypeOK, Contact
  <2> QED
    BY <1>2, <1>3, <1>6, <2>1, <2>2
<1>7. BucketsFit' /\ LiveAfter(j)' = LiveAfter(j)
  BY <1>3, <1>4, <1>5 DEF ExactAt, BucketsFit, LiveAfter
<1>8. ExactAt(t, "slot", j)'
  BY <1>2, <1>3, <1>4, <1>5, <1>6, <1>7 DEF ExactAt, CiOffAt, HiOffAt
<1> QED
  BY <1>3, <1>8, ExactHolder

(* The mutation has ended.                                                 *)
LEMMA IdleExact ==
  ASSUME \A u \in Tasks : step'[u] = "idle",
         \A r \in Live' : ci'[slot'[r].key] = r /\ r \in hi'[HashOf[slot'[r].key]],
         BucketsFit', count' = Cardinality(Live')
  PROVE  Exact'
<1>1. AllLinked'
  BY DEF AllLinked
<1>2. AddFits' /\ AddIsNew' /\ Counted'
  BY DEF AddFits, AddIsNew, Counted, Linking, Unlinking
<1> QED
  BY <1>1, <1>2 DEF Exact

LEMMA WriteSlotExact ==
  ASSUME IInv, Exact, NEW t \in Tasks, WriteSlot(t)
  PROVE  Exact'
<1>0. PICK j : j = job[t]
  OBVIOUS
<1> DEFINE s == j.s
<1>1. /\ TypeOK /\ lock = t /\ step[t] = "slot"
      /\ \A u \in Tasks \ {t} : step[u] = "idle"
  BY <1>0, OneHolder DEF IInv, WriteSlot
<1>2. /\ slot[s] = j.old /\ s \in Slots /\ j.kind \in {"add", "del", "set"}
      /\ j.kind = "add" => j.new \in Contact /\ j.new # Free
      /\ j.kind = "del" => j.new = Free
      /\ j.kind = "set" => /\ j.new \in Contact /\ j.old \in Contact
                           /\ j.new.key = j.old.key /\ j.new # Free /\ j.old # Free
  BY <1>0, <1>1, ConstantsAssumption DEF IInv, OldInv, NewInv, TypeOK, Job
<1>3. /\ UNCHANGED <<ci, hi, count>>
      /\ slot'[s] = j.new /\ \A r \in Slots \ {s} : slot'[r] = slot[r]
  BY <1>0, <1>1, <1>2 DEF WriteSlot, TypeOK
<1>4. ExactAt(t, "slot", j)
  BY <1>0, <1>1, HolderExact
<1>5. Live' = IF j.new = Free THEN Live \ {s} ELSE Live \cup {s}
  BY <1>2, <1>3 DEF Live
<1>6. BucketsFit'
  BY <1>3, <1>4 DEF ExactAt, BucketsFit
<1>7. \A r \in Live : r \in Slots /\ slot[r] # Free
  BY DEF Live
<1>8. CASE j.kind = "set" /\ Finish(t)
  <2>1. \A u \in Tasks : step'[u] = "idle"
    BY <1>1, <1>8 DEF Finish, Go, TypeOK
  <2>2. Live' = Live /\ LiveAfter(j) = Live
    BY <1>2, <1>5, <1>8 DEF Live, LiveAfter
  <2>3. count' = Cardinality(Live')
    BY <1>3, <1>4, <2>2 DEF ExactAt
  <2>4. \A r \in Live : slot'[r].key = slot[r].key
    BY <1>2, <1>3, <1>7, <1>8
  <2>5. \A r \in Live' : ci'[slot'[r].key] = r /\ r \in hi'[HashOf[slot'[r].key]]
    BY <1>3, <1>4, <1>8, <2>2, <2>4 DEF ExactAt, CiOffAt, HiOffAt
  <2> QED
    BY <1>6, <2>1, <2>3, <2>5, IdleExact
<1>9. CASE /\ j.kind # "set"
           /\ Go(t, IF j.kind = "add" THEN "linkCi" ELSE "meta")
           /\ UNCHANGED <<lock, req, job, marks>>
  <2> DEFINE st == IF j.kind = "add" THEN "linkCi" ELSE "meta"
  <2>1. /\ lock' = t /\ step'[t] = st /\ job'[t] = j
        /\ \A u \in Tasks \ {t} : step'[u] = "idle"
    BY <1>0, <1>1, <1>9 DEF Go, TypeOK
  <2>2. Live' = LiveAfter(j)
    BY <1>2, <1>5, <1>9 DEF LiveAfter
  <2>3. \A r \in Live' : r # s => r \in Live /\ slot'[r] = slot[r]
    BY <1>3, <1>5, <1>7
  <2>4. j.kind # "add" => s \notin Live'
    BY <1>2, <1>5, <1>9
  <2>5. \A r \in Live' :
          /\ ci'[slot'[r].key] = r \/ s = r
          /\ r \in hi'[HashOf[slot'[r].key]] \/ s = r
    BY <1>3, <1>4, <2>3 DEF ExactAt
  <2>6. j.kind = "add" =>
          /\ Cardinality(hi'[HashOf[j.new.key]]) < BucketCap
          /\ \A r \in Live' \ {s} : slot'[r].key # j.new.key
    BY <1>3, <1>4, <2>3 DEF ExactAt
  <2>7. j.n = Cardinality(Live')
    BY <1>4, <2>2 DEF ExactAt
  <2>8. ExactAt(t, st, j)'
    BY <1>6, <1>9, <2>4, <2>5, <2>6, <2>7 DEF ExactAt, CiOffAt, HiOffAt
  <2> QED
    BY <2>1, <2>8, ExactHolder
<1> QED
  BY <1>0, <1>8, <1>9 DEF WriteSlot

LEMMA LinkCiExact ==
  ASSUME IInv, Exact, NEW t \in Tasks, LinkCi(t)
  PROVE  Exact'
<1>0. PICK j : j = job[t]
  OBVIOUS
<1> DEFINE s == j.s
           k == j.new.key
<1>1. /\ TypeOK /\ lock = t /\ step[t] = "linkCi"
      /\ \A u \in Tasks \ {t} : step[u] = "idle"
  BY <1>0, OneHolder DEF IInv, LinkCi
<1>2. slot[s] = j.new /\ k \in Keys /\ s \in Slots
  BY <1>0, <1>1 DEF IInv, NewInv, Linking, TypeOK, Job, Contact
<1>3. /\ lock' = t /\ step'[t] = "linkHi" /\ job'[t] = j
      /\ \A u \in Tasks \ {t} : step'[u] = "idle"
      /\ UNCHANGED <<slot, hi, count>>
      /\ \A g \in Keys : ci'[g] = IF g = k THEN s ELSE ci[g]
  BY <1>0, <1>1 DEF LinkCi, Go, TypeOK
<1>4. ExactAt(t, "linkCi", j)
  BY <1>0, <1>1, HolderExact
<1>5. Live' = Live
  BY <1>3 DEF Live
<1>6. ASSUME NEW r \in Live
      PROVE  ci'[slot[r].key] = r
  <2>1. slot[r].key \in Keys
    BY <1>1, ConstantsAssumption DEF Live, TypeOK, Contact
  <2>2. CASE r = s
    BY <1>2, <1>3, <2>2
  <2>3. CASE r # s
    <3>1. ci[slot[r].key] = r /\ slot[r].key # k
      BY <1>4, <2>3 DEF ExactAt
    <3> QED
      BY <1>3, <2>1, <3>1
  <2> QED
    BY <2>2, <2>3
<1>7. BucketsFit'
  BY <1>3, <1>4 DEF ExactAt, BucketsFit
<1>8. ExactAt(t, "linkHi", j)'
  BY <1>3, <1>4, <1>5, <1>6, <1>7 DEF ExactAt, CiOffAt, HiOffAt
<1> QED
  BY <1>3, <1>8, ExactHolder

LEMMA LinkHiExact ==
  ASSUME IInv, Exact, NEW t \in Tasks, LinkHi(t)
  PROVE  Exact'
<1>0. PICK j : j = job[t]
  OBVIOUS
<1> DEFINE s == j.s
           h == HashOf[j.new.key]
<1>1. /\ TypeOK /\ lock = t /\ step[t] = "linkHi"
      /\ \A u \in Tasks \ {t} : step[u] = "idle"
  BY <1>0, OneHolder DEF IInv, LinkHi
<1>2. slot[s] = j.new /\ h \in Hashes /\ s \in Slots
  BY <1>0, <1>1, ConstantsAssumption DEF IInv, NewInv, Linking, TypeOK, Job, Contact
<1>3. ExactAt(t, "linkHi", j)
  BY <1>0, <1>1, HolderExact
<1>4. Cardinality(hi[h]) < BucketCap
  BY <1>3 DEF ExactAt
<1>5. /\ lock' = t /\ step'[t] = "meta" /\ job'[t] = j
      /\ \A u \in Tasks \ {t} : step'[u] = "idle"
      /\ UNCHANGED <<slot, ci, count>>
      /\ \A g \in Hashes : hi'[g] = IF g = h THEN hi[g] \cup {s} ELSE hi[g]
  BY <1>0, <1>1, <1>4 DEF LinkHi, Go, TypeOK
<1>6. Live' = Live
  BY <1>5 DEF Live
<1>7. BucketsFit'
  <2>1. /\ Cardinality(hi[h] \cup {s}) <= BucketCap
    <3>1. IsFiniteSet(hi[h]) /\ Cardinality(hi[h]) \in Nat /\ BucketCap \in Nat
      BY <1>1, <1>2, LiveFinite, ConstantsAssumption
    <3>2. CASE s \in hi[h]
      <4>1. hi[h] \cup {s} = hi[h]
        BY <3>2
      <4> QED
        BY <1>4, <3>1, <4>1
    <3>3. CASE s \notin hi[h]
      <4>1. Cardinality(hi[h] \cup {s}) = Cardinality(hi[h]) + 1
        BY <3>1, <3>3, FS_AddElement
      <4> QED
        BY <1>4, <3>1, <4>1
    <3> QED
      BY <3>2, <3>3
  <2> QED
    BY <1>3, <1>5, <2>1 DEF ExactAt, BucketsFit
<1>8. ASSUME NEW r \in Live
      PROVE  ci'[slot'[r].key] = r /\ r \in hi'[HashOf[slot'[r].key]]
  <2>1. HashOf[slot[r].key] \in Hashes
    BY <1>1, ConstantsAssumption DEF Live, TypeOK, Contact
  <2>2. /\ ci[slot[r].key] = r
        /\ r # s => r \in hi[HashOf[slot[r].key]]
    BY <1>3 DEF ExactAt, CiOffAt
  <2> QED
    BY <1>2, <1>5, <2>1, <2>2
<1>9. ExactAt(t, "meta", j)'
  BY <1>3, <1>5, <1>6, <1>7, <1>8 DEF ExactAt, CiOffAt, HiOffAt
<1> QED
  BY <1>5, <1>9, ExactHolder

LEMMA WriteMetaExact ==
  ASSUME IInv, Exact, NEW t \in Tasks, WriteMeta(t)
  PROVE  Exact'
<1>1. /\ TypeOK /\ step[t] = "meta"
      /\ \A u \in Tasks \ {t} : step[u] = "idle"
  BY OneHolder DEF IInv, WriteMeta
<1>2. /\ \A u \in Tasks : step'[u] = "idle"
      /\ UNCHANGED <<slot, ci, hi>> /\ count' = job[t].n
  BY <1>1 DEF WriteMeta, Finish, Go, TypeOK
<1>3. ExactAt(t, "meta", job[t])
  BY <1>1, HolderExact
<1>4. Live' = Live
  BY <1>2 DEF Live
<1>5. BucketsFit' /\ count' = Cardinality(Live')
  BY <1>2, <1>3, <1>4 DEF ExactAt, BucketsFit
<1>6. \A r \in Live' : ci'[slot'[r].key] = r /\ r \in hi'[HashOf[slot'[r].key]]
  BY <1>2, <1>3, <1>4 DEF ExactAt, CiOffAt, HiOffAt
<1> QED
  BY <1>2, <1>5, <1>6, IdleExact

-----------------------------------------------------------------------------
LEMMA CallsKeepFlash ==
  ASSUME Calls
  PROVE  UNCHANGED <<slot, ci, hi, count, lock, step, job>>
BY DEF Calls, MeshAdvert, MeshPost, BleAdd, BleRemove, BleResetPath, UiForget, UiAdd,
   UiFavorite, PersisterClear, Call, flash

LEMMA NextCons == IInv /\ ConsInv /\ [Next]_vars => ConsInv'
<1> SUFFICES ASSUME IInv, ConsInv, [Next]_vars, NoFaults' PROVE Exact'
  BY DEF ConsInv
<1>0. TypeOK /\ crashes \in Nat /\ errors \in Nat
  BY ConstantsAssumption DEF IInv, TypeOK
<1>1. CASE Calls
  <2>1. UNCHANGED <<crashes, errors>>
    BY <1>1 DEF Calls, MeshAdvert, MeshPost, BleAdd, BleRemove, BleResetPath, UiForget,
       UiAdd, UiFavorite, PersisterClear, Call
  <2> QED
    BY <1>1, <2>1, CallsKeepFlash, SameExact DEF ConsInv, NoFaults
<1>2. ASSUME NEW t \in Tasks, Work(t) PROVE Exact'
  <2> USE DEF bounds
  <2>1. NoFaults /\ Exact
    <3>1. UNCHANGED bounds
      BY <1>2 DEF Work, PreCheck, ClearStep, Return, BeginSet, BeginAdd, BeginDel, Begin,
         UnlinkHi, UnlinkCi, WriteSlot, LinkCi, LinkHi, WriteMeta
    <3> QED
      BY <3>1 DEF ConsInv, NoFaults
  <2>2. CASE PreCheck(t) \/ ClearStep(t) \/ Return(t)
    BY <2>1, <2>2, SameExact DEF PreCheck, ClearStep, Return, flash
  <2>3. CASE BeginSet(t)
    BY <2>1, <2>3, BeginSetExact
  <2>4. CASE BeginAdd(t)
    BY <2>1, <2>4, BeginAddExact
  <2>5. CASE BeginDel(t)
    BY <2>1, <2>5, BeginDelExact
  <2>6. CASE UnlinkHi(t)
    BY <2>1, <2>6, UnlinkHiExact
  <2>7. CASE UnlinkCi(t)
    BY <2>1, <2>7, UnlinkCiExact
  <2>8. CASE WriteSlot(t)
    BY <2>1, <2>8, WriteSlotExact
  <2>9. CASE LinkCi(t)
    BY <2>1, <2>9, LinkCiExact
  <2>10. CASE LinkHi(t)
    BY <2>1, <2>10, LinkHiExact
  <2>11. CASE WriteMeta(t)
    BY <2>1, <2>11, WriteMetaExact
  <2> QED
    BY <1>2, <2>2, <2>3, <2>4, <2>5, <2>6, <2>7, <2>8, <2>9, <2>10, <2>11 DEF Work
<1>3. ASSUME NEW t \in Tasks, Fail(t) PROVE FALSE
  BY <1>0, <1>3 DEF Fail, NoFaults
<1>4. CASE Crash
  BY <1>0, <1>4 DEF Crash, NoFaults
<1>5. CASE UNCHANGED vars
  BY <1>5, SameExact DEF ConsInv, NoFaults, vars
<1> QED
  BY <1>1, <1>2, <1>3, <1>4, <1>5 DEF Next

LEMMA ExactIsConsistent == IInv /\ ConsInv => Consistent /\ RoomGuaranteed
<1> SUFFICES ASSUME IInv, ConsInv, NoFaults PROVE Consistent /\ RoomGuaranteed
  BY DEF Consistent, RoomGuaranteed
<1>1. TypeOK /\ Exact /\ errors = 0
  BY DEF IInv, ConsInv, NoFaults
<1>2. RoomGuaranteed
  BY <1>1 DEF Exact, AddFits, AddIsNew, RoomGuaranteed, RoomAt, Linking
<1>3. ASSUME lock = None PROVE Consistent
  <2>1. \A s \in Live : ci[slot[s].key] = s /\ s \in hi[HashOf[slot[s].key]]
    <3>1. \A t \in Tasks : step[t] = "idle"
      BY <1>3, FreeLock DEF IInv
    <3> QED
      BY <1>1, <3>1 DEF Exact, AllLinked, CiOff, HiOff, CiOffAt, HiOffAt
  <2>2. \A k \in Keys : ci[k] # None => Lookup(k) = ci[k]
    BY <1>1 DEF IInv, NoDangling, CiPointsAtKey, Lookup
  <2>3. \A h \in Hashes : \A s \in hi[h] : s \in Live /\ HashOf[slot[s].key] = h
    BY <1>1 DEF IInv, NoDangling, HiPointsAtHash, Live, TypeOK
  <2>4. count = Cardinality(Live)
    BY <1>1, <1>3 DEF Exact, Counted
  <2> QED
    BY <2>1, <2>2, <2>3, <2>4 DEF Consistent
<1> QED
  BY <1>2, <1>3 DEF Consistent

LEMMA ExactInvariance == Spec => [](IInv /\ ConsInv)
<1>1. Init => IInv /\ ConsInv
  BY InitIInv, InitCons
<1>2. IInv /\ ConsInv /\ [Next]_vars => (IInv /\ ConsInv)'
  BY NextIInv, NextCons
<1> QED
  BY <1>1, <1>2, PTL DEF Spec

(* Without faults, whenever no mutation is under way, the key index, the   *)
(* hash index and the count of meta describe exactly the live slots, and   *)
(* a key has one slot: what index_lookup, the receive path and the         *)
(* full-store check of log_advert take for granted.                        *)
THEOREM StoresAgree == Spec => []Consistent
<1>1. IInv /\ ConsInv => Consistent
  BY ExactIsConsistent
<1> QED
  BY <1>1, ExactInvariance, PTL

(* The room hash_index_has_room saw is still there when hash_index_add     *)
(* inserts the slot: the result add_or_update drops is never "full".       *)
THEOREM PreCheckKeepsRoom == Spec => []RoomGuaranteed
<1>1. IInv /\ ConsInv => RoomGuaranteed
  BY ExactIsConsistent
<1> QED
  BY <1>1, ExactInvariance, PTL


-----------------------------------------------------------------------------
(* The persister's queue while clear_all runs, and what its delete knows:  *)
(* no other slot holds the key it deletes.                                 *)
ClearQueue ==
  \/ req[Persister] = <<>>
  \/ Len(req[Persister]) = 1 /\ req[Persister][1].kind = "clear"
  \/ /\ Len(req[Persister]) = 2
     /\ req[Persister][1].kind = "del" /\ req[Persister][2].kind = "clear"
     /\ req[Persister][2].i \in 1 .. NSlots

ClearJob ==
  step[Persister] # "idle" =>
    /\ Len(req[Persister]) = 2
    /\ job[Persister].kind = "del"
    /\ job[Persister].old.key = req[Persister][1].c.key
    /\ step[Persister] \in Unlinking \cup {"slot", "meta"}
    /\ \A r \in Live : slot[r].key = job[Persister].old.key
                         => r = job[Persister].s /\ step[Persister] # "meta"

ClearInv == NoFaults => ClearQueue /\ ClearJob

(* A step of another task leaves the persister's mutation alone: whoever   *)
(* writes holds the lock.                                                  *)
LEMMA OthersKeepClear ==
  ASSUME IInv, ClearQueue, ClearJob, step'[Persister] = step[Persister],
         job'[Persister] = job[Persister], req'[Persister] = req[Persister],
         slot' = slot \/ step[Persister] = "idle"
  PROVE  ClearQueue' /\ ClearJob'
<1>1. ClearQueue'
  BY DEF ClearQueue
<1>2. CASE step[Persister] = "idle"
  BY <1>1, <1>2 DEF ClearJob
<1>3. CASE slot' = slot
  BY <1>1, <1>3 DEF ClearJob, Live
<1> QED
  BY <1>2, <1>3

LEMMA PersisterCalls ==
  ASSUME TypeOK, Calls
  PROVE  \/ req'[Persister] = req[Persister]
         \/ req'[Persister] = <<Req("clear", Free, FALSE, 0)>> /\ req[Persister] = <<>>
<1>1. ASSUME NEW t \in Tasks, NEW rs, t # Persister, Call(t, rs)
      PROVE  req'[Persister] = req[Persister]
  BY <1>1 DEF Call, TypeOK, Tasks
<1>2. Mesh # Persister /\ Ble # Persister /\ Ui # Persister
      /\ Mesh \in Tasks /\ Ble \in Tasks /\ Ui \in Tasks /\ Persister \in Tasks
  BY ConstantsAssumption DEF Tasks
<1>3. PersisterClear => /\ req'[Persister] = <<Req("clear", Free, FALSE, 0)>>
                        /\ req[Persister] = <<>>
  BY <1>2 DEF PersisterClear, Call, TypeOK
<1> QED
  BY <1>1, <1>2, <1>3 DEF Calls, MeshAdvert, MeshPost, BleAdd, BleRemove, BleResetPath,
     UiForget, UiAdd, UiFavorite

LEMMA ClearQueueStep ==
  ASSUME IInv, ClearQueue, ClearStep(Persister)
  PROVE  ClearQueue'
<1> DEFINE q == req[Persister]
           c == q[1]
           more == [c EXCEPT !.i = c.i + 1]
<1>1. Persister \in Tasks /\ TypeOK /\ q # <<>> /\ q \in Seq(Request) /\ c.kind = "clear"
      /\ req' = [req EXCEPT ![Persister] = req'[Persister]]
  BY DEF IInv, TypeOK, Tasks, ClearStep, Waiting, Next1, Replace
<1>2. Len(q) = 1 /\ Tail(q) = <<>> /\ c \in Request
  <2>1. Len(q) = 1
    BY <1>1 DEF ClearQueue
  <2>2. Tail(q) \in Seq(Request) /\ Len(Tail(q)) = 0 /\ c \in Request
    BY <1>1, <2>1, HeadTailProperties
  <2>3. \A w \in Seq(Request) : Len(w) = 0 => w = <<>>
    OBVIOUS
  <2> QED
    BY <2>1, <2>2, <2>3
<1>3. c.i \in 0 .. NSlots /\ NSlots \in Nat
  BY <1>2, ConstantsAssumption DEF Request
<1>4. \/ q' = <<>>
      \/ c.i # NSlots /\ q' = <<more>>
      \/ c.i # NSlots /\ q' = <<Req("del", slot[c.i], FALSE, 0), more>>
  <2>1. /\ <<>> \o Tail(q) = <<>> /\ <<more>> \o Tail(q) = <<more>>
        /\ <<Req("del", slot[c.i], FALSE, 0), more>> \o Tail(q)
             = <<Req("del", slot[c.i], FALSE, 0), more>>
    <3> DEFINE d == Req("del", slot[c.i], FALSE, 0)
    <3> HIDE DEF more, d
    <3>1. <<>> \o <<>> = <<>> /\ <<more>> \o <<>> = <<more>>
          /\ <<d, more>> \o <<>> = <<d, more>>
      OBVIOUS
    <3> QED
      BY <1>2, <3>1 DEF d
  <2>2. Head(q) = c
    BY <1>1, <1>2, HeadTailProperties
  <2> QED
    BY <1>1, <2>1, <2>2 DEF ClearStep, Replace, Next1, TypeOK
<1>5. c.i # NSlots => more.kind = "clear" /\ more.i \in 1 .. NSlots
  BY <1>1, <1>2, <1>3 DEF Request
<1> DEFINE d == Req("del", slot[c.i], FALSE, 0)
<1>6. d.kind = "del"
  BY DEF Req
<1> HIDE DEF more, d
<1>7. /\ Len(<<more>>) = 1 /\ <<more>>[1] = more
      /\ Len(<<d, more>>) = 2 /\ <<d, more>>[1] = d /\ <<d, more>>[2] = more
  OBVIOUS
<1> QED
  BY <1>4, <1>5, <1>6, <1>7 DEF ClearQueue, d
(* The delete of clear_all returns.                                        *)
LEMMA ClearDeleteReturns ==
  ASSUME IInv, ClearQueue, Len(req[Persister]) = 2,
         req' = [req EXCEPT ![Persister] = Tail(@)], step'[Persister] = "idle"
  PROVE  ClearQueue' /\ ClearJob'
<1>0. PICK q : q = req[Persister]
  OBVIOUS
<1>1. q \in Seq(Request) /\ req'[Persister] = Tail(q) /\ Len(q) = 2
  BY <1>0 DEF IInv, TypeOK, Tasks
<1>2. q # <<>> /\ Len(q) # 1
  <2>1. Len(q) = 2 /\ Len(q) # 1
    BY <1>1
  <2>2. Len(<<>>) = 0 /\ 0 # 2
    BY EmptySeq
  <2> QED
    BY <2>1, <2>2, Zenon
<1>3. q[2].kind = "clear"
  BY <1>0, <1>2, Zenon DEF ClearQueue
<1>4. Len(Tail(q)) = 1 /\ Tail(q)[1] = q[2]
  <2>1. /\ Len(Tail(q)) = Len(q) - 1
        /\ \A i \in 1 .. Len(Tail(q)) : Tail(q)[i] = q[i+1]
    BY <1>1, <1>2, HeadTailProperties
  <2> QED
    BY <1>1, <2>1
<1> QED
  BY <1>1, <1>3, <1>4 DEF ClearQueue, ClearJob

(* In the middle of clear_all the persister deletes and nothing else.      *)
LEMMA PersisterDeletes ==
  ASSUME IInv, ClearQueue, Waiting(Persister), Next1(Persister).kind # "clear"
  PROVE  /\ Len(req[Persister]) = 2 /\ Next1(Persister) = req[Persister][1]
         /\ Next1(Persister).kind = "del"
<1>1. req[Persister] \in Seq(Request) /\ req[Persister] # <<>>
      /\ Next1(Persister) = req[Persister][1]
  BY HeadTailProperties DEF IInv, TypeOK, Tasks, Waiting, Next1
<1> QED
  BY <1>1 DEF ClearQueue

LEMMA ClearDeleteBegins ==
  ASSUME IInv, Exact, ClearQueue, BeginDel(Persister)
  PROVE  ClearQueue' /\ ClearJob'
<1> DEFINE s == Found(Persister)
           k == Next1(Persister).c.key
<1>1. /\ TypeOK /\ lock = None /\ req[Persister] # <<>> /\ s # None /\ Persister \in Tasks
      /\ Len(req[Persister]) = 2 /\ Next1(Persister) = req[Persister][1]
      /\ Next1(Persister).kind = "del"
  BY PersisterDeletes DEF IInv, BeginDel, Locks, Waiting, Tasks
<1>2. k \in Keys
  BY <1>1, NextCallContact DEF Contact
<1>3. s \in Slots /\ slot[s] \in Contact /\ slot[s].key = k /\ slot[s] # Free
  BY <1>1, <1>2, LookupProperties, ConstantsAssumption DEF Found
<1>4. /\ req' = req /\ slot' = slot /\ step'[Persister] = "unlinkHi"
      /\ job'[Persister] = DelJob(s)
  BY <1>1, <1>3 DEF BeginDel, Begin, DelJob, TypeOK, flash
<1>5. job'[Persister].s = s /\ job'[Persister].kind = "del"
      /\ job'[Persister].old.key = req[Persister][1].c.key
  BY <1>1, <1>3, <1>4 DEF DelJob
<1>6. \A r \in Live : slot[r].key = k => r = s
  BY <1>1, LookupFinds DEF Found
<1>7. ClearQueue'
  BY <1>4 DEF ClearQueue
<1>8. ClearJob'
  BY <1>1, <1>4, <1>5, <1>6 DEF ClearJob, Unlinking, Live
<1> QED
  BY <1>7, <1>8

LEMMA ClearDeleteWrites ==
  ASSUME IInv, ClearQueue, ClearJob,
         UnlinkHi(Persister) \/ UnlinkCi(Persister) \/ WriteSlot(Persister)
  PROVE  ClearQueue' /\ ClearJob'
<1>1. /\ TypeOK /\ Persister \in Tasks /\ Len(req[Persister]) = 2
      /\ job[Persister].kind = "del" /\ job[Persister].s \in Slots
      /\ job[Persister].old.key = req[Persister][1].c.key
  BY DEF IInv, TypeOK, Job, Tasks, ClearJob, UnlinkHi, UnlinkCi, WriteSlot
<1>2. \A r \in Live : slot[r].key = job[Persister].old.key => r = job[Persister].s
  BY DEF ClearJob, UnlinkHi, UnlinkCi, WriteSlot
<1>3. UNCHANGED <<req, job>>
  BY <1>1 DEF UnlinkHi, UnlinkCi, WriteSlot
<1>4. ClearQueue'
  BY <1>3 DEF ClearQueue
<1>5. CASE UnlinkHi(Persister) \/ UnlinkCi(Persister)
  <2>1. slot' = slot /\ step'[Persister] \in {"unlinkCi", "slot"}
    BY <1>1, <1>5 DEF UnlinkHi, UnlinkCi, Go, TypeOK
  <2> QED
    BY <1>1, <1>2, <1>3, <1>4, <2>1 DEF ClearJob, Unlinking, Live
<1>6. CASE WriteSlot(Persister)
  <2>1. step[Persister] = "slot" /\ step'[Persister] = "meta"
        /\ slot' = [slot EXCEPT ![job[Persister].s] = job[Persister].new]
    BY <1>1, <1>6 DEF WriteSlot, Go, TypeOK
  <2>2. job[Persister].new = Free
    BY <1>1, <2>1 DEF IInv, NewInv
  <2>3. \A r \in Live' : r # job[Persister].s /\ r \in Live /\ slot'[r] = slot[r]
    BY <1>1, <2>1, <2>2 DEF Live, TypeOK
  <2> QED
    BY <1>1, <1>2, <1>3, <1>4, <2>1, <2>3 DEF ClearJob, Unlinking
<1> QED
  BY <1>5, <1>6

LEMMA NextClear == IInv /\ ConsInv /\ ClearInv /\ [Next]_vars => ClearInv'
<1> SUFFICES ASSUME IInv, ConsInv, ClearInv, [Next]_vars, NoFaults'
             PROVE  ClearQueue' /\ ClearJob'
  BY DEF ClearInv
<1>0. TypeOK /\ crashes \in Nat /\ errors \in Nat
  BY ConstantsAssumption DEF IInv, TypeOK
<1>1. ~Crash /\ \A t \in Tasks : ~Fail(t)
  BY <1>0 DEF Crash, Fail, NoFaults
<1>2. NoFaults
  BY <1>0, <1>1 DEF Next, vars, NoFaults, Calls, MeshAdvert, MeshPost, BleAdd, BleRemove,
     BleResetPath, UiForget, UiAdd, UiFavorite, PersisterClear, Call, Work, PreCheck,
     ClearStep, Return, BeginSet, BeginAdd, BeginDel, Begin, UnlinkHi, UnlinkCi,
     WriteSlot, LinkCi, LinkHi, WriteMeta, bounds
<1>3. Exact /\ ClearQueue /\ ClearJob
  BY <1>2 DEF ConsInv, ClearInv
<1>4. CASE Calls
  <2>1. slot' = slot /\ step' = step /\ job' = job
    BY <1>4, CallsKeepFlash
  <2>2. CASE req'[Persister] = req[Persister]
    BY <1>3, <2>1, <2>2, OthersKeepClear
  <2>3. CASE req'[Persister] = <<Req("clear", Free, FALSE, 0)>> /\ req[Persister] = <<>>
    <3>1. step[Persister] = "idle"
      BY <2>3 DEF IInv, LockInv, Tasks
    <3>2. Len(req'[Persister]) = 1 /\ req'[Persister][1].kind = "clear"
      BY <2>3 DEF Req
    <3> QED
      BY <2>1, <3>1, <3>2 DEF ClearQueue, ClearJob
  <2> QED
    BY <1>0, <1>4, <2>2, <2>3, PersisterCalls
<1>5. ASSUME NEW t \in Tasks, Work(t), t # Persister PROVE ClearQueue' /\ ClearJob'
  <2>1. step'[Persister] = step[Persister] /\ job'[Persister] = job[Persister]
        /\ req'[Persister] = req[Persister]
    BY <1>0, <1>5 DEF Work, PreCheck, ClearStep, Replace, Return, BeginSet, BeginAdd, BeginDel,
       Begin, UnlinkHi, UnlinkCi, WriteSlot, LinkCi, LinkHi, WriteMeta, Go, Finish, TypeOK, Tasks
  <2>2. slot' = slot \/ step[Persister] = "idle"
    <3>1. CASE WriteSlot(t)
      BY <1>5, <3>1, OneHolder DEF WriteSlot, IInv, Tasks
    <3> QED
      BY <1>5, <3>1 DEF Work, PreCheck, ClearStep, Return, BeginSet, BeginAdd, BeginDel,
         Begin, UnlinkHi, UnlinkCi, LinkCi, LinkHi, WriteMeta, flash
  <2> QED
    BY <1>3, <2>1, <2>2, OthersKeepClear
<1>6. ASSUME Work(Persister) PROVE ClearQueue' /\ ClearJob'
  <2>0. Persister \in Tasks
    BY DEF Tasks
  <2>1. CASE ClearStep(Persister)
    <3>1. ClearJob'
      BY <2>1 DEF ClearStep, Waiting, ClearJob
    <3> QED
      BY <1>3, <2>1, <3>1, ClearQueueStep
  <2>2. CASE Return(Persister)
    <3>1. Len(req[Persister]) = 2
      BY <1>3, <2>2, PersisterDeletes DEF Return, Locks
    <3> QED
      BY <1>3, <2>2, <3>1, ClearDeleteReturns DEF Return, Locks, Waiting
  <2>3. CASE PreCheck(Persister) \/ BeginSet(Persister) \/ BeginAdd(Persister)
    BY <1>3, <2>3, PersisterDeletes DEF PreCheck, BeginSet, BeginAdd, Locks
  <2>4. CASE BeginDel(Persister)
    BY <1>3, <2>4, ClearDeleteBegins
  <2>5. CASE UnlinkHi(Persister) \/ UnlinkCi(Persister) \/ WriteSlot(Persister)
    BY <1>3, <2>5, ClearDeleteWrites
  <2>6. CASE LinkCi(Persister) \/ LinkHi(Persister)
    BY <1>3, <2>6 DEF ClearJob, Unlinking, LinkCi, LinkHi
  <2>7. CASE WriteMeta(Persister)
    BY <1>0, <1>3, <2>0, <2>7, ClearDeleteReturns DEF WriteMeta, Finish, Go, ClearJob, TypeOK
  <2> QED
    BY <1>6, <2>1, <2>2, <2>3, <2>4, <2>5, <2>6, <2>7 DEF Work
<1>7. CASE UNCHANGED vars
  BY <1>3, <1>7, OthersKeepClear DEF vars
<1> QED
  BY <1>1, <1>4, <1>5, <1>6, <1>7 DEF Next
LEMMA InitClear == Init => ClearInv
BY DEF Init, ClearInv, ClearQueue, ClearJob, Tasks

(* One step of ClearAllClears.                                             *)
DeleteClears ==
  NoFaults' /\ Len(req[Persister]) = 2 /\ req'[Persister] = Tail(req[Persister])
    => LET i == req[Persister][2].i - 1
       IN slot'[i] # Free => slot'[i].key # Next1(Persister).c.key

LEMMA ReturnedDeleteClears ==
  IInv /\ ConsInv /\ ClearInv /\ [Next]_vars => DeleteClears
<1> SUFFICES ASSUME IInv, ConsInv, ClearInv, [Next]_vars, NoFaults',
                    Len(req[Persister]) = 2,
                    req'[Persister] = Tail(req[Persister]),
                    NEW i, i = req[Persister][2].i - 1, slot'[i] # Free
             PROVE  slot'[i].key # Next1(Persister).c.key
  BY DEF DeleteClears
<1>0. PICK q : q = req[Persister]
  OBVIOUS
<1>1. TypeOK /\ crashes \in Nat /\ errors \in Nat /\ Persister \in Tasks
      /\ q \in Seq(Request) /\ Len(q) = 2
  BY <1>0, ConstantsAssumption DEF IInv, TypeOK, Tasks
<1>2. ~Crash /\ \A t \in Tasks : ~Fail(t)
  BY <1>1 DEF Crash, Fail, NoFaults
<1>3. NoFaults
  BY <1>1, <1>2 DEF Next, vars, NoFaults, Calls, MeshAdvert, MeshPost, BleAdd, BleRemove,
     BleResetPath, UiForget, UiAdd, UiFavorite, PersisterClear, Call, Work, PreCheck,
     ClearStep, Return, BeginSet, BeginAdd, BeginDel, Begin, UnlinkHi, UnlinkCi,
     WriteSlot, LinkCi, LinkHi, WriteMeta, bounds
<1>4. Exact /\ ClearQueue /\ ClearJob
  BY <1>3 DEF ConsInv, ClearInv
<1>5. Len(q) # 1 /\ q # <<>>
  <2>1. Len(q) = 2 /\ Len(q) # 1
    BY <1>1
  <2>2. Len(<<>>) = 0 /\ 0 # 2
    BY EmptySeq
  <2> QED
    BY <2>1, <2>2, Zenon
<1>6. q[1].kind = "del" /\ q[2].i \in 1 .. NSlots
  BY <1>0, <1>4, <1>5, Zenon DEF ClearQueue
<1>7. Next1(Persister) = q[1] /\ Len(Tail(q)) = 1 /\ Tail(q) # q
  <2>1. Len(Tail(q)) = Len(q) - 1
    BY <1>1, <1>5, HeadTailProperties
  <2>2. Len(Tail(q)) = 1
    BY <1>1, <2>1
  <2>3. Head(q) = q[1]
    BY <1>1, <1>5
  <2> QED
    BY <1>0, <1>5, <2>2, <2>3, Zenon DEF Next1
<1>8. i \in Slots
  BY <1>0, <1>6, ConstantsAssumption DEF Slots
<1>9. CASE Return(Persister)
  <2>1. lock = None /\ slot' = slot /\ Found(Persister) = None
    BY <1>6, <1>7, <1>9 DEF Return, Locks, flash
  <2>2. \A r \in Live : Lookup(slot[r].key) = r /\ r # None
    BY <1>4, <2>1, LookupFinds, ConstantsAssumption DEF Live
  <2> QED
    BY <1>8, <2>1, <2>2 DEF Live, Found
<1>10. CASE WriteMeta(Persister)
  <2>1. slot' = slot
    BY <1>10 DEF WriteMeta
  <2>2. \A r \in Live : slot[r].key # q[1].c.key
    BY <1>0, <1>4, <1>10 DEF ClearJob, WriteMeta
  <2> QED
    BY <1>7, <1>8, <2>1, <2>2 DEF Live
<1>11. req'[Persister] # req[Persister]
  BY <1>0, <1>7
<1>12. ~Calls
  <2>1. req[Persister] # <<>>
    BY <1>0, <1>5
  <2> QED
    BY <1>1, <1>11, <2>1, PersisterCalls
<1>13. ASSUME NEW t \in Tasks, Work(t) PROVE Return(Persister) \/ WriteMeta(Persister)
  <2>1. t = Persister
    BY <1>1, <1>11, <1>13 DEF Work, PreCheck, ClearStep, Replace, Return, BeginSet, BeginAdd,
       BeginDel, Begin, UnlinkHi, UnlinkCi, WriteSlot, LinkCi, LinkHi, WriteMeta, Go, Finish,
       TypeOK
  <2>2. ~PreCheck(t) /\ ~ClearStep(t)
    BY <1>6, <1>7, <2>1 DEF PreCheck, ClearStep
  <2>3. ~(WriteSlot(t) /\ job[t].kind = "set")
    BY <1>4, <2>1 DEF ClearJob, WriteSlot
  <2>4. Return(t) \/ WriteMeta(t) \/ UNCHANGED req
    BY <1>13, <2>2, <2>3 DEF Work, BeginSet, BeginAdd, BeginDel, Begin, UnlinkHi, UnlinkCi,
       WriteSlot, LinkCi, LinkHi
  <2> QED
    BY <1>11, <2>1, <2>4
<1> QED
  BY <1>2, <1>9, <1>10, <1>11, <1>12, <1>13 DEF Next, vars

(* "Delete all contacts" (clear_all): without faults, when the delete made *)
(* for the contact seen in a slot returns, that slot does not hold that    *)
(* contact any more, whatever other tasks did between the read, which      *)
(* takes no lock, and the delete.                                          *)
THEOREM ClearAllSound == Spec => ClearAllClears
<1>1. Init => IInv /\ ConsInv /\ ClearInv
  BY InitIInv, InitCons, InitClear
<1>2. IInv /\ ConsInv /\ ClearInv /\ [Next]_vars => (IInv /\ ConsInv /\ ClearInv)'
  BY NextIInv, NextCons, NextClear
<1>3. IInv /\ ConsInv /\ ClearInv /\ [Next]_vars => [DeleteClears]_vars
  BY ReturnedDeleteClears
<1>4. Spec => [][DeleteClears]_vars
  BY <1>1, <1>2, <1>3, PTL DEF Spec
<1>5. ClearAllClears <=> [][DeleteClears]_vars
  BY DEF ClearAllClears, DeleteClears
<1> QED
  BY <1>4, <1>5
=============================================================================
