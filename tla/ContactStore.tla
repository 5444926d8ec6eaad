---------------------------- MODULE ContactStore ----------------------------
(***************************************************************************)
(* The flash-backed contact store (src/fw/mesh/contacts.rs): fixed slots,  *)
(* a key index ("ci"), a first-byte hash index ("hi") and a meta record    *)
(* with the number of live contacts, all kept as separate keys of the      *)
(* key-value store.  Several tasks mutate it; MUTATION_LOCK serialises the *)
(* mutations but every flash write inside one is a step of its own, at     *)
(* which power may be lost or the write may fail.                          *)
(*                                                                         *)
(* Abstractions: a public key and the 6-byte prefix that indexes it are    *)
(* the same model value; a contact keeps only the fields the properties    *)
(* tell apart; meta.head is written but never read by a mutation, so it is *)
(* left out.  Flash reads made under the lock are one step with the        *)
(* acquisition, because only the lock holder writes.                       *)
(***************************************************************************)
EXTENDS Integers, Sequences, FiniteSets

CONSTANTS
  Keys,       \* public keys of contacts
  Hashes,     \* values of pub_key[0]
  HashOf,     \* [Keys -> Hashes]
  Times,      \* timestamps: lastmod and sync_since; 0 is one of them
  Paths,      \* routing paths, NoPath among them
  NoPath,     \* OUT_PATH_UNKNOWN
  NSlots,     \* MAX_CONTACTS
  BucketCap,  \* MAX_SLOTS_PER_BUCKET
  Mesh, Ble, Ui, Persister,  \* the tasks that mutate the store
  None,       \* no slot, no lock owner
  Free,       \* a slot that was never written or is zeroed
  MaxCalls,   \* bound on calls made
  MaxCrashes, \* bound on power losses
  MaxErrors   \* bound on failed flash writes

Tasks == {Mesh, Ble, Ui, Persister}
Slots == 0 .. NSlots - 1

Contact ==
  [key : Keys, fav : BOOLEAN, lastmod : Times, sync : Times, path : Paths]

Kinds == {"auto", "add", "del", "fav", "path", "sync"}

(* A queued call.  Each kind reads the fields it needs of c; ow is the     *)
(* overwrite-oldest bit of an auto-add and i the slot clear_all is at.     *)
Request ==
  [kind : Kinds, c : Contact, ow : BOOLEAN, i : 0 .. NSlots]
    \cup [kind : {"clear"}, c : {Free}, ow : BOOLEAN, i : 0 .. NSlots]

Steps == {"idle", "unlinkHi", "unlinkCi", "slot", "linkCi", "linkHi", "meta"}

(* The writes that remain of a mutation: s the slot, new and old its next  *)
(* and its present contents, n the count meta will hold.                   *)
Job == [kind : {"add", "del", "set"}, s : Slots, new : Contact \cup {Free},
        old : Contact \cup {Free}, n : Nat]

NoJob == [kind |-> "set", s |-> 0, new |-> Free, old |-> Free, n |-> 0]

ASSUME ConstantsAssumption ==
  /\ NSlots \in Nat \ {0}
  /\ BucketCap \in Nat \ {0}
  /\ Times \subseteq Nat
  /\ 0 \in Times
  /\ NoPath \in Paths
  /\ HashOf \in [Keys -> Hashes]
  /\ Persister \notin {Mesh, Ble, Ui}
  /\ None \notin Slots \cup Tasks
  /\ Free \notin Contact
  /\ MaxCalls \in Nat
  /\ MaxCrashes \in Nat
  /\ MaxErrors \in Nat

VARIABLES
  slot, ci, hi, count,   \* flash
  lock,                  \* holder of MUTATION_LOCK
  req,                   \* calls each task still has to make
  step, job,             \* position of each task inside its mutation
  dirty, rebuild,        \* STORE_DIRTY, REBUILD_SIGNAL
  calls, crashes, errors \* calls made and faults so far

flash == <<slot, ci, hi, count>>
marks == <<dirty, rebuild>>
bounds == <<calls, crashes, errors>>
vars == <<slot, ci, hi, count, lock, req, step, job, dirty, rebuild,
          calls, crashes, errors>>

----------------------------------------------------------------------------
(* Queries *)

(* index_lookup: the ci entry, when the slot it names still holds the key. *)
Lookup(k) ==
  IF /\ ci[k] # None
     /\ slot[ci[k]] # Free
     /\ slot[ci[k]].key = k
  THEN ci[k]
  ELSE None

Live == {s \in Slots : slot[s] # Free}

(* The receive path: the hash bucket, then the slot, then the key.         *)
Receivable(k) ==
  \E s \in hi[HashOf[k]] : slot[s] # Free /\ slot[s].key = k

(* Destination of a new contact: the first free slot, else the oldest      *)
(* non-favourite, else the oldest favourite, the lowest slot on ties.      *)
Oldest(cand) ==
  CHOOSE s \in cand :
    \A r \in cand : \/ slot[s].lastmod < slot[r].lastmod
                    \/ slot[s].lastmod = slot[r].lastmod /\ s <= r

(* Mutated form of Target: favourites compete by age like the others. *)
FavBlindTarget ==
  LET free == Slots \ Live
  IN IF free # {} THEN CHOOSE s \in free : \A r \in free : s <= r
     ELSE Oldest(Live)


Target ==
  LET free   == Slots \ Live
      nonfav == {s \in Live : ~slot[s].fav}
  IN IF free # {} THEN CHOOSE s \in free : \A r \in free : s <= r
     ELSE IF nonfav # {} THEN Oldest(nonfav)
     ELSE Oldest(Live)

(* Mutated form of BucketFull: lets one slot too many pass. *)
LateBucketFull(c) ==
  /\ slot[Target] # Free => HashOf[slot[Target].key] # HashOf[c.key]
  /\ Cardinality(hi[HashOf[c.key]]) > BucketCap

(* hash_index_has_room, skipped when the incumbent is of the same bucket.  *)
BucketFull(c) ==
  /\ slot[Target] # Free => HashOf[slot[Target].key] # HashOf[c.key]
  /\ Cardinality(hi[HashOf[c.key]]) >= BucketCap

----------------------------------------------------------------------------
(* What a call will write, decided from the flash contents under the lock. *)

(* Mutated form of AddJob: an eviction counts as one contact more. *)
RecountingAddJob(c, s) ==
  [kind |-> "add", s |-> s, new |-> c, old |-> slot[s], n |-> count + 1]


AddJob(c, s) ==
  [kind |-> "add", s |-> s, new |-> c, old |-> slot[s],
   n |-> IF slot[s] = Free THEN count + 1 ELSE count]

(* Mutated form of DelJob: the subtraction does not saturate. *)
WrappingDelJob(s) ==
  [kind |-> "del", s |-> s, new |-> Free, old |-> slot[s], n |-> count - 1]

DelJob(s) ==
  [kind |-> "del", s |-> s, new |-> Free, old |-> slot[s],
   n |-> IF count = 0 THEN 0 ELSE count - 1]

SetJob(s, c) ==
  [kind |-> "set", s |-> s, new |-> c, old |-> slot[s], n |-> count]

(* The record an existing contact c becomes.  An add takes every field of  *)
(* the incoming contact and keeps only the favourite bit of the stored     *)
(* one; update_sync_since writes a later time only.                        *)
Merged(r, c) ==
  IF r.kind = "add" THEN [r.c EXCEPT !.fav = r.c.fav \/ c.fav]
  ELSE IF r.kind = "fav" THEN [c EXCEPT !.fav = r.c.fav]
  ELSE IF r.kind = "path" THEN [c EXCEPT !.path = r.c.path]
  ELSE IF r.kind = "sync" /\ r.c.sync > c.sync THEN [c EXCEPT !.sync = r.c.sync]
  ELSE c

----------------------------------------------------------------------------
Init ==
  /\ slot = [s \in Slots |-> Free]
  /\ ci = [k \in Keys |-> None]
  /\ hi = [h \in Hashes |-> {}]
  /\ count = 0
  /\ lock = None
  /\ req = [t \in Tasks |-> <<>>]
  /\ step = [t \in Tasks |-> "idle"]
  /\ job = [t \in Tasks |-> NoJob]
  /\ dirty = TRUE
  /\ rebuild = FALSE
  /\ calls = 0
  /\ crashes = 0
  /\ errors = 0

----------------------------------------------------------------------------
(* The calls.  A task makes its next call when the previous one returned.  *)

FromAdvert(k, ts) ==
  [key |-> k, fav |-> FALSE, lastmod |-> ts, sync |-> 0, path |-> NoPath]

Req(kind, c, ow, i) == [kind |-> kind, c |-> c, ow |-> ow, i |-> i]

OnPath(k, p) == Req("path", [FromAdvert(k, 0) EXCEPT !.path = p], FALSE, 0)

PathUpdate(k, p) == IF p = NoPath THEN <<>> ELSE <<OnPath(k, p)>>

Call(t, rs) ==
  /\ req[t] = <<>> /\ rs # <<>>
  /\ calls < MaxCalls
  /\ calls' = calls + 1
  /\ req' = [req EXCEPT ![t] = rs]
  /\ UNCHANGED <<flash, lock, step, job, marks, crashes, errors>>

(* log_advert: the auto-add, when the policy allows this type and hop      *)
(* count, then the path the advert came by.                                *)
MeshAdvert(k, ts, p, allowed, ow) ==
  LET adds == IF allowed THEN <<Req("auto", FromAdvert(k, ts), ow, 0)>>
              ELSE <<>>
  IN Call(Mesh, adds \o PathUpdate(k, p))

(* A decrypted post of a room: its path, then the sync_since cursor.       *)
MeshPost(k, ts, p) ==
  Call(Mesh, Append(PathUpdate(k, p),
                    Req("sync", [FromAdvert(k, 0) EXCEPT !.sync = ts], FALSE, 0)))

(* ADD_UPDATE_CONTACT carries every field but sync_since, which it zeroes. *)
BleAdd(k, fav, ts, p) ==
  Call(Ble, <<Req("add", [FromAdvert(k, ts) EXCEPT !.fav = fav, !.path = p],
                  FALSE, 0)>>)

BleRemove(k) == Call(Ble, <<Req("del", FromAdvert(k, 0), FALSE, 0)>>)

BleResetPath(k) == Call(Ble, <<OnPath(k, NoPath)>>)

UiAdd(k, ts) == Call(Ui, <<Req("add", FromAdvert(k, ts), FALSE, 0)>>)

UiForget(k) == Call(Ui, <<Req("del", FromAdvert(k, 0), FALSE, 0)>>)

UiFavorite(k, fav) ==
  Call(Ui, <<Req("fav", [FromAdvert(k, 0) EXCEPT !.fav = fav], FALSE, 0)>>)

PersisterClear == Call(Persister, <<Req("clear", Free, FALSE, 0)>>)

----------------------------------------------------------------------------
(* Between the calls: what runs without the lock. *)

Next1(t) == Head(req[t])

Waiting(t) == req[t] # <<>> /\ step[t] = "idle"

Replace(t, rs) == req' = [req EXCEPT ![t] = rs \o Tail(req[t])]

(* The existence and full-store checks of log_advert; add_or_update takes  *)
(* the lock only later.                                                    *)
PreCheck(t) ==
  /\ Waiting(t)
  /\ Next1(t).kind = "auto"
  /\ LET refuse == /\ Lookup(Next1(t).c.key) = None
                   /\ ~Next1(t).ow
                   /\ count >= NSlots
     IN Replace(t, IF refuse THEN <<>>
                   ELSE <<[Next1(t) EXCEPT !.kind = "add"]>>)
  /\ UNCHANGED <<flash, lock, step, job, marks, bounds>>

(* clear_all reads slot i without the lock and deletes the key it saw.     *)
ClearStep(t) ==
  /\ Waiting(t)
  /\ Next1(t).kind = "clear"
  /\ LET i == Next1(t).i IN
       Replace(t,
         IF i = NSlots THEN <<>>
         ELSE IF slot[i] = Free THEN <<[Next1(t) EXCEPT !.i = i + 1]>>
         ELSE <<Req("del", slot[i], FALSE, 0), [Next1(t) EXCEPT !.i = i + 1]>>)
  /\ UNCHANGED <<flash, lock, step, job, marks, bounds>>

----------------------------------------------------------------------------
(* Mutations: lock, read, and either return or start writing.              *)

(* Mutated form of Locks: a mutation does not wait for MUTATION_LOCK. *)
UnguardedLocks(t, kinds) ==
  /\ Waiting(t)
  /\ Next1(t).kind \in kinds


Locks(t, kinds) ==
  /\ Waiting(t)
  /\ lock = None
  /\ Next1(t).kind \in kinds

Found(t) == Lookup(Next1(t).c.key)

(* Key unknown, nothing changed, or no room in the hash bucket: the call   *)
(* returns without a write.                                                *)
Return(t) ==
  /\ Locks(t, {"add", "del", "fav", "path", "sync"})
  /\ LET r == Next1(t) IN
       \/ Found(t) = None /\ r.kind # "add"
       \/ Found(t) = None /\ r.kind = "add" /\ BucketFull(r.c)
       \/ Found(t) # None /\ r.kind # "del"
            /\ Merged(r, slot[Found(t)]) = slot[Found(t)]
  /\ req' = [req EXCEPT ![t] = Tail(@)]
  /\ UNCHANGED <<flash, lock, step, job, marks, bounds>>

(* Mutated form of Begin: the incumbent of an add is not unlinked. *)
OverwritingBegin(t, j) ==
  /\ lock' = t
  /\ job' = [job EXCEPT ![t] = j]
  /\ step' = [step EXCEPT ![t] = IF j.kind = "del" THEN "unlinkHi" ELSE "slot"]
  /\ UNCHANGED <<flash, req, marks, bounds>>


Begin(t, j) ==
  /\ lock' = t
  /\ job' = [job EXCEPT ![t] = j]
  /\ step' = [step EXCEPT ![t] = IF j.kind = "set" \/ j.old = Free THEN "slot"
                                 ELSE "unlinkHi"]
  /\ UNCHANGED <<flash, req, marks, bounds>>

BeginSet(t) ==
  /\ Locks(t, {"add", "fav", "path", "sync"})
  /\ Found(t) # None
  /\ LET s == Found(t) IN
       /\ Merged(Next1(t), slot[s]) # slot[s]
       /\ Begin(t, SetJob(s, Merged(Next1(t), slot[s])))

BeginAdd(t) ==
  /\ Locks(t, {"add"})
  /\ Found(t) = None
  /\ ~BucketFull(Next1(t).c)
  /\ Begin(t, AddJob(Next1(t).c, Target))

BeginDel(t) ==
  /\ Locks(t, {"del"})
  /\ Found(t) # None
  /\ Begin(t, DelJob(Found(t)))

----------------------------------------------------------------------------
(* The flash writes of the lock holder, in program order. *)

Go(t, st) == step' = [step EXCEPT ![t] = st]

(* The call returns and drops the guard. *)
Finish(t) ==
  /\ lock' = None
  /\ Go(t, "idle")
  /\ job' = [job EXCEPT ![t] = NoJob]
  /\ req' = [req EXCEPT ![t] = Tail(@)]

MarkDirty == dirty' = TRUE /\ rebuild' = TRUE

UnlinkHi(t) ==
  /\ step[t] = "unlinkHi"
  /\ hi' = [hi EXCEPT ![HashOf[job[t].old.key]] = @ \ {job[t].s}]
  /\ Go(t, "unlinkCi")
  /\ UNCHANGED <<slot, ci, count, lock, req, job, marks, bounds>>

UnlinkCi(t) ==
  /\ step[t] = "unlinkCi"
  /\ ci' = [ci EXCEPT ![job[t].old.key] = None]
  /\ Go(t, "slot")
  /\ UNCHANGED <<slot, hi, count, lock, req, job, marks, bounds>>

(* Mutated form of WriteSlot: a delete leaves the record in place. *)
KeepingWriteSlot(t) ==
  /\ step[t] = "slot"
  /\ slot' = [slot EXCEPT ![job[t].s] = IF job[t].kind = "del" THEN job[t].old
                                       ELSE job[t].new]
  /\ \/ /\ job[t].kind = "set"
        /\ MarkDirty
        /\ Finish(t)
     \/ /\ job[t].kind # "set"
        /\ Go(t, IF job[t].kind = "add" THEN "linkCi" ELSE "meta")
        /\ UNCHANGED <<lock, req, job, marks>>
  /\ UNCHANGED <<ci, hi, count, bounds>>


WriteSlot(t) ==
  /\ step[t] = "slot"
  /\ slot' = [slot EXCEPT ![job[t].s] = job[t].new]
  /\ \/ /\ job[t].kind = "set"
        /\ MarkDirty
        /\ Finish(t)
     \/ /\ job[t].kind # "set"
        /\ Go(t, IF job[t].kind = "add" THEN "linkCi" ELSE "meta")
        /\ UNCHANGED <<lock, req, job, marks>>
  /\ UNCHANGED <<ci, hi, count, bounds>>

LinkCi(t) ==
  /\ step[t] = "linkCi"
  /\ ci' = [ci EXCEPT ![job[t].new.key] = job[t].s]
  /\ Go(t, "linkHi")
  /\ UNCHANGED <<slot, hi, count, lock, req, job, marks, bounds>>

(* A full bucket is reported to nobody: the result is dropped. *)
LinkHi(t) ==
  /\ step[t] = "linkHi"
  /\ LET h == HashOf[job[t].new.key] IN
       hi' = [hi EXCEPT ![h] = IF Cardinality(@) < BucketCap
                               THEN @ \cup {job[t].s} ELSE @]
  /\ Go(t, "meta")
  /\ UNCHANGED <<slot, ci, count, lock, req, job, marks, bounds>>

WriteMeta(t) ==
  /\ step[t] = "meta"
  /\ count' = job[t].n
  /\ MarkDirty
  /\ Finish(t)
  /\ UNCHANGED <<slot, ci, hi, bounds>>

(* A write fails.  The results of the hi and ci removals and of the hi     *)
(* insertion are dropped and the mutation goes on; the other writes return *)
(* the error at once, before mark_dirty.                                   *)
Following == [unlinkHi |-> "unlinkCi", unlinkCi |-> "slot", linkHi |-> "meta"]
Ignored == DOMAIN Following

Fail(t) ==
  /\ step[t] # "idle"
  /\ errors < MaxErrors
  /\ errors' = errors + 1
  /\ IF step[t] \in Ignored
     THEN /\ Go(t, Following[step[t]])
          /\ UNCHANGED <<lock, req, job>>
     ELSE Finish(t)
  /\ UNCHANGED <<flash, marks, calls, crashes>>

(* Power loss and reboot: the flash stays, every RAM variable starts over. *)
Crash ==
  /\ crashes < MaxCrashes
  /\ crashes' = crashes + 1
  /\ lock' = None
  /\ req' = [t \in Tasks |-> <<>>]
  /\ step' = [t \in Tasks |-> "idle"]
  /\ job' = [t \in Tasks |-> NoJob]
  /\ dirty' = TRUE
  /\ rebuild' = FALSE
  /\ UNCHANGED <<flash, calls, errors>>

----------------------------------------------------------------------------
Calls ==
  \/ \E k \in Keys, ts \in Times, p \in Paths, allowed, ow \in BOOLEAN :
       MeshAdvert(k, ts, p, allowed, ow)
  \/ \E k \in Keys, ts \in Times, p \in Paths : MeshPost(k, ts, p)
  \/ \E k \in Keys, fav \in BOOLEAN, ts \in Times, p \in Paths :
       BleAdd(k, fav, ts, p)
  \/ \E k \in Keys : BleRemove(k) \/ BleResetPath(k) \/ UiForget(k)
  \/ \E k \in Keys, ts \in Times : UiAdd(k, ts)
  \/ \E k \in Keys, fav \in BOOLEAN : UiFavorite(k, fav)
  \/ PersisterClear

Work(t) ==
  \/ PreCheck(t) \/ ClearStep(t)
  \/ Return(t) \/ BeginSet(t) \/ BeginAdd(t) \/ BeginDel(t)
  \/ UnlinkHi(t) \/ UnlinkCi(t) \/ WriteSlot(t)
  \/ LinkCi(t) \/ LinkHi(t) \/ WriteMeta(t)

Next ==
  \/ Calls
  \/ \E t \in Tasks : Work(t) \/ Fail(t)
  \/ Crash

Spec == Init /\ [][Next]_vars

----------------------------------------------------------------------------
(* Properties *)

(* Every variable keeps its shape, the fault counters their bounds.        *)
TypeOK ==
  /\ slot \in [Slots -> Contact \cup {Free}]
  /\ ci \in [Keys -> Slots \cup {None}]
  /\ hi \in [Hashes -> SUBSET Slots]
  /\ count \in Nat
  /\ lock \in Tasks \cup {None}
  /\ req \in [Tasks -> Seq(Request)]
  /\ step \in [Tasks -> Steps]
  /\ job \in [Tasks -> Job]
  /\ dirty \in BOOLEAN /\ rebuild \in BOOLEAN
  /\ calls \in 0 .. MaxCalls
  /\ crashes \in 0 .. MaxCrashes
  /\ errors \in 0 .. MaxErrors

NoFaults == crashes = 0 /\ errors = 0

(* Without faults, whenever no mutation is under way the two indices and   *)
(* the count of meta describe exactly the live slots, and a key has one    *)
(* slot: what every lookup, the full-store check and the streamed count    *)
(* rely on.                                                                *)
Consistent ==
  lock = None /\ NoFaults =>
    /\ \A s \in Live : /\ ci[slot[s].key] = s
                       /\ s \in hi[HashOf[slot[s].key]]
    /\ \A k \in Keys : ci[k] # None => Lookup(k) = ci[k]
    /\ \A h \in Hashes : \A s \in hi[h] :
         s \in Live /\ HashOf[slot[s].key] = h
    /\ count = Cardinality(Live)

(* "a crash leaves no dangling lookups that would return this slot with    *)
(* mismatched data": at every instant, also between two flash writes and   *)
(* after power losses, an index entry points at a slot that holds its key. *)
CiPointsAtKey ==
  errors = 0 => \A k \in Keys :
                  ci[k] # None => slot[ci[k]] # Free /\ slot[ci[k]].key = k

HiPointsAtHash ==
  errors = 0 => \A h \in Hashes : \A s \in hi[h] :
                  slot[s] # Free /\ HashOf[slot[s].key] = h

NoDangling == CiPointsAtKey /\ HiPointsAtHash

(* The record a mutation overwrites is still the one it decided from.      *)
NoLostUpdate ==
  \A t \in Tasks : step[t] \in {"unlinkHi", "unlinkCi", "slot"} =>
                     slot[job[t].s] = job[t].old

(* "The pre-check guarantees there is room": without faults the hash       *)
(* bucket takes the slot when the add comes to insert it.                  *)
RoomAt(t) ==
  step[t] = "linkHi" => Cardinality(hi[HashOf[job[t].new.key]]) < BucketCap

RoomGuaranteed ==
  NoFaults => \A t \in Tasks : RoomAt(t)

(* A favourite gives way to another contact only when every slot holds a   *)
(* favourite.                                                              *)
Evicted(s) ==
  slot[s] # Free /\ slot'[s] # Free /\ slot'[s].key # slot[s].key

FavouritesLast ==
  [][\A s \in Slots : Evicted(s) /\ slot[s].fav =>
       \A r \in Slots : slot[r] # Free /\ slot[r].fav]_vars

(* "Delete all contacts": without faults, when the delete clear_all makes  *)
(* for the contact it saw in a slot returns, the slot does not hold that   *)
(* contact any more, whoever mutated the store in between.                 *)
ClearAllClears ==
  [][NoFaults' /\ Len(req[Persister]) = 2 /\ req'[Persister] = Tail(req[Persister])
       => LET i == req[Persister][2].i - 1
          IN slot'[i] # Free => slot'[i].key # Next1(Persister).c.key]_vars

----------------------------------------------------------------------------
(* "This keeps the cursor monotonic" (update_sync_since): the cursor of a  *)
(* contact that stays in its slot never goes back.                         *)
SyncMonotone ==
  [][\A s \in Slots :
       slot[s] # Free /\ slot'[s] # Free /\ slot[s].key = slot'[s].key
         => slot'[s].sync >= slot[s].sync]_vars
=============================================================================
