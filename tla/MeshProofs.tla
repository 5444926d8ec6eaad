----------------------------- MODULE MeshProofs -----------------------------
(***************************************************************************)
(* Theorems about the mesh protocol: the requests of the companion app     *)
(* (MeshRequests), the flooding of packets (MeshFlood), the channels       *)
(* (MeshChannels) and the clock taken from strangers (MeshClock), for      *)
(* every set of nodes, badges and channels, every capacity and bound.      *)
(***************************************************************************)
EXTENDS MeshRequests, MeshFlood, MeshChannels, MeshClock, FiniteSetTheorems,
        SequenceTheorems, WellFoundedInduction, TLAPS

(***************************************************************************)
(* Requests and their results.                                             *)
(***************************************************************************)

Request == [kind : RequestKinds, node : Nodes, tag : Nat, id : Nat]
Slot == [tag : Nat, at : Nat, set : BOOLEAN]

ReqTypeOK ==
    /\ txq \in Seq(Request)
    /\ pending \in [Tagged -> Slot]
    /\ asked \subseteq Request /\ IsFiniteSet(asked)
    /\ results \in [RequestKinds -> Seq(Request)]
    /\ told \in [RequestKinds -> Nat]
    /\ tick \in Nat /\ clockSet \in BOOLEAN /\ requests \in Nat

(* The queue is in the order of asking, and what waits in it was not on the *)
(* air yet: two requests are never mistaken for one when they are counted.  *)
AirBeforeQueue == \A q \in asked, i \in DOMAIN txq : q.id < txq[i].id
QueueInOrder == /\ \A i, j \in DOMAIN txq : i < j => txq[i].id < txq[j].id
                /\ \A i \in DOMAIN txq : txq[i].id <= requests
AskedSoFar == \A q \in asked : q.id <= requests

(* A kind's slot holds the right to one more result, and that right was     *)
(* paid for by a request on the air.                                        *)
AskedOf(k) == {q \in asked : q.kind = k}
Right(k) == IF pending[k].set THEN 1 ELSE 0
PaidFor(k) == told[k] + Len(results[k]) + Right(k) <= Cardinality(AskedOf(k))

ReqIInv == /\ ReqTypeOK /\ AirBeforeQueue /\ QueueInOrder /\ AskedSoFar
           /\ \A k \in Tagged : PaidFor(k)

LEMMA Kinds ==
    /\ Tagged = {"admin", "binary", "telem", "discovery"}
    /\ RequestKinds = {"admin", "binary", "telem", "discovery", "login", "trace"}
    /\ ResponseKinds \in Seq(Tagged) /\ Len(ResponseKinds) = 3
    /\ PathKinds \in Seq(Tagged) /\ Len(PathKinds) = 4
<1>1. /\ Len(PathKinds) = 4 /\ DOMAIN PathKinds = 1..4
      /\ PathKinds[1] = "admin" /\ PathKinds[2] = "binary" /\ PathKinds[3] = "telem"
      /\ PathKinds[4] = "discovery"
  BY DEF PathKinds, ResponseKinds
<1>2. 1..4 = {1, 2, 3, 4}
  OBVIOUS
<1>3. Tagged = {"admin", "binary", "telem", "discovery"}
  BY <1>1, <1>2 DEF Tagged
<1> QED
  BY <1>3 DEF RequestKinds, PathKinds, ResponseKinds

LEMMA FirstOfFour ==
    ASSUME NEW n \in {3, 4}, NEW T \in SUBSET (1..n), T # {}
    PROVE  \E i \in T : \A j \in T : i <= j
<1>1. T \subseteq {1, 2, 3, 4}
  OBVIOUS
<1>2. CASE 1 \in T
  BY <1>2
<1>3. CASE 1 \notin T /\ 2 \in T
  BY <1>1, <1>3
<1>4. CASE 1 \notin T /\ 2 \notin T /\ 3 \in T
  BY <1>1, <1>4
<1>5. CASE 1 \notin T /\ 2 \notin T /\ 3 \notin T
  <2>1. T = {4}
    BY <1>1, <1>5
  <2> QED
    BY <2>1
<1> QED
  BY <1>2, <1>3, <1>4, <1>5

LEMMA ReqInitInv == ReqInit => ReqIInv
<1> SUFFICES ASSUME ReqInit PROVE ReqIInv
  OBVIOUS
<1> USE DEF ReqInit
<1>1. ReqTypeOK
  BY FS_EmptySet, Kinds DEF ReqTypeOK, NoTag, Slot
<1>2. AirBeforeQueue /\ QueueInOrder /\ AskedSoFar
  BY DEF AirBeforeQueue, QueueInOrder, AskedSoFar
<1>3. ASSUME NEW k \in Tagged PROVE PaidFor(k)
  <2>1. AskedOf(k) = {} /\ Right(k) = 0
    BY DEF AskedOf, Right, NoTag
  <2>2. k \in RequestKinds
    BY DEF RequestKinds
  <2> QED
    BY <2>1, <2>2, FS_EmptySet DEF PaidFor
<1> QED
  BY <1>1, <1>2, <1>3 DEF ReqIInv

(* What is counted on the air does not change while asked does not.         *)
LEMMA CountUnmoved ==
    ASSUME ReqTypeOK, asked' = asked, NEW k \in Tagged, PaidFor(k),
           told'[k] + Len(results'[k]) + Right(k)' <= told[k] + Len(results[k]) + Right(k),
           told'[k] + Len(results'[k]) + Right(k)' \in Nat
    PROVE  PaidFor(k)'
<1>1. AskedOf(k)' = AskedOf(k)
  BY DEF AskedOf
<1>2. IsFiniteSet(AskedOf(k)) /\ Cardinality(AskedOf(k)) \in Nat
  BY FS_Subset, FS_CardinalityType DEF AskedOf, ReqTypeOK
<1>3. k \in RequestKinds /\ told[k] \in Nat /\ results[k] \in Seq(Request)
  BY DEF ReqTypeOK, RequestKinds
<1>4. told[k] + Len(results[k]) + Right(k) \in Nat
  BY <1>3, LenProperties DEF Right
<1> QED
  BY <1>1, <1>2, <1>4 DEF PaidFor

LEMMA AsksInv ==
    ASSUME ReqIInv, NEW k \in RequestKinds, NEW n \in Nodes, Asks(k, n)
    PROVE  ReqIInv'
<1> USE DEF ReqIInv, Asks
<1> DEFINE q == [kind |-> k, node |-> n, tag |-> Tag, id |-> requests + 1]
<1>1. q \in Request
  BY DEF Request, Tag, ReqTypeOK
<1>2. ReqTypeOK'
  BY <1>1 DEF ReqTypeOK
<1>3. AskedSoFar'
  BY DEF AskedSoFar, ReqTypeOK, Request
<1>6. \A t \in Tagged : PaidFor(t)'
  BY DEF PaidFor, AskedOf, Right
<1>4. CASE txq' = txq
  <2>1. AirBeforeQueue'
    BY <1>4 DEF AirBeforeQueue
  <2>2. requests \in Nat /\ requests' = requests + 1
    BY DEF ReqTypeOK
  <2>4. \A i \in DOMAIN txq : txq[i].id \in Nat
    <3>1. txq \in Seq(Request)
      BY DEF ReqTypeOK
    <3>2. \A i \in DOMAIN txq : txq[i] \in Request
      BY <3>1
    <3> QED
      BY <3>2 DEF Request
  <2>3. QueueInOrder'
    BY <1>4, <2>2, <2>4 DEF QueueInOrder
  <2> QED
    BY <1>2, <1>3, <1>6, <2>1, <2>3
<1>5. CASE txq' = Append(txq, q)
  <2>1. /\ DOMAIN txq' = 1..Len(txq) + 1 /\ txq'[Len(txq) + 1] = q
        /\ \A i \in 1..Len(txq) : txq'[i] = txq[i] /\ txq[i] \in Request
        /\ DOMAIN txq = 1..Len(txq) /\ Len(txq) \in Nat
    BY <1>1, <1>5 DEF ReqTypeOK
  <2>2. AirBeforeQueue'
    <3> SUFFICES ASSUME NEW p \in asked, NEW i \in DOMAIN txq' PROVE p.id < txq'[i].id
      BY DEF AirBeforeQueue
    <3>1. CASE i = Len(txq) + 1
      BY <2>1, <3>1 DEF AskedSoFar, ReqTypeOK, Request
    <3>2. CASE i # Len(txq) + 1
      BY <2>1, <3>2 DEF AirBeforeQueue
    <3> QED
      BY <3>1, <3>2
  <2>3. \A i \in DOMAIN txq : txq[i].id \in Nat /\ txq[i].id <= requests
    BY <2>1 DEF QueueInOrder, Request
  <2>4. requests \in Nat /\ q.id = requests + 1 /\ requests' = requests + 1
    BY DEF ReqTypeOK
  <2>5. \A i, j \in DOMAIN txq' : i < j => txq'[i].id < txq'[j].id
    <3> SUFFICES ASSUME NEW i \in DOMAIN txq', NEW j \in DOMAIN txq', i < j
                 PROVE  txq'[i].id < txq'[j].id
      OBVIOUS
    <3>1. i \in DOMAIN txq /\ txq'[i] = txq[i]
      BY <2>1
    <3>2. CASE j = Len(txq) + 1
      BY <2>1, <2>3, <2>4, <3>1, <3>2
    <3>3. CASE j # Len(txq) + 1
      BY <2>1, <3>1, <3>3 DEF QueueInOrder
    <3> QED
      BY <3>2, <3>3
  <2>6. \A i \in DOMAIN txq' : txq'[i].id <= requests'
    BY <2>1, <2>3, <2>4
  <2> QED
    BY <1>2, <1>3, <1>6, <2>2, <2>5, <2>6 DEF QueueInOrder
<1> QED
  BY <1>4, <1>5

(* A request leaves the queue: it may be on the air then.                   *)
LEMMA TakesInv ==
    ASSUME ReqIInv, NEW ok \in BOOLEAN, NEW kinds, Takes(kinds),
           OnAir(ok) \/ asked' = asked
    PROVE  /\ Head(txq) \in Request /\ Head(txq) \notin asked
           /\ txq' \in Seq(Request) /\ asked' \subseteq Request /\ IsFiniteSet(asked')
           /\ AirBeforeQueue' /\ QueueInOrder' /\ AskedSoFar'
           /\ \A k \in Tagged : Cardinality(AskedOf(k))' =
                 IF Head(txq) \in asked' /\ Head(txq).kind = k
                 THEN Cardinality(AskedOf(k)) + 1 ELSE Cardinality(AskedOf(k))
<1> USE DEF ReqIInv, Takes, OnAir
<1> DEFINE q == Head(txq)
<1>1. /\ txq # << >> /\ Len(txq) \in Nat /\ Len(txq) >= 1 /\ q = txq[1] /\ q \in Request
      /\ DOMAIN txq = 1..Len(txq) /\ 1 \in DOMAIN txq
  BY DEF ReqTypeOK
<1>2. /\ txq' \in Seq(Request) /\ DOMAIN txq' = 1..Len(txq) - 1
      /\ \A i \in DOMAIN txq' : txq'[i] = txq[i + 1] /\ txq[i] \in Request /\ txq[i + 1] \in Request
  BY <1>1 DEF ReqTypeOK
<1>3. q \notin asked
  <2>1. q.id \in Nat /\ (q \in asked => q.id < q.id)
    BY <1>1 DEF AirBeforeQueue, Request
  <2> QED
    BY <2>1
<1>4. asked' = asked \/ asked' = asked \union {q}
  OBVIOUS
<1>5. asked' \subseteq Request /\ IsFiniteSet(asked')
  <2>1. asked \subseteq Request /\ IsFiniteSet(asked) /\ q \in Request
    BY <1>1 DEF ReqTypeOK
  <2>2. IsFiniteSet(asked \union {q})
    BY <2>1, FS_AddElement
  <2> QED
    BY <1>4, <2>1, <2>2
<1>6. AirBeforeQueue'
  <2> SUFFICES ASSUME NEW p \in asked', NEW i \in DOMAIN txq' PROVE p.id < txq'[i].id
    BY DEF AirBeforeQueue
  <2>1. i + 1 \in DOMAIN txq /\ 1 < i + 1 /\ txq'[i] = txq[i + 1] /\ 1 \in DOMAIN txq
    BY <1>1, <1>2
  <2>2. CASE p = q
    BY <2>1, <2>2, <1>1 DEF QueueInOrder
  <2>3. CASE p \in asked
    BY <2>1, <2>3 DEF AirBeforeQueue
  <2> QED
    BY <2>2, <2>3, <1>4
<1>7. QueueInOrder'
  <2>1. requests' = requests
    OBVIOUS
  <2>2. \A i \in DOMAIN txq' : i + 1 \in DOMAIN txq
    BY <1>1, <1>2
  <2> QED
    BY <1>1, <1>2, <2>1, <2>2 DEF QueueInOrder
<1>8. AskedSoFar'
  BY <1>1, <1>4 DEF AskedSoFar, QueueInOrder
<1>9. ASSUME NEW k \in Tagged
      PROVE  Cardinality(AskedOf(k))' =
                IF q \in asked' /\ q.kind = k
                THEN Cardinality(AskedOf(k)) + 1 ELSE Cardinality(AskedOf(k))
  <2>1. IsFiniteSet(AskedOf(k)) /\ q \notin AskedOf(k)
    BY <1>3, FS_Subset DEF AskedOf, ReqTypeOK
  <2>2. CASE q \in asked' /\ q.kind = k
    <3>1. AskedOf(k)' = AskedOf(k) \union {q}
      BY <1>4, <2>2 DEF AskedOf
    <3> QED
      BY <2>1, <2>2, <3>1, FS_AddElement
  <2>3. CASE ~(q \in asked' /\ q.kind = k)
    <3>1. AskedOf(k)' = AskedOf(k)
      BY <1>4, <2>3 DEF AskedOf
    <3> QED
      BY <2>3, <3>1
  <2> QED
    BY <2>2, <2>3
<1> QED
  BY <1>1, <1>2, <1>3, <1>5, <1>6, <1>7, <1>8, <1>9

LEMMA Counts ==
    ASSUME ReqTypeOK, NEW k \in Tagged
    PROVE  /\ k \in RequestKinds /\ told[k] \in Nat /\ Len(results[k]) \in Nat
           /\ Cardinality(AskedOf(k)) \in Nat
<1>1. IsFiniteSet(AskedOf(k))
  BY FS_Subset DEF AskedOf, ReqTypeOK
<1> QED
  BY <1>1, FS_CardinalityType, LenProperties DEF ReqTypeOK, RequestKinds

LEMMA SendsInv ==
    ASSUME ReqIInv, NEW ok \in BOOLEAN,
           \/ send_trace(ok) \/ send_login(ok) \/ \E k \in Tagged : SendTagged(k, ok)
    PROVE  ReqIInv'
<1>1. CASE send_trace(ok) \/ send_login(ok)
  <2>1. \E kinds : \E up \in BOOLEAN : Takes(kinds) /\ OnAir(up) /\ UNCHANGED pending
    <3>1. (ok /\ clockSet) \in BOOLEAN
      OBVIOUS
    <3>2. CASE send_trace(ok)
      <4>1. Takes({"trace"}) /\ OnAir(ok) /\ UNCHANGED pending
        BY <3>2 DEF send_trace
      <4> QED
        BY <4>1
    <3>3. CASE send_login(ok)
      <4>1. Takes({"login"}) /\ OnAir(ok /\ clockSet) /\ UNCHANGED pending
        BY <3>3 DEF send_login
      <4> QED
        BY <3>1, <4>1
    <3> QED
      BY <1>1, <3>2, <3>3
  <2>7. PICK kinds : \E up \in BOOLEAN : Takes(kinds) /\ OnAir(up) /\ UNCHANGED pending
    BY <2>1
  <2>8. PICK up \in BOOLEAN : Takes(kinds) /\ OnAir(up) /\ UNCHANGED pending
    BY <2>7
  <2>2. /\ txq' \in Seq(Request) /\ asked' \subseteq Request /\ IsFiniteSet(asked')
        /\ AirBeforeQueue' /\ QueueInOrder' /\ AskedSoFar'
    BY <2>8, TakesInv
  <2>3. ReqTypeOK'
    BY <2>8, <2>2 DEF ReqIInv, ReqTypeOK, Takes
  <2>4. ASSUME NEW k \in Tagged PROVE PaidFor(k)'
    <3>1. Cardinality(AskedOf(k))' \in {Cardinality(AskedOf(k)), Cardinality(AskedOf(k)) + 1}
      BY <2>8, TakesInv
    <3>2. Right(k)' = Right(k) /\ told' = told /\ results' = results
      BY <2>8 DEF Right, Takes
    <3> QED
      BY <3>1, <3>2, Counts DEF PaidFor, Right, ReqIInv
  <2> QED
    BY <2>2, <2>3, <2>4 DEF ReqIInv
<1>2. ASSUME NEW t \in Tagged, SendTagged(t, ok) PROVE ReqIInv'
  <2>1. Takes({t}) /\ OnAir(ok) /\ Head(txq).kind = t
    BY <1>2 DEF SendTagged, Takes
  <2>2. /\ txq' \in Seq(Request) /\ asked' \subseteq Request /\ IsFiniteSet(asked')
        /\ AirBeforeQueue' /\ QueueInOrder' /\ AskedSoFar' /\ Head(txq) \in Request
    BY <2>1, TakesInv
  <2>3. /\ pending' \in [Tagged -> Slot]
        /\ pending'[t].set = ok /\ \A k \in Tagged \ {t} : pending'[k] = pending[k]
    BY <1>2, <2>2 DEF SendTagged, ReqIInv, ReqTypeOK, Slot, NoTag, Request
  <2>4. ReqTypeOK'
    BY <2>1, <2>2, <2>3 DEF ReqIInv, ReqTypeOK, Takes
  <2>5. ASSUME NEW k \in Tagged PROVE PaidFor(k)'
    <3>1. Cardinality(AskedOf(k))' = IF Head(txq) \in asked' /\ Head(txq).kind = k
                 THEN Cardinality(AskedOf(k)) + 1 ELSE Cardinality(AskedOf(k))
      BY <2>1, TakesInv
    <3>2. told' = told /\ results' = results
      BY <2>1 DEF Takes
    <3>3. CASE k = t /\ ok
      <4>1. Right(k)' = 1 /\ Right(k) \in {0, 1}
        BY <2>3, <3>3 DEF Right
      <4>2. Cardinality(AskedOf(k))' = Cardinality(AskedOf(k)) + 1
        BY <2>1, <3>1, <3>3 DEF OnAir
      <4> QED
        BY <3>2, <4>1, <4>2, Counts DEF PaidFor, ReqIInv
    <3>4. CASE k # t \/ ~ok
      <4>1. Right(k)' <= Right(k) /\ Right(k) \in {0, 1} /\ Right(k)' \in {0, 1}
        BY <2>3, <3>4 DEF Right
      <4> QED
        BY <3>1, <3>2, <4>1, Counts DEF PaidFor, ReqIInv
    <3> QED
      BY <3>3, <3>4
  <2> QED
    BY <2>2, <2>4, <2>5 DEF ReqIInv
<1> QED
  BY <1>1, <1>2

(* A result channel takes at most one answer more.                          *)
LEMMA ReportedOne ==
    ASSUME ReqTypeOK, NEW k \in RequestKinds, NEW q \in Request
    PROVE  /\ Reported(k, q) \in [RequestKinds -> Seq(Request)]
           /\ \A r \in RequestKinds \ {k} : Reported(k, q)[r] = results[r]
           /\ Len(Reported(k, q)[k]) <= Len(results[k]) + 1
BY AppendProperties, LenProperties DEF ReqTypeOK, Reported

(* An answer is reported to a kind only by giving up that kind's right.     *)
LEMMA DispatchInv ==
    ASSUME ReqTypeOK, NEW kinds \in Seq(Tagged), Len(kinds) \in {3, 4},
           NEW q \in Request, NEW login \in [RequestKinds -> Seq(Request)],
           \A k \in Tagged : login[k] = results[k],
           Dispatch(kinds, q, login)
    PROVE  /\ pending' \in [Tagged -> Slot] /\ results' \in [RequestKinds -> Seq(Request)]
           /\ \A k \in Tagged :
                 Len(results'[k]) + Right(k)' <= Len(results[k]) + Right(k)
<1> DEFINE match == {i \in DOMAIN kinds : Matches(kinds[i], EchoedTag(q))}
           timely == {i \in match : InTime(kinds[i])}
           first == IF timely = {} THEN Len(kinds)
                    ELSE CHOOSE i \in timely : \A j \in timely : i <= j
<1>1. /\ pending' = [k \in Tagged |->
                        IF \E i \in match : i <= first /\ kinds[i] = k
                        THEN TakeIfMatch(k)[k] ELSE pending[k]]
      /\ results' = IF timely = {} THEN login ELSE Reported(kinds[first], q)
  BY Zenon DEF Dispatch
<1>2. \A k \in Tagged : TakeIfMatch(k)[k] = NoTag
  BY DEF TakeIfMatch, Taken, ReqTypeOK
<1>3. /\ pending' \in [Tagged -> Slot]
      /\ \A k \in Tagged : pending'[k] = pending[k] \/ pending'[k] = NoTag
  <2>1. NoTag \in Slot
    BY DEF NoTag, Slot
  <2> QED
    BY <1>1, <1>2, <2>1 DEF ReqTypeOK
<1>4. \A k \in Tagged : Right(k)' <= Right(k) /\ Right(k)' \in {0, 1} /\ Right(k) \in {0, 1}
  BY <1>3 DEF Right, NoTag
<1>5. \A k \in Tagged : k \in RequestKinds /\ Len(results[k]) \in Nat
  BY Counts
<1>6. CASE timely = {}
  <2>1. results' = login
    BY <1>1, <1>6
  <2> QED
    BY <1>3, <1>4, <1>5, <2>1
<1>7. CASE timely # {}
  <2>1. timely \subseteq 1..Len(kinds)
    OBVIOUS
  <2>2. \E i \in timely : \A j \in timely : i <= j
    BY <1>7, <2>1, FirstOfFour
  <2>3. PICK f \in timely : f = first
    BY <1>7, <2>2
  <2> HIDE DEF first
  <2> DEFINE k1 == kinds[f]
  <2>4. f \in match /\ f \in DOMAIN kinds /\ k1 \in Tagged /\ f <= f
    BY <2>3
  <2>6. Right(k1) = 1
    BY <2>4 DEF Matches, Right
  <2>7. pending'[k1] = NoTag
    BY <1>1, <1>2, <2>3, <2>4
  <2>9. /\ results' \in [RequestKinds -> Seq(Request)]
        /\ \A r \in RequestKinds \ {k1} : results'[r] = results[r]
        /\ Len(results'[k1]) <= Len(results[k1]) + 1
    <3>1. results' = Reported(k1, q)
      BY <1>1, <1>7, <2>3
    <3>2. k1 \in RequestKinds
      BY <1>5, <2>4
    <3> HIDE DEF k1
    <3> QED
      BY <3>1, <3>2, ReportedOne
  <2> HIDE DEF k1
  <2>8. Right(k1)' = 0
    BY <2>7 DEF Right, NoTag
  <2>10. ASSUME NEW k \in Tagged
         PROVE  Len(results'[k]) + Right(k)' <= Len(results[k]) + Right(k)
    <3>1. CASE k = k1
      <4>1. Len(results'[k]) \in Nat /\ Len(results[k]) \in Nat
        BY <1>5, <2>9, LenProperties
      <4> QED
        BY <2>6, <2>8, <2>9, <3>1, <4>1
    <3>2. CASE k # k1
      <4>1. results'[k] = results[k]
        BY <1>5, <2>9, <3>2
      <4>2. Len(results[k]) \in Nat
        BY <1>5, LenProperties
      <4>3. Right(k)' <= Right(k) /\ Right(k)' \in {0, 1} /\ Right(k) \in {0, 1}
        BY <1>4
      <4> QED
        BY <4>1, <4>2, <4>3
    <3> QED
      BY <3>1, <3>2
  <2> QED
    BY <1>3, <2>9, <2>10
<1> QED
  BY <1>6, <1>7

(* An answer, whichever message carries it.                                 *)
LEMMA AnswerInv ==
    ASSUME ReqIInv, NEW q \in asked,
           \/ handle_response_recv(q) \/ handle_trace_recv(q)
           \/ \E long \in BOOLEAN : handle_path_recv(q, long)
    PROVE  ReqIInv'
<1>1. q \in Request
  BY DEF ReqIInv, ReqTypeOK
<1>2. UNCHANGED <<txq, asked, told, clockSet, tick, requests>>
  BY DEF handle_response_recv, handle_trace_recv, handle_path_recv, Answers
<1>3. AirBeforeQueue' /\ QueueInOrder' /\ AskedSoFar'
  BY <1>2 DEF ReqIInv, AirBeforeQueue, QueueInOrder, AskedSoFar
<1>4. "login" \in RequestKinds /\ "trace" \in RequestKinds
      /\ \A k \in Tagged : k # "login" /\ k # "trace" /\ k \in RequestKinds
  BY Kinds
<1> DEFINE Even == /\ pending' \in [Tagged -> Slot] /\ results' \in [RequestKinds -> Seq(Request)]
                   /\ \A k \in Tagged :
                         Len(results'[k]) + Right(k)' <= Len(results[k]) + Right(k)
<1>5. Even
  <2>1. CASE handle_trace_recv(q)
    <3>1. results' = Reported("trace", q) /\ pending' = pending
      BY <2>1 DEF handle_trace_recv
    <3>2. \A k \in Tagged : results'[k] = results[k] /\ Right(k)' = Right(k)
      BY <1>1, <1>4, <3>1, ReportedOne DEF ReqIInv, Right
    <3>3. \A k \in Tagged : Len(results[k]) + Right(k) \in Nat
      <4>1. \A k \in Tagged : Right(k) \in {0, 1} /\ Len(results[k]) \in Nat
        BY Counts DEF ReqIInv, Right
      <4> QED
        BY <4>1
    <3> QED
      BY <1>1, <1>4, <3>1, <3>2, <3>3, ReportedOne DEF ReqIInv, ReqTypeOK
  <2>2. ASSUME NEW kinds \in {ResponseKinds, PathKinds}, NEW login \in {LoginAnswer(q), results},
               Dispatch(kinds, q, login)
        PROVE  Even
    <3>1. kinds \in Seq(Tagged) /\ Len(kinds) \in {3, 4}
      BY Kinds
    <3>2. login \in [RequestKinds -> Seq(Request)] /\ \A k \in Tagged : login[k] = results[k]
      BY <1>1, <1>4, ReportedOne DEF ReqIInv, ReqTypeOK, LoginAnswer
    <3> QED
      BY <1>1, <2>2, <3>1, <3>2, DispatchInv DEF ReqIInv
  <2>3. CASE handle_response_recv(q)
    <3>1. Dispatch(ResponseKinds, q, LoginAnswer(q))
      BY <2>3 DEF handle_response_recv
    <3> QED
      BY <2>2, <3>1
  <2>4. ASSUME NEW long \in BOOLEAN, handle_path_recv(q, long) PROVE Even
    <3>1. Dispatch(PathKinds, q, PathLogin(q, long))
      BY <2>4 DEF handle_path_recv
    <3>2. PathLogin(q, long) \in {LoginAnswer(q), results}
      BY DEF PathLogin
    <3> QED
      BY <2>2, <3>1, <3>2
  <2> QED
    BY <2>1, <2>3, <2>4
<1>6. ReqTypeOK'
  BY <1>2, <1>5 DEF ReqIInv, ReqTypeOK
<1>7. ASSUME NEW k \in Tagged PROVE PaidFor(k)'
  <2>1. Len(results'[k]) \in Nat /\ Right(k)' \in {0, 1} /\ Right(k) \in {0, 1}
    BY <1>4, <1>5, LenProperties DEF Right
  <2>2. told'[k] + Len(results'[k]) + Right(k)' <= told[k] + Len(results[k]) + Right(k)
    BY <1>2, <1>5, <2>1, Counts DEF ReqIInv
  <2> QED
    BY <1>2, <2>1, <2>2, Counts, CountUnmoved DEF ReqIInv
<1> QED
  BY <1>3, <1>6, <1>7 DEF ReqIInv

LEMMA BleTakesInv ==
    ASSUME ReqIInv, NEW r \in RequestKinds, BleTakes(r)
    PROVE  ReqIInv'
<1>1. UNCHANGED <<txq, pending, asked, tick, clockSet, requests>> /\ results[r] # << >>
  BY DEF BleTakes
<1>2. /\ results' = [results EXCEPT ![r] = Tail(results[r])]
      /\ told' = [told EXCEPT ![r] = told[r] + 1]
  BY DEF BleTakes
<1>3. results[r] \in Seq(Request) /\ Tail(results[r]) \in Seq(Request)
      /\ Len(Tail(results[r])) = Len(results[r]) - 1 /\ Len(results[r]) \in Nat
  BY <1>1, HeadTailProperties, LenProperties DEF ReqIInv, ReqTypeOK
<1>4. ReqTypeOK'
  BY <1>1, <1>2, <1>3 DEF ReqIInv, ReqTypeOK
<1>5. AirBeforeQueue' /\ QueueInOrder' /\ AskedSoFar'
  BY <1>1 DEF ReqIInv, AirBeforeQueue, QueueInOrder, AskedSoFar
<1>6. ASSUME NEW k \in Tagged PROVE PaidFor(k)'
  <2>1. told'[k] + Len(results'[k]) = told[k] + Len(results[k])
    <3>1. told[k] \in Nat /\ told[r] \in Nat /\ k \in RequestKinds
      BY Counts DEF ReqIInv, ReqTypeOK
    <3>2. CASE k = r
      BY <1>2, <1>3, <3>1, <3>2 DEF ReqIInv, ReqTypeOK
    <3>3. CASE k # r
      BY <1>2, <3>1, <3>3 DEF ReqIInv, ReqTypeOK
    <3> QED
      BY <3>2, <3>3
  <2>2. Right(k)' = Right(k) /\ AskedOf(k)' = AskedOf(k)
    BY <1>1 DEF Right, AskedOf
  <2> QED
    BY <2>1, <2>2 DEF PaidFor, ReqIInv
<1> QED
  BY <1>4, <1>5, <1>6 DEF ReqIInv

LEMMA ReqNextInv == ReqIInv /\ [ReqNext]_reqVars => ReqIInv'
<1> SUFFICES ASSUME ReqIInv, [ReqNext]_reqVars PROVE ReqIInv'
  OBVIOUS
<1>1. ASSUME NEW n \in Nodes,
             \/ SendTracePath(n) \/ SendBinaryReq(n) \/ SendStatusRequest(n)
             \/ SendLogin(n) \/ SendTelemetryRequest(n) \/ SendPathDiscoveryReq(n)
      PROVE  ReqIInv'
  BY <1>1, AsksInv, Kinds DEF SendTracePath, SendBinaryReq, SendStatusRequest, SendLogin,
     SendTelemetryRequest, SendPathDiscoveryReq
<1>2. ASSUME NEW ok \in BOOLEAN,
             \/ send_trace(ok) \/ send_login(ok) \/ send_telem_request(ok)
             \/ send_admin_status_request(ok) \/ send_binary_request(ok)
             \/ send_discovery_request(ok)
      PROVE  ReqIInv'
  BY <1>2, SendsInv, Kinds DEF send_telem_request, send_admin_status_request,
     send_binary_request, send_discovery_request
<1>3. ASSUME NEW q \in asked,
             \/ handle_response_recv(q) \/ handle_trace_recv(q)
             \/ \E long \in BOOLEAN : handle_path_recv(q, long)
      PROVE  ReqIInv'
  BY <1>3, AnswerInv
<1>4. ASSUME NEW k \in RequestKinds, BleTakes(k) PROVE ReqIInv'
  BY <1>4, BleTakesInv
<1>5. CASE ReqTick \/ UNCHANGED reqVars \/ \E n \in Nodes : TxtHint(n)
  <2>1. UNCHANGED <<txq, pending, asked, results, told, clockSet, requests>> /\ tick' \in Nat
    BY <1>5 DEF ReqTick, TxtHint, reqVars, ReqIInv, ReqTypeOK
  <2> QED
    BY <2>1 DEF ReqIInv, ReqTypeOK, AirBeforeQueue, QueueInOrder, AskedSoFar, PaidFor, Right, AskedOf
<1> QED
  BY <1>1, <1>2, <1>3, <1>4, <1>5 DEF ReqNext

(* However often an answer is repeated, a kind of request that waits with a *)
(* tag yields at most as many results as requests went on the air, for      *)
(* every number of nodes and every capacity (mod.rs:544-608).               *)
THEOREM OneResult == ReqSpec => []OneResultPerRequest
<1>1. ReqIInv => OneResultPerRequest
  <2> SUFFICES ASSUME ReqIInv, NEW k \in Tagged
               PROVE  told[k] + Len(results[k]) <= Cardinality({q \in asked : q.kind = k})
    BY DEF OneResultPerRequest
  <2>1. PaidFor(k) /\ Right(k) \in {0, 1}
    BY DEF ReqIInv, Right
  <2> QED
    BY <2>1, Counts DEF PaidFor, AskedOf, ReqIInv
<1> QED
  BY <1>1, ReqInitInv, ReqNextInv, PTL DEF ReqSpec

-----------------------------------------------------------------------------
(***************************************************************************)
(* Floods and their repeaters.                                             *)
(***************************************************************************)

Regions == {NoRegion} \union {RegionOf[b] : b \in Badges}
FloodKinds == {"advert", "control", "req", "txt", "answer"}
Pkt == [kind : FloodKinds, from : Badges, to : Badges, mask : Nat, flood : BOOLEAN, region : Regions]
CopyT == [pkt : Nat, path : Seq(Badges)]

FloodTypeOK ==
    /\ pkts \in Seq(Pkt) /\ Len(pkts) <= MaxPackets
    /\ relayq \in [Badges -> Seq(CopyT)]
    /\ relaySeen \in [Badges -> Seq(Nat)]
    /\ sentBy \in [Badges \X (1..MaxPackets) -> Nat]

(* A copy that waits at a badge is of a packet there is, may pass there,    *)
(* and was made there: by its sender, or by a repeater for a flood.         *)
InPlace(b, c) ==
    /\ c.pkt \in 1..Len(pkts)
    /\ pkts[c.pkt].region # NoRegion => RegionOf[b] \in {NoRegion, pkts[c.pkt].region}
    /\ IF c.path = << >> THEN pkts[c.pkt].from = b
       ELSE b \in Repeaters /\ pkts[c.pkt].flood
AllInPlace == \A b \in Badges : \A i \in 1..Len(relayq[b]) : InPlace(b, relayq[b][i])
SeenExists == \A b \in Badges : ToSet(relaySeen[b]) \subseteq 1..Len(pkts)
UnsentYet == \A b \in Badges, p \in 1..MaxPackets : p > Len(pkts) => sentBy[<<b, p>>] = 0

(* While RELAY_SEEN has not wrapped: it holds nothing twice; a badge queues *)
(* a packet once as its sender and once as a relay of it; the path of a     *)
(* copy follows the links, through badges that noted the packet; and every  *)
(* transmission used up one of the two.                                     *)
NotWrapped == Len(pkts) <= RelayCap
SeenOnce(b) == Len(relaySeen[b]) = Cardinality(ToSet(relaySeen[b]))
Own(c) == c.path = << >>
OneEach(q) == \A i, j \in 1..Len(q) :
                  q[i].pkt = q[j].pkt /\ (Own(q[i]) <=> Own(q[j])) => i = j
Walked(b, c) ==
    /\ Len(c.path) <= MaxHops /\ IsInjective(c.path)
    /\ \A i \in 1..Len(c.path) : c.pkt \in ToSet(relaySeen[c.path[i]])
    /\ c.path # << >> => /\ c.path[Len(c.path)] = b
                         /\ {pkts[c.pkt].from, c.path[1]} \in Links
    /\ \A k \in 1..Len(c.path) - 1 : {c.path[k], c.path[k + 1]} \in Links
Queues(q, p, own) == \E i \in 1..Len(q) : q[i].pkt = p /\ (Own(q[i]) <=> own)
OwnRight(b, p) == IF pkts[p].from = b /\ ~Queues(relayq[b], p, TRUE) THEN 1 ELSE 0
RelayRight(b, p) ==
    IF pkts[p].flood /\ b \in Repeaters /\ p \in ToSet(relaySeen[b])
       /\ ~Queues(relayq[b], p, FALSE) THEN 1 ELSE 0
Unwrapped ==
    NotWrapped =>
        \A b \in Badges :
            /\ SeenOnce(b) /\ OneEach(relayq[b])
            /\ \A i \in 1..Len(relayq[b]) : Walked(b, relayq[b][i])
            /\ \A p \in 1..Len(pkts) : sentBy[<<b, p>>] <= OwnRight(b, p) + RelayRight(b, p)

FloodIInv == FloodTypeOK /\ AllInPlace /\ SeenExists /\ UnsentYet /\ Unwrapped

(* Queues of copies: what is in them once one is added or taken.            *)
LEMMA QueueAppend ==
    ASSUME NEW q \in Seq(CopyT), NEW c \in CopyT
    PROVE  LET q1 == Append(q, c) IN
           /\ q1 \in Seq(CopyT) /\ Len(q1) = Len(q) + 1
           /\ \A i \in 1..Len(q1) : q1[i] = IF i = Len(q) + 1 THEN c ELSE q[i]
           /\ \A p, own : Queues(q1, p, own)
                          <=> Queues(q, p, own) \/ (c.pkt = p /\ (Own(c) <=> own))
           /\ OneEach(q) /\ ~Queues(q, c.pkt, Own(c)) => OneEach(q1)
<1> DEFINE q1 == Append(q, c)
<1>1. /\ q1 \in Seq(CopyT) /\ Len(q1) = Len(q) + 1 /\ Len(q) \in Nat
      /\ \A i \in 1..Len(q1) : q1[i] = IF i = Len(q) + 1 THEN c ELSE q[i]
  BY AppendProperties, LenProperties
<1> HIDE DEF q1
<1>2. \A i \in 1..Len(q) : i \in 1..Len(q1) /\ q1[i] = q[i]
  BY <1>1
<1>3. Len(q) + 1 \in 1..Len(q1) /\ q1[Len(q) + 1] = c
  BY <1>1
<1>4. \A i \in 1..Len(q1) : i \in 1..Len(q) \/ i = Len(q) + 1
  BY <1>1
<1>5. ASSUME NEW p, NEW own
      PROVE  Queues(q1, p, own) <=> Queues(q, p, own) \/ (c.pkt = p /\ (Own(c) <=> own))
  BY <1>2, <1>3, <1>4 DEF Queues
<1>6. ASSUME OneEach(q), ~Queues(q, c.pkt, Own(c)) PROVE OneEach(q1)
  <2> SUFFICES ASSUME NEW i \in 1..Len(q1), NEW j \in 1..Len(q1),
                      q1[i].pkt = q1[j].pkt, Own(q1[i]) <=> Own(q1[j])
               PROVE  i = j
    BY DEF OneEach
  <2>1. CASE i \in 1..Len(q) /\ j \in 1..Len(q)
    BY <1>2, <1>6, <2>1 DEF OneEach
  <2>2. CASE i = Len(q) + 1 /\ j \in 1..Len(q)
    BY <1>2, <1>3, <1>6, <2>2 DEF Queues
  <2>3. CASE j = Len(q) + 1 /\ i \in 1..Len(q)
    BY <1>2, <1>3, <1>6, <2>3 DEF Queues
  <2> QED
    BY <1>4, <2>1, <2>2, <2>3
<1> QED
  BY <1>1, <1>5, <1>6 DEF q1

LEMMA QueueCons ==
    ASSUME NEW q \in Seq(CopyT), NEW c \in CopyT
    PROVE  LET q1 == <<c>> \o q IN
           /\ q1 \in Seq(CopyT) /\ Len(q1) = Len(q) + 1
           /\ \A i \in 1..Len(q1) : q1[i] = IF i = 1 THEN c ELSE q[i - 1]
           /\ \A p, own : Queues(q1, p, own)
                          <=> Queues(q, p, own) \/ (c.pkt = p /\ (Own(c) <=> own))
           /\ OneEach(q) /\ ~Queues(q, c.pkt, Own(c)) => OneEach(q1)
<1> DEFINE q1 == <<c>> \o q
<1>1. /\ q1 \in Seq(CopyT) /\ Len(q1) = Len(q) + 1 /\ Len(q) \in Nat
      /\ \A i \in 1..Len(q1) : q1[i] = IF i = 1 THEN c ELSE q[i - 1]
  <2>1. <<c>> \in Seq(CopyT) /\ Len(<<c>>) = 1 /\ <<c>>[1] = c /\ Len(q) \in Nat
    OBVIOUS
  <2>2. /\ q1 \in Seq(CopyT) /\ Len(q1) = 1 + Len(q)
        /\ \A i \in 1..1 + Len(q) : q1[i] = IF i <= 1 THEN <<c>>[i] ELSE q[i - 1]
    BY <2>1, ConcatProperties, Zenon
  <2> QED
    BY <2>1, <2>2
<1> HIDE DEF q1
<1>2. \A i \in 1..Len(q) : i + 1 \in 1..Len(q1) /\ q1[i + 1] = q[i]
  BY <1>1
<1>3. 1 \in 1..Len(q1) /\ q1[1] = c
  BY <1>1
<1>4. \A i \in 1..Len(q1) : i = 1 \/ (i - 1 \in 1..Len(q) /\ q1[i] = q[i - 1])
  BY <1>1
<1>5. ASSUME NEW p, NEW own
      PROVE  Queues(q1, p, own) <=> Queues(q, p, own) \/ (c.pkt = p /\ (Own(c) <=> own))
  BY <1>2, <1>3, <1>4 DEF Queues
<1>6. ASSUME OneEach(q), ~Queues(q, c.pkt, Own(c)) PROVE OneEach(q1)
  <2> SUFFICES ASSUME NEW i \in 1..Len(q1), NEW j \in 1..Len(q1),
                      q1[i].pkt = q1[j].pkt, Own(q1[i]) <=> Own(q1[j])
               PROVE  i = j
    BY DEF OneEach
  <2>1. CASE i # 1 /\ j # 1
    <3>1. i - 1 = j - 1
      BY <1>4, <1>6, <2>1 DEF OneEach
    <3> QED
      BY <3>1
  <2>2. CASE i = 1 /\ j # 1
    BY <1>3, <1>4, <1>6, <2>2 DEF Queues
  <2>3. CASE j = 1 /\ i # 1
    BY <1>3, <1>4, <1>6, <2>3 DEF Queues
  <2> QED
    BY <2>1, <2>2, <2>3
<1> QED
  BY <1>1, <1>5, <1>6 DEF q1

LEMMA QueueTail ==
    ASSUME NEW q \in Seq(CopyT), q # << >>
    PROVE  /\ Head(q) \in CopyT /\ 1 \in 1..Len(q) /\ Head(q) = q[1]
           /\ Tail(q) \in Seq(CopyT)
           /\ \A i \in 1..Len(Tail(q)) : i + 1 \in 1..Len(q) /\ Tail(q)[i] = q[i + 1]
           /\ \A p, own : Queues(Tail(q), p, own) => Queues(q, p, own)
           /\ \A p, own : Queues(q, p, own) =>
                 Queues(Tail(q), p, own) \/ (Head(q).pkt = p /\ (Own(Head(q)) <=> own))
           /\ OneEach(q) => OneEach(Tail(q)) /\ ~Queues(Tail(q), Head(q).pkt, Own(Head(q)))
<1> DEFINE t == Tail(q)
<1>1. /\ Head(q) \in CopyT /\ 1 \in 1..Len(q) /\ Head(q) = q[1] /\ t \in Seq(CopyT)
      /\ Len(t) = Len(q) - 1 /\ Len(q) \in Nat
      /\ \A i \in 1..Len(t) : t[i] = q[i + 1]
  OBVIOUS
<1>2. \A i \in 1..Len(t) : i + 1 \in 1..Len(q) /\ t[i] = q[i + 1]
  BY <1>1
<1> HIDE DEF t
<1>3. \A i \in 1..Len(q) : i = 1 \/ (i - 1 \in 1..Len(t) /\ t[i - 1] = q[i])
  BY <1>1
<1>4. ASSUME NEW p, NEW own, Queues(t, p, own) PROVE Queues(q, p, own)
  BY <1>2, <1>4 DEF Queues
<1>5. ASSUME NEW p, NEW own, Queues(q, p, own)
      PROVE  Queues(t, p, own) \/ (Head(q).pkt = p /\ (Own(Head(q)) <=> own))
  BY <1>1, <1>3, <1>5 DEF Queues
<1>6. ASSUME OneEach(q) PROVE OneEach(t) /\ ~Queues(t, Head(q).pkt, Own(Head(q)))
  <2>1. OneEach(t)
    <3> SUFFICES ASSUME NEW i \in 1..Len(t), NEW j \in 1..Len(t),
                        t[i].pkt = t[j].pkt, Own(t[i]) <=> Own(t[j])
                 PROVE  i = j
      BY DEF OneEach
    <3>1. i + 1 = j + 1
      BY <1>2, <1>6 DEF OneEach
    <3> QED
      BY <3>1
  <2>2. ASSUME NEW i \in 1..Len(t), t[i].pkt = Head(q).pkt, Own(t[i]) <=> Own(Head(q))
        PROVE  FALSE
    <3>1. i + 1 = 1
      BY <1>1, <1>2, <1>6, <2>2 DEF OneEach
    <3> QED
      BY <3>1
  <2> QED
    BY <2>1, <2>2 DEF Queues
<1> QED
  BY <1>1, <1>2, <1>4, <1>5, <1>6 DEF t

(* The ring of what was relayed. *)
LEMMA RememberedType ==
    ASSUME NEW s \in Seq(Nat), NEW p \in Nat
    PROVE  /\ Remembered(s, p) \in Seq(Nat)
           /\ ToSet(Remembered(s, p)) \subseteq ToSet(s) \union {p}
<1> DEFINE s1 == IF Len(s) = RelayCap THEN Tail(s) ELSE s
<1>1. s1 \in Seq(Nat) /\ \A i \in 1..Len(s1) : \E j \in 1..Len(s) : s1[i] = s[j]
  <2>1. CASE Len(s) = RelayCap
    <3>1. s # << >>
      BY <2>1, FloodConstants
    <3>2. s1 = Tail(s) /\ Tail(s) \in Seq(Nat) /\ Len(Tail(s)) = Len(s) - 1 /\ Len(s) \in Nat
          /\ \A i \in 1..Len(Tail(s)) : Tail(s)[i] = s[i + 1]
      BY <2>1, <3>1
    <3> DEFINE n == Len(Tail(s))
    <3>4. n = Len(s) - 1 /\ Len(s) \in Nat
      BY <3>2
    <3> HIDE DEF n
    <3>3. \A i \in 1..n : i + 1 \in 1..Len(s)
      BY <3>4
    <3> USE DEF n
    <3> QED
      BY <3>2, <3>3
  <2>2. CASE Len(s) # RelayCap
    BY <2>2
  <2> QED
    BY <2>1, <2>2
<1> HIDE DEF s1
<1>2. /\ Append(s1, p) \in Seq(Nat) /\ DOMAIN Append(s1, p) = 1..Len(s1) + 1
      /\ \A i \in 1..Len(s1) + 1 : Append(s1, p)[i] = IF i = Len(s1) + 1 THEN p ELSE s1[i]
      /\ Len(s1) \in Nat
  BY <1>1
<1>3. DOMAIN s = 1..Len(s)
  OBVIOUS
<1>4. ToSet(Append(s1, p)) \subseteq ToSet(s) \union {p}
  <2> SUFFICES ASSUME NEW i \in 1..Len(s1) + 1 PROVE Append(s1, p)[i] \in ToSet(s) \union {p}
    BY <1>2 DEF ToSet
  <2> QED
    <3>1. CASE i = Len(s1) + 1
      BY <1>2, <3>1
    <3>2. CASE i # Len(s1) + 1
      <4>1. i \in 1..Len(s1)
        BY <1>2, <3>2
      <4>2. PICK j \in 1..Len(s) : s1[i] = s[j]
        BY <1>1, <4>1
      <4> QED
        BY <1>2, <1>3, <3>2, <4>2 DEF ToSet
    <3> QED
      BY <3>1, <3>2
<1>5. Remembered(s, p) = Append(s1, p)
  BY DEF Remembered, s1
<1> QED
  BY <1>2, <1>4, <1>5

LEMMA RememberedFits ==
    ASSUME NEW s \in Seq(Nat), NEW n \in Nat, n <= RelayCap, NEW p \in 1..n,
           p \notin ToSet(s), ToSet(s) \subseteq 1..n, Len(s) = Cardinality(ToSet(s))
    PROVE  /\ ToSet(Remembered(s, p)) = ToSet(s) \union {p}
           /\ Len(Remembered(s, p)) = Cardinality(ToSet(Remembered(s, p)))
<1>1. IsFiniteSet(1..n) /\ Cardinality(1..n) = n
  BY FS_Interval
<1>2. IsFiniteSet(ToSet(s)) /\ ToSet(s) \union {p} \in SUBSET (1..n)
  BY <1>1, FS_Subset
<1>3. Cardinality(ToSet(s) \union {p}) = Cardinality(ToSet(s)) + 1
  BY <1>2, FS_AddElement
<1>4. Cardinality(ToSet(s) \union {p}) <= n
  BY <1>1, <1>2, FS_Subset
<1>5. Len(s) # RelayCap
  BY <1>3, <1>4, FloodConstants
<1>6. Remembered(s, p) = Append(s, p)
  BY <1>5 DEF Remembered
<1>7. /\ DOMAIN s = 1..Len(s) /\ DOMAIN Append(s, p) = 1..Len(s) + 1 /\ Len(s) \in Nat
      /\ \A i \in 1..Len(s) + 1 : Append(s, p)[i] = IF i = Len(s) + 1 THEN p ELSE s[i]
      /\ Len(Append(s, p)) = Len(s) + 1
  OBVIOUS
<1>8. ToSet(Append(s, p)) = ToSet(s) \union {p}
  <2>1. \A i \in DOMAIN s : i \in DOMAIN Append(s, p) /\ Append(s, p)[i] = s[i]
    BY <1>7
  <2>2. Len(s) + 1 \in DOMAIN Append(s, p) /\ Append(s, p)[Len(s) + 1] = p
    BY <1>7
  <2>3. \A i \in DOMAIN Append(s, p) : i \in DOMAIN s \/ i = Len(s) + 1
    BY <1>7
  <2> QED
    BY <2>1, <2>2, <2>3 DEF ToSet
<1> QED
  BY <1>3, <1>6, <1>7, <1>8

(* At most one badge answers a packet, with one packet.                     *)
LEMMA SetToSeqOne ==
    /\ SetToSeq({}) = << >>
    /\ \A x : SetToSeq({x}) = <<x>>
<1>1. SetToSeq({}) = << >>
  <2>1. Cardinality({}) = 0
    BY FS_EmptySet
  <2>2. \A f \in [1..0 -> {}] : f = << >>
    OBVIOUS
  <2>3. << >> \in [1..0 -> {}] /\ IsInjective(<< >>)
    BY DEF IsInjective
  <2>4. SetToSeq({}) = CHOOSE f \in [1..0 -> {}] : IsInjective(f)
    BY <2>1 DEF SetToSeq
  <2> QED
    BY <2>2, <2>3, <2>4
<1>2. ASSUME NEW x PROVE SetToSeq({x}) = <<x>>
  <2>1. Cardinality({x}) = 1
    BY FS_Singleton
  <2>2. \A f \in [1..1 -> {x}] : f = <<x>>
    <3> SUFFICES ASSUME NEW f \in [1..1 -> {x}] PROVE f = <<x>>
      OBVIOUS
    <3>1. f = [i \in 1..1 |-> x]
      OBVIOUS
    <3>2. <<x>> = [i \in 1..1 |-> x]
      OBVIOUS
    <3> QED
      BY <3>1, <3>2
  <2>3. <<x>> \in [1..1 -> {x}] /\ IsInjective(<<x>>)
    BY DEF IsInjective
  <2>4. SetToSeq({x}) = CHOOSE f \in [1..1 -> {x}] : IsInjective(f)
    BY <2>1 DEF SetToSeq
  <2> QED
    BY <2>2, <2>3, <2>4
<1> QED
  BY <1>1, <1>2

(* What every step does.  A new packet waits at the badge that made it;     *)
(* a badge that transmits loses the head of its queue; a badge that hears   *)
(* it may note the packet and queue a relay, and an answer ahead of it.     *)
NewCopy == Copy(Len(pkts) + 1, << >>)
NewPacket(r, pk) ==
    /\ pk \in Pkt /\ pk.from = r /\ (pk.region # NoRegion => RegionOf[r] = pk.region)
    /\ Len(pkts) < MaxPackets /\ pkts' = Append(pkts, pk)
Made(r, q1) ==
    relayq'[r] = q1 \/ (/\ relayq'[r] \in {Append(q1, NewCopy), <<NewCopy>> \o q1}
                        /\ \E pk \in Pkt : NewPacket(r, pk))
RelayOf(r, c) == Copy(c.pkt, Append(c.path, r))
Notes(r, c) == ToRelay(r, c) /\ relaySeen'[r] = Remembered(relaySeen[r], c.pkt)
MayRelay(r, c, q1) ==
    \/ q1 = relayq[r] /\ (relaySeen'[r] = relaySeen[r] \/ Notes(r, c))
    \/ /\ q1 = Append(relayq[r], RelayOf(r, c)) /\ Notes(r, c)
       /\ InRegion(r, pkts[c.pkt]) /\ Len(c.path) < MaxHops
Hears(b, r, c) == \E q1 \in Seq(CopyT) : MayRelay(r, c, q1) /\ Made(r, q1)
PktsGrow == pkts' = pkts \/ \E r \in Badges, pk \in Pkt : NewPacket(r, pk)
Transmits(b, c) ==
    /\ relayq[b] # << >> /\ c = Head(relayq[b]) /\ relayq'[b] = Tail(relayq[b])
    /\ relaySeen'[b] = relaySeen[b]
    /\ sentBy' = [sentBy EXCEPT ![<<b, c.pkt>>] = @ + 1]
Rests(r) == relayq'[r] = relayq[r] /\ relaySeen'[r] = relaySeen[r]

LEMMA RouteRegion ==
    ASSUME NEW b \in Badges, NEW c \in Badges
    PROVE  /\ \A route \in {Direct, FloodRoute(b), RouteTo(b, c)} :
                 /\ route.flood \in BOOLEAN /\ route.region \in Regions
                 /\ route.region # NoRegion => RegionOf[b] = route.region
BY DEF Direct, FloodRoute, RouteTo, Regions

LEMMA PacketType ==
    ASSUME NEW b \in Badges, NEW c \in Badges, NEW kind \in FloodKinds, NEW mask \in Nat,
           NEW route, route.flood \in BOOLEAN, route.region \in Regions,
           route.region # NoRegion => RegionOf[b] = route.region
    PROVE  /\ Packet(kind, b, c, route, mask) \in Pkt /\ Packet(kind, b, c, route, mask).from = b
           /\ Packet(kind, b, c, route, mask).region # NoRegion
                => RegionOf[b] = Packet(kind, b, c, route, mask).region
BY DEF Packet, Pkt

LEMMA OriginateEffect ==
    ASSUME FloodTypeOK, NEW b \in Badges, NEW pk \in Pkt, pk.from = b,
           pk.region # NoRegion => RegionOf[b] = pk.region, Originate(b, pk)
    PROVE  /\ NewPacket(b, pk) /\ Made(b, relayq[b]) /\ UNCHANGED <<relaySeen, sentBy>>
           /\ relayq' \in [Badges -> Seq(CopyT)] /\ \A r \in Badges \ {b} : Rests(r)
<1>1. NewPacket(b, pk)
  BY DEF NewPacket, Originate
<1>2. relayq'[b] = relayq[b] \/ relayq'[b] = Append(relayq[b], NewCopy)
  BY DEF Originate, Queued, NewCopy, FloodTypeOK
<1>3. NewCopy \in CopyT
  BY DEF NewCopy, Copy, CopyT, FloodTypeOK
<1>4. Queued(relayq[b], NewCopy) \in Seq(CopyT)
  BY <1>3 DEF Queued, FloodTypeOK
<1>5. relayq' = [relayq EXCEPT ![b] = Queued(relayq[b], NewCopy)]
  BY DEF Originate, NewCopy
<1>6. relayq' \in [Badges -> Seq(CopyT)]
  BY <1>4, <1>5 DEF FloodTypeOK
<1> QED
  BY <1>1, <1>2, <1>5, <1>6 DEF Made, Rests, Originate, FloodTypeOK

LEMMA RelaysEffect ==
    ASSUME FloodTypeOK, AllInPlace, NEW b \in Badges, NEW R \in SUBSET Near(b), Relays(b, R)
    PROVE  LET c == Head(relayq[b]) IN
           /\ c \in CopyT /\ Transmits(b, c) /\ PktsGrow
           /\ \A r \in Badges \ {b} : (r \in Near(b) /\ Hears(b, r, c)) \/ Rests(r)
           /\ relayq' \in [Badges -> Seq(CopyT)] /\ relaySeen' \in [Badges -> Seq(Nat)]
<1> DEFINE c == Head(relayq[b])
           p == pkts[c.pkt]
           hear == {r \in R : InRegion(r, p)}
           resp == {r \in hear : Replies(r, p)}
           Ans(r) == Packet("answer", r, p.from, RouteTo(r, p.from), 0)
           qs == [r \in Badges |->
               IF r = b THEN Tail(relayq[b])
               ELSE (IF r \in resp THEN <<NewCopy>> ELSE << >>)
                    \o (IF r \in hear THEN Relayed(r, c) ELSE relayq[r])]
           noted == [r \in Badges |->
               IF r \in hear /\ ToRelay(r, c) THEN Remembered(relaySeen[r], c.pkt)
               ELSE relaySeen[r]]
<1>1. /\ relayq[b] # << >>
      /\ sentBy' = [sentBy EXCEPT ![<<b, c.pkt>>] = @ + 1]
      /\ relaySeen' = noted
      /\ pkts' = pkts \o SetToSeq({Ans(r) : r \in resp})
      /\ relayq' = qs
  BY Zenon DEF Relays, NewCopy
<1>2. relayq[b] \in Seq(CopyT) /\ c \in CopyT /\ c = relayq[b][1] /\ 1 \in 1..Len(relayq[b])
      /\ Tail(relayq[b]) \in Seq(CopyT)
  <2>1. relayq[b] \in Seq(CopyT)
    BY DEF FloodTypeOK
  <2> QED
    BY <1>1, <2>1, QueueTail
<1>3. c.pkt \in 1..Len(pkts) /\ c.pkt \in Nat /\ c.path \in Seq(Badges) /\ p \in Pkt
  <2>1. InPlace(b, c)
    BY <1>2 DEF AllInPlace
  <2>2. c.pkt \in 1..Len(pkts) /\ Len(pkts) \in Nat
    BY <2>1 DEF InPlace, FloodTypeOK
  <2> QED
    BY <1>2, <2>2 DEF CopyT, FloodTypeOK
<1>4. b \notin R /\ R \subseteq Badges
  BY DEF Near
<1>5. NewCopy \in CopyT
  BY DEF NewCopy, Copy, CopyT, FloodTypeOK
<1>6. \A r \in Badges : RelayOf(r, c) \in CopyT
  BY <1>3 DEF RelayOf, Copy, CopyT
<1> HIDE DEF c, p
<1>7. ASSUME NEW r \in Badges
      PROVE  Relayed(r, c) \in Seq(CopyT)
             /\ (Relayed(r, c) = relayq[r]
                 \/ (Relayed(r, c) = Append(relayq[r], RelayOf(r, c)) /\ ToRelay(r, c)
                     /\ Len(c.path) < MaxHops))
  <2>1. relayq[r] \in Seq(CopyT)
    BY DEF FloodTypeOK
  <2> QED
    BY <1>6, <2>1 DEF Relayed, Queued, RelayOf
<1>8. relayq' \in [Badges -> Seq(CopyT)]
  <2> SUFFICES ASSUME NEW r \in Badges PROVE qs[r] \in Seq(CopyT)
    BY <1>1
  <2>1. relayq[r] \in Seq(CopyT) /\ Relayed(r, c) \in Seq(CopyT)
    BY <1>7 DEF FloodTypeOK
  <2>2. <<NewCopy>> \in Seq(CopyT) /\ << >> \in Seq(CopyT)
    BY <1>5
  <2>3. \A s, t \in Seq(CopyT) : s \o t \in Seq(CopyT)
    BY ConcatProperties
  <2> QED
    BY <1>2, <2>1, <2>2, <2>3
<1>9. relaySeen' \in [Badges -> Seq(Nat)]
  BY <1>1, <1>3, RememberedType DEF FloodTypeOK
<1>10. Transmits(b, c)
  BY <1>1, <1>4 DEF Transmits, c
<1>11. /\ \A r \in Badges : r \in resp => NewPacket(r, Ans(r)) /\ Ans(r) \in Pkt
       /\ PktsGrow
  <2>1. \A r \in resp : r \in Badges /\ p.to = r /\ Len(pkts) < MaxPackets
    BY <1>4 DEF Replies
  <2>2. CASE resp = {}
    <3>1. {Ans(r) : r \in resp} = {}
      BY <2>2
    <3>2. pkts' = pkts
      BY <1>1, <3>1, SetToSeqOne, ConcatEmptySeq DEF FloodTypeOK
    <3> QED
      BY <2>2, <3>2 DEF PktsGrow
  <2>3. CASE resp # {}
    <3>1. PICK r \in resp : TRUE
      BY <2>3
    <3>2. r \in Badges /\ \A x \in resp : x = r
      BY <2>1
    <3>3. {Ans(x) : x \in resp} = {Ans(r)}
      BY <3>2
    <3>4. pkts' = pkts \o <<Ans(r)>>
      <4>1. SetToSeq({Ans(x) : x \in resp}) = <<Ans(r)>>
        BY <3>3, SetToSeqOne
      <4> QED
        BY <1>1, <4>1
    <3>5. p.from \in Badges
      BY <1>3 DEF Pkt
    <3>6. Ans(r) \in Pkt /\ Ans(r).from = r /\ (Ans(r).region # NoRegion => RegionOf[r] = Ans(r).region)
      <4> DEFINE route == RouteTo(r, p.from)
      <4>1. /\ route.flood \in BOOLEAN /\ route.region \in Regions
            /\ route.region # NoRegion => RegionOf[r] = route.region
        BY <3>2, <3>5, RouteRegion
      <4> HIDE DEF route
      <4>2. /\ Packet("answer", r, p.from, route, 0) \in Pkt /\ Packet("answer", r, p.from, route, 0).from = r
            /\ Packet("answer", r, p.from, route, 0).region # NoRegion
                 => RegionOf[r] = Packet("answer", r, p.from, route, 0).region
        <5>1. "answer" \in FloodKinds /\ 0 \in Nat
          BY DEF FloodKinds
        <5> QED
          BY <3>2, <3>5, <4>1, <5>1, PacketType
      <4> QED
        BY <4>2 DEF route, Ans
    <3> HIDE DEF Ans, resp
    <3>7. pkts' = Append(pkts, Ans(r))
      BY <3>4, <3>6 DEF FloodTypeOK
    <3>8. Len(pkts) < MaxPackets
      BY <2>1
    <3>9. NewPacket(r, Ans(r))
      BY <3>6, <3>7, <3>8 DEF NewPacket
    <3> QED
      BY <3>2, <3>6, <3>9 DEF PktsGrow
  <2> QED
    BY <2>2, <2>3
<1> HIDE DEF Ans
<1>12. ASSUME NEW r \in Badges \ {b} PROVE (r \in Near(b) /\ Hears(b, r, c)) \/ Rests(r)
  <2>1. relayq[r] \in Seq(CopyT) /\ Relayed(r, c) \in Seq(CopyT)
    BY <1>7 DEF FloodTypeOK
  <2>2. CASE r \notin hear
    <3>1. r \notin resp
      BY <2>2
    <3>2. relayq'[r] = << >> \o relayq[r] /\ relaySeen'[r] = relaySeen[r]
      BY <1>1, <2>2, <3>1
    <3>3. relayq'[r] = relayq[r]
      BY <2>1, <3>2, ConcatEmptySeq
    <3> QED
      BY <3>2, <3>3 DEF Rests
  <2>3. CASE r \in hear
    <3>1. r \in R /\ InRegion(r, p) /\ r \in Near(b)
      BY <2>3
    <3>2. relayq'[r] = (IF r \in resp THEN <<NewCopy>> ELSE << >>) \o Relayed(r, c)
      BY <1>1, <2>3
    <3>3. relaySeen'[r] = IF ToRelay(r, c) THEN Remembered(relaySeen[r], c.pkt) ELSE relaySeen[r]
      BY <1>1, <2>3
    <3>4. MayRelay(r, c, Relayed(r, c))
      BY <1>7, <3>1, <3>3 DEF MayRelay, Notes, p
    <3>5. Made(r, Relayed(r, c))
      <4>1. CASE r \in resp
        BY <1>11, <3>2, <4>1 DEF Made
      <4>2. CASE r \notin resp
        BY <2>1, <3>2, <4>2, ConcatEmptySeq DEF Made
      <4> QED
        BY <4>1, <4>2
    <3> QED
      BY <2>1, <3>1, <3>4, <3>5 DEF Hears
  <2> QED
    BY <2>2, <2>3
<1> QED
  BY <1>2, <1>8, <1>9, <1>10, <1>11, <1>12 DEF c

(* Packets and what was noted about them stay.                              *)
LEMMA PacketsStay ==
    ASSUME FloodTypeOK, PktsGrow
    PROVE  /\ pkts' \in Seq(Pkt) /\ Len(pkts') <= MaxPackets /\ Len(pkts) <= Len(pkts')
           /\ Len(pkts) \in Nat /\ Len(pkts') \in Nat /\ Len(pkts') <= Len(pkts) + 1
           /\ \A p \in 1..Len(pkts) : p \in 1..Len(pkts') /\ pkts'[p] = pkts[p]
<1> DEFINE Goal == /\ pkts' \in Seq(Pkt) /\ Len(pkts') <= MaxPackets /\ Len(pkts) <= Len(pkts')
                   /\ Len(pkts) \in Nat /\ Len(pkts') \in Nat /\ Len(pkts') <= Len(pkts) + 1
                   /\ \A p \in 1..Len(pkts) : p \in 1..Len(pkts') /\ pkts'[p] = pkts[p]
<1>1. CASE pkts' = pkts
  BY <1>1 DEF FloodTypeOK
<1>2. ASSUME NEW r \in Badges, NEW pk \in Pkt, NewPacket(r, pk) PROVE Goal
  <2>1. pkts' = Append(pkts, pk) /\ Len(pkts) < MaxPackets /\ pkts \in Seq(Pkt)
    BY <1>2 DEF NewPacket, FloodTypeOK
  <2> QED
    BY <2>1, FloodConstants
<1> QED
  BY <1>1, <1>2 DEF PktsGrow


(* The parts of the invariant, badge by badge.                              *)
QueueOK(r, q) ==
    /\ \A i \in 1..Len(q) : InPlace(r, q[i])
    /\ NotWrapped => OneEach(q) /\ \A i \in 1..Len(q) : Walked(r, q[i])
SentOK(r) == NotWrapped =>
    \A p \in 1..Len(pkts) : sentBy[<<r, p>>] <= OwnRight(r, p) + RelayRight(r, p)
SeenOK(r) == ToSet(relaySeen[r]) \subseteq 1..Len(pkts) /\ (NotWrapped => SeenOnce(r))

LEMMA ByBadge ==
    FloodIInv <=> /\ FloodTypeOK /\ UnsentYet
                  /\ \A r \in Badges : QueueOK(r, relayq[r]) /\ SentOK(r) /\ SeenOK(r)
BY DEF FloodIInv, AllInPlace, SeenExists, Unwrapped, QueueOK, SentOK, SeenOK

SeenStep(r, c) == relaySeen'[r] = relaySeen[r] \/ (Notes(r, c) /\ c.pkt \in 1..Len(pkts))
Kept == NotWrapped' => \A r \in Badges : ToSet(relaySeen[r]) \subseteq ToSet(relaySeen'[r])

LEMMA SeenGrows ==
    ASSUME FloodIInv, PktsGrow, NEW r \in Badges, NEW c \in CopyT, SeenStep(r, c)
    PROVE  /\ SeenOK(r)'
           /\ NotWrapped' => ToSet(relaySeen[r]) \subseteq ToSet(relaySeen'[r])
           /\ NotWrapped' /\ Notes(r, c) /\ c.pkt \in 1..Len(pkts)
                => c.pkt \in ToSet(relaySeen'[r]) /\ c.pkt \notin ToSet(relaySeen[r])
<1>1. /\ relaySeen[r] \in Seq(Nat) /\ ToSet(relaySeen[r]) \subseteq 1..Len(pkts)
      /\ NotWrapped => SeenOnce(r)
  BY ByBadge DEF SeenOK, FloodTypeOK
<1>2. /\ Len(pkts) <= Len(pkts') /\ Len(pkts) \in Nat /\ Len(pkts') \in Nat
      /\ NotWrapped' => NotWrapped /\ Len(pkts) <= RelayCap
      /\ 1..Len(pkts) \subseteq 1..Len(pkts')
  BY PacketsStay, FloodConstants DEF NotWrapped, FloodIInv
<1>3. CASE relaySeen'[r] = relaySeen[r] /\ ~Notes(r, c)
  BY <1>1, <1>2, <1>3 DEF SeenOK, SeenOnce
<1>4. CASE Notes(r, c) /\ c.pkt \in 1..Len(pkts)
  <2>1. relaySeen'[r] = Remembered(relaySeen[r], c.pkt) /\ c.pkt \notin ToSet(relaySeen[r])
    BY <1>4 DEF Notes, ToRelay, RelayedBefore
  <2>2. c.pkt \in Nat
    BY DEF CopyT
  <2>3. ToSet(relaySeen'[r]) \subseteq 1..Len(pkts')
    <3>1. ToSet(Remembered(relaySeen[r], c.pkt)) \subseteq ToSet(relaySeen[r]) \union {c.pkt}
      BY <1>1, <2>2, RememberedType
    <3> QED
      BY <1>1, <1>2, <1>4, <2>1, <3>1
  <2>4. ASSUME NotWrapped'
        PROVE  /\ SeenOnce(r)' /\ ToSet(relaySeen'[r]) = ToSet(relaySeen[r]) \union {c.pkt}
    <3>1. Len(pkts) <= RelayCap /\ Len(relaySeen[r]) = Cardinality(ToSet(relaySeen[r]))
      BY <1>1, <1>2, <2>4 DEF SeenOnce
    <3>2. /\ ToSet(Remembered(relaySeen[r], c.pkt)) = ToSet(relaySeen[r]) \union {c.pkt}
          /\ Len(Remembered(relaySeen[r], c.pkt))
               = Cardinality(ToSet(Remembered(relaySeen[r], c.pkt)))
      BY <1>1, <1>2, <1>4, <2>1, <3>1, RememberedFits
    <3> QED
      BY <2>1, <3>2 DEF SeenOnce
  <2> QED
    BY <2>1, <2>3, <2>4 DEF SeenOK
<1>5. CASE relaySeen'[r] = relaySeen[r] /\ Notes(r, c) /\ c.pkt \notin 1..Len(pkts)
  BY <1>1, <1>2, <1>5 DEF SeenOK, SeenOnce
<1> QED
  BY <1>3, <1>4, <1>5 DEF SeenStep

LEMMA QueueStays ==
    ASSUME FloodIInv, PktsGrow, Kept, NEW r \in Badges, NEW q \in Seq(CopyT), QueueOK(r, q)
    PROVE  QueueOK(r, q)'
<1>1. /\ \A p \in 1..Len(pkts) : p \in 1..Len(pkts') /\ pkts'[p] = pkts[p]
      /\ NotWrapped' => NotWrapped
  BY PacketsStay, FloodConstants DEF NotWrapped, FloodIInv
<1>2. ASSUME NEW i \in 1..Len(q)
      PROVE  InPlace(r, q[i])' /\ (NotWrapped' => Walked(r, q[i])')
  <2> DEFINE c == q[i]
  <2>1. InPlace(r, c) /\ (NotWrapped => Walked(r, c)) /\ c \in CopyT
    BY DEF QueueOK
  <2> HIDE DEF c
  <2>2. InPlace(r, c)' /\ pkts'[c.pkt] = pkts[c.pkt]
    BY <1>1, <2>1 DEF InPlace
  <2>3. ASSUME NotWrapped' PROVE Walked(r, c)'
    <3>1. Walked(r, c)
      BY <1>1, <2>1, <2>3
    <3>2. \A k \in 1..Len(c.path) : c.path[k] \in Badges
      BY <2>1 DEF CopyT
    <3>3. \A k \in 1..Len(c.path) : c.pkt \in ToSet(relaySeen'[c.path[k]])
      BY <2>3, <3>1, <3>2 DEF Walked, Kept
    <3> QED
      BY <2>2, <3>1, <3>3 DEF Walked
  <2> QED
    BY <2>2, <2>3 DEF c
<1> QED
  BY <1>1, <1>2 DEF QueueOK

LEMMA AddsNew ==
    ASSUME FloodIInv, NEW r \in Badges, NEW pk \in Pkt, NewPacket(r, pk),
           NEW q \in Seq(CopyT), QueueOK(r, q)', \A i \in 1..Len(q) : q[i].pkt \in 1..Len(pkts),
           NEW q2 \in {Append(q, NewCopy), <<NewCopy>> \o q}
    PROVE  /\ QueueOK(r, q2)' /\ q2 \in Seq(CopyT)
           /\ \A p \in 1..Len(pkts) : \A own : Queues(q2, p, own) <=> Queues(q, p, own)
<1>1. PICK c \in CopyT : c = NewCopy
  <2>1. Len(pkts) + 1 \in Nat /\ << >> \in Seq(Badges)
    BY DEF FloodIInv, FloodTypeOK
  <2> QED
    BY <2>1 DEF NewCopy, Copy, CopyT
<1>2. c.path = << >> /\ c.pkt = Len(pkts) + 1
  BY <1>1 DEF NewCopy, Copy
<1>3. /\ pkts' = Append(pkts, pk) /\ pk.from = r /\ (pk.region # NoRegion => RegionOf[r] = pk.region)
      /\ Len(pkts) \in Nat /\ Len(pkts') = Len(pkts) + 1 /\ pkts'[Len(pkts) + 1] = pk
  BY DEF NewPacket, FloodIInv, FloodTypeOK
<1>4. InPlace(r, c)'
  BY <1>2, <1>3 DEF InPlace
<1>5. Walked(r, c)'
  BY <1>2, FloodConstants DEF Walked, IsInjective
<1>6. \A own : ~Queues(q, c.pkt, own)
  <2>1. c.pkt \notin 1..Len(pkts)
    BY <1>2, <1>3
  <2> QED
    BY <2>1 DEF Queues
<1>7. /\ q2 \in Seq(CopyT)
      /\ \A i \in 1..Len(q2) : q2[i] = c \/ \E j \in 1..Len(q) : q2[i] = q[j]
      /\ OneEach(q) => OneEach(q2)
      /\ \A p, own : Queues(q2, p, own) <=> Queues(q, p, own) \/ (c.pkt = p /\ (Own(c) <=> own))
  <2>1. CASE q2 = Append(q, c)
    <3>1. /\ q2 \in Seq(CopyT) /\ Len(q2) = Len(q) + 1 /\ Len(q) \in Nat
          /\ \A i \in 1..Len(q2) : q2[i] = IF i = Len(q) + 1 THEN c ELSE q[i]
      BY <2>1, QueueAppend, LenProperties
    <3>2. \A i \in 1..Len(q2) : i # Len(q) + 1 => i \in 1..Len(q)
      BY <3>1
    <3>3. \A i \in 1..Len(q2) : q2[i] = c \/ \E j \in 1..Len(q) : q2[i] = q[j]
      BY <3>1, <3>2
    <3> QED
      BY <1>6, <2>1, <3>1, <3>3, QueueAppend
  <2>2. CASE q2 = <<c>> \o q
    <3>1. /\ q2 \in Seq(CopyT) /\ Len(q2) = Len(q) + 1 /\ Len(q) \in Nat
          /\ \A i \in 1..Len(q2) : q2[i] = IF i = 1 THEN c ELSE q[i - 1]
      BY <2>2, QueueCons, LenProperties
    <3>2. \A i \in 1..Len(q2) : i # 1 => i - 1 \in 1..Len(q)
      BY <3>1
    <3>3. \A i \in 1..Len(q2) : q2[i] = c \/ \E j \in 1..Len(q) : q2[i] = q[j]
      BY <3>1, <3>2
    <3> QED
      BY <1>6, <2>2, <3>1, <3>3, QueueCons
  <2> QED
    BY <1>1, <2>1, <2>2
<1>8. QueueOK(r, q2)'
  <2>1. ASSUME NEW i \in 1..Len(q2) PROVE InPlace(r, q2[i])' /\ (NotWrapped' => Walked(r, q2[i])')
    <3>1. CASE q2[i] = c
      BY <1>4, <1>5, <3>1
    <3>2. ASSUME NEW j \in 1..Len(q), q2[i] = q[j]
          PROVE  InPlace(r, q2[i])' /\ (NotWrapped' => Walked(r, q2[i])')
      <4>1. InPlace(r, q[j])' /\ (NotWrapped' => Walked(r, q[j])')
        BY DEF QueueOK
      <4> QED
        BY <3>2, <4>1
    <3> QED
      BY <1>7, <3>1, <3>2
  <2> QED
    BY <1>7, <2>1 DEF QueueOK
<1>9. \A p \in 1..Len(pkts) : c.pkt # p
  BY <1>2, <1>3
<1> QED
  BY <1>7, <1>8, <1>9

(* A copy that badge b transmits and badge r in range hears.                *)
OnTheAir(b, r, c) ==
    /\ c \in CopyT /\ r \in Near(b) /\ InPlace(b, c) /\ (NotWrapped => Walked(b, c))

LEMMA RelayWalks ==
    ASSUME FloodIInv, PktsGrow, Kept, NEW b \in Badges, NEW r \in Badges, NEW c, OnTheAir(b, r, c),
           Notes(r, c), SeenStep(r, c), InRegion(r, pkts[c.pkt]), Len(c.path) < MaxHops
    PROVE  /\ RelayOf(r, c) \in CopyT /\ ~Own(RelayOf(r, c)) /\ RelayOf(r, c).pkt = c.pkt
           /\ InPlace(r, RelayOf(r, c))' /\ (NotWrapped' => Walked(r, RelayOf(r, c))')
<1> DEFINE d == RelayOf(r, c)
<1>1. /\ c \in CopyT /\ c.pkt \in 1..Len(pkts) /\ c.pkt \in Nat /\ c.path \in Seq(Badges)
      /\ InPlace(b, c)
  BY DEF OnTheAir, CopyT, InPlace
<1>2. PICK w : w = Append(c.path, r)
  OBVIOUS
<1>3. /\ w \in Seq(Badges) /\ Len(w) = Len(c.path) + 1 /\ Len(c.path) \in Nat /\ w # << >>
      /\ w[Len(c.path) + 1] = r /\ DOMAIN w = 1..Len(w)
      /\ \A i \in 1..Len(c.path) : w[i] = c.path[i] /\ c.path[i] \in Badges
  BY <1>1, <1>2
<1>4. d = [pkt |-> c.pkt, path |-> w] /\ d \in CopyT /\ d.pkt = c.pkt /\ d.path = w /\ ~Own(d)
  BY <1>1, <1>2, <1>3 DEF RelayOf, Copy, CopyT, Own
<1>5. pkts'[c.pkt] = pkts[c.pkt] /\ c.pkt \in 1..Len(pkts') /\ (NotWrapped' => NotWrapped)
  BY <1>1, PacketsStay, FloodConstants DEF NotWrapped, FloodIInv
<1>6. r \in Repeaters /\ pkts[c.pkt].flood /\ ~RelayedBefore(r, c)
  BY DEF Notes, ToRelay
<1>7. InPlace(r, d)'
  BY <1>1, <1>3, <1>4, <1>5, <1>6 DEF InPlace, InRegion
<1>8. ASSUME NotWrapped' PROVE Walked(r, d)'
  <2>1. Walked(b, c)
    BY <1>5, <1>8 DEF OnTheAir
  <2>2. c.pkt \in ToSet(relaySeen'[r]) /\ c.pkt \notin ToSet(relaySeen[r])
    BY <1>1, <1>8, SeenGrows
  <2>3. \A i \in 1..Len(c.path) : w[i] # r
    BY <1>3, <2>1, <2>2 DEF Walked
  <2>4. IsInjective(w)
    <3>1. \A i \in 1..Len(w) : i \in 1..Len(c.path) \/ i = Len(c.path) + 1
      BY <1>3
    <3>2. \A i, j \in 1..Len(c.path) : w[i] = w[j] => i = j
      BY <1>1, <1>3, <2>1 DEF Walked, IsInjective
    <3> QED
      BY <1>3, <2>3, <3>1, <3>2 DEF IsInjective
  <2>5. \A i \in 1..Len(w) : c.pkt \in ToSet(relaySeen'[w[i]])
    <3> SUFFICES ASSUME NEW i \in 1..Len(w) PROVE c.pkt \in ToSet(relaySeen'[w[i]])
      OBVIOUS
    <3>1. CASE i = Len(c.path) + 1
      BY <1>3, <2>2, <3>1
    <3>2. CASE i # Len(c.path) + 1
      <4>1. i \in 1..Len(c.path)
        BY <1>3, <3>2
      <4> QED
        BY <1>3, <1>8, <2>1, <4>1 DEF Walked, Kept
    <3> QED
      BY <3>1, <3>2
  <2>6. {b, r} \in Links
    BY DEF OnTheAir, Near
  <2>7. {pkts[c.pkt].from, w[1]} \in Links
    <3>1. CASE c.path = << >>
      <4>1. Len(c.path) = 0 /\ w[1] = r
        BY <1>3, <3>1
      <4>2. pkts[c.pkt].from = b
        BY <1>1, <3>1 DEF InPlace
      <4> QED
        BY <2>6, <4>1, <4>2
    <3>2. CASE c.path # << >>
      <4>1. 1 \in 1..Len(c.path)
        BY <1>1, <3>2
      <4> QED
        BY <1>3, <2>1, <3>2, <4>1 DEF Walked
    <3> QED
      BY <3>1, <3>2
  <2>8. \A k \in 1..Len(w) - 1 : {w[k], w[k + 1]} \in Links
    <3> SUFFICES ASSUME NEW k \in 1..Len(c.path) PROVE {w[k], w[k + 1]} \in Links
      BY <1>3
    <3>1. CASE k = Len(c.path)
      <4>1. w[k] = b /\ w[k + 1] = r
        BY <1>1, <1>3, <2>1, <3>1 DEF Walked
      <4> QED
        BY <2>6, <4>1
    <3>2. CASE k # Len(c.path)
      <4>1. k \in 1..Len(c.path) - 1 /\ k + 1 \in 1..Len(c.path)
        BY <1>3, <3>2
      <4> QED
        BY <1>3, <2>1, <4>1 DEF Walked
    <3> QED
      BY <3>1, <3>2
  <2>9. Len(w) <= MaxHops /\ w[Len(w)] = r
    BY <1>3, FloodConstants
  <2> QED
    BY <1>4, <1>5, <2>4, <2>5, <2>7, <2>8, <2>9 DEF Walked
<1> QED
  BY <1>4, <1>7, <1>8

(* A badge other than the one that transmits.                               *)
LEMMA OtherBadge ==
    ASSUME FloodIInv, PktsGrow, Kept, NEW b \in Badges, NEW r \in Badges, NEW c \in CopyT,
           NEW q1 \in Seq(CopyT), Made(r, q1), SeenStep(r, c),
           \/ q1 = relayq[r]
           \/ /\ q1 = Append(relayq[r], RelayOf(r, c)) /\ Notes(r, c) /\ OnTheAir(b, r, c)
              /\ InRegion(r, pkts[c.pkt]) /\ Len(c.path) < MaxHops,
           \A p \in 1..MaxPackets : sentBy'[<<r, p>>] = sentBy[<<r, p>>],
           sentBy' \in [Badges \X (1..MaxPackets) -> Nat]
    PROVE  QueueOK(r, relayq[r])' /\ SentOK(r)'
<1>1. PICK q \in Seq(CopyT) : q = relayq[r]
  BY DEF FloodIInv, FloodTypeOK
<1>2. QueueOK(r, q) /\ QueueOK(r, q)' /\ \A i \in 1..Len(q) : q[i].pkt \in 1..Len(pkts)
  <2>1. QueueOK(r, q)
    BY <1>1, ByBadge
  <2> QED
    BY <2>1, QueueStays DEF QueueOK, InPlace
<1>3. /\ \A p \in 1..Len(pkts) : p \in 1..Len(pkts') /\ pkts'[p] = pkts[p]
      /\ NotWrapped' => NotWrapped
      /\ Len(pkts) \in Nat /\ Len(pkts') \in Nat /\ Len(pkts') <= MaxPackets
      /\ Len(pkts') <= Len(pkts) + 1
  BY PacketsStay, FloodConstants DEF NotWrapped, FloodIInv
<1>4. /\ QueueOK(r, q1)' /\ \A i \in 1..Len(q1) : q1[i].pkt \in 1..Len(pkts)
      /\ \A p : Queues(q1, p, TRUE) <=> Queues(q, p, TRUE)
      /\ NotWrapped' => \A p : Queues(q1, p, FALSE) => Queues(q, p, FALSE)
                                  \/ (p \notin ToSet(relaySeen[r]))
  <2>1. CASE q1 = q
    BY <1>2, <2>1
  <2>2. CASE /\ q1 = Append(q, RelayOf(r, c)) /\ Notes(r, c) /\ OnTheAir(b, r, c)
             /\ InRegion(r, pkts[c.pkt]) /\ Len(c.path) < MaxHops
    <3>1. PICK d \in CopyT : d = RelayOf(r, c)
      BY <2>2, RelayWalks
    <3>2. /\ d.pkt = c.pkt /\ ~Own(d) /\ c.pkt \in 1..Len(pkts)
          /\ InPlace(r, d)' /\ (NotWrapped' => Walked(r, d)')
      BY <2>2, <3>1, RelayWalks DEF OnTheAir, InPlace
    <3>3. NotWrapped' => c.pkt \notin ToSet(relaySeen[r])
      BY <2>2, <3>2, SeenGrows
    <3>4. /\ Len(q1) = Len(q) + 1 /\ Len(q) \in Nat
          /\ \A i \in 1..Len(q1) : q1[i] = IF i = Len(q) + 1 THEN d ELSE q[i]
          /\ \A p, own : Queues(q1, p, own)
                          <=> Queues(q, p, own) \/ (d.pkt = p /\ (Own(d) <=> own))
          /\ OneEach(q) /\ ~Queues(q, d.pkt, Own(d)) => OneEach(q1)
      BY <2>2, <3>1, QueueAppend, LenProperties
    <3>5. \A i \in 1..Len(q1) : q1[i] = d \/ \E j \in 1..Len(q) : q1[i] = q[j]
      <4>1. \A i \in 1..Len(q1) : i # Len(q) + 1 => i \in 1..Len(q)
        BY <3>4
      <4> QED
        BY <3>4, <4>1
    <3>6. NotWrapped' => ~Queues(q, c.pkt, FALSE)
      <4> SUFFICES ASSUME NotWrapped', NEW i \in 1..Len(q), q[i].pkt = c.pkt, ~Own(q[i]) PROVE FALSE
        BY DEF Queues
      <4>1. Walked(r, q[i]) /\ q[i] \in CopyT
        BY <1>2, <1>3 DEF QueueOK
      <4>2. q[i].path # << >> /\ q[i].path \in Seq(Badges)
        BY <4>1 DEF Own, CopyT
      <4>3. Len(q[i].path) \in 1..Len(q[i].path)
        BY <4>2
      <4> QED
        BY <3>3, <4>1, <4>2, <4>3 DEF Walked
    <3>7. ASSUME NEW i \in 1..Len(q1)
          PROVE  /\ InPlace(r, q1[i])' /\ (NotWrapped' => Walked(r, q1[i])')
                 /\ q1[i].pkt \in 1..Len(pkts)
      <4>1. CASE q1[i] = d
        BY <3>2, <4>1
      <4>2. ASSUME NEW j \in 1..Len(q), q1[i] = q[j]
            PROVE  /\ InPlace(r, q1[i])' /\ (NotWrapped' => Walked(r, q1[i])')
                   /\ q1[i].pkt \in 1..Len(pkts)
        <5>1. InPlace(r, q[j])' /\ (NotWrapped' => Walked(r, q[j])') /\ q[j].pkt \in 1..Len(pkts)
          BY <1>2 DEF QueueOK
        <5> QED
          BY <4>2, <5>1
      <4> QED
        BY <3>5, <4>1, <4>2
    <3>8. NotWrapped' => OneEach(q1)
      <4>1. NotWrapped' => ~Queues(q, d.pkt, Own(d))
        BY <3>2, <3>6 DEF Queues
      <4>2. NotWrapped' => OneEach(q)
        BY <1>2, <1>3 DEF QueueOK
      <4> QED
        BY <3>4, <4>1, <4>2
    <3>9. QueueOK(r, q1)'
      BY <3>7, <3>8 DEF QueueOK
    <3> QED
      BY <3>2, <3>3, <3>4, <3>7, <3>9
  <2> QED
    BY <1>1, <2>1, <2>2
<1> DEFINE Goal == /\ QueueOK(r, relayq[r])'
                   /\ \A p \in 1..Len(pkts) : \A own : Queues(relayq'[r], p, own) <=> Queues(q1, p, own)
<1>5. Goal
  <2>1. CASE relayq'[r] = q1
    BY <1>4, <2>1 DEF QueueOK
  <2>2. ASSUME NEW pk \in Pkt, NewPacket(r, pk),
               relayq'[r] \in {Append(q1, NewCopy), <<NewCopy>> \o q1}
        PROVE  Goal
    <3>1. PICK q2 : q2 = relayq'[r]
      OBVIOUS
    <3>3. q2 \in {Append(q1, NewCopy), <<NewCopy>> \o q1}
      BY <2>2, <3>1
    <3>4. QueueOK(r, q1)' /\ \A i \in 1..Len(q1) : q1[i].pkt \in 1..Len(pkts)
      BY <1>4
    <3>2. QueueOK(r, q2)' /\ \A p \in 1..Len(pkts) : \A own : Queues(q2, p, own) <=> Queues(q1, p, own)
      BY <2>2, <3>3, <3>4, AddsNew
    <3> QED
      BY <3>1, <3>2 DEF QueueOK
  <2> QED
    BY <2>1, <2>2 DEF Made
<1>6. SentOK(r)'
  <2> SUFFICES ASSUME NotWrapped', NEW p \in 1..Len(pkts')
               PROVE  sentBy'[<<r, p>>] <= OwnRight(r, p)' + RelayRight(r, p)'
    BY DEF SentOK
  <2>1. /\ p \in 1..MaxPackets /\ sentBy'[<<r, p>>] = sentBy[<<r, p>>] /\ sentBy[<<r, p>>] \in Nat
        /\ OwnRight(r, p)' \in {0, 1} /\ RelayRight(r, p)' \in {0, 1}
    <3>1. p \in 1..MaxPackets
      BY <1>3, FloodConstants
    <3>2. sentBy'[<<r, p>>] = sentBy[<<r, p>>] /\ sentBy[<<r, p>>] \in Nat
      BY <1>3, <3>1 DEF FloodIInv, FloodTypeOK
    <3>3. OwnRight(r, p)' \in {0, 1} /\ RelayRight(r, p)' \in {0, 1}
      BY DEF OwnRight, RelayRight
    <3> QED
      BY <3>1, <3>2, <3>3
  <2>2. CASE p = Len(pkts) + 1
    <3>1. sentBy[<<r, p>>] = 0
      BY <1>3, <2>1, <2>2 DEF FloodIInv, UnsentYet
    <3> QED
      BY <2>1, <3>1
  <2>3. CASE p \in 1..Len(pkts)
    <3>1. sentBy[<<r, p>>] <= OwnRight(r, p) + RelayRight(r, p)
      BY <1>3, <2>3, ByBadge DEF SentOK
    <3>2. OwnRight(r, p)' = OwnRight(r, p)
      BY <1>1, <1>3, <1>4, <1>5, <2>3 DEF OwnRight
    <3>3. ToSet(relaySeen[r]) \subseteq ToSet(relaySeen'[r])
      BY DEF Kept
    <3>4. Queues(relayq'[r], p, FALSE) => Queues(relayq[r], p, FALSE) \/ p \notin ToSet(relaySeen[r])
      BY <1>1, <1>4, <1>5, <2>3
    <3>5. RelayRight(r, p) <= RelayRight(r, p)'
      <4>1. pkts'[p] = pkts[p]
        BY <1>3, <2>3
      <4>2. CASE RelayRight(r, p) = 0
        BY <2>1, <4>2
      <4>3. CASE RelayRight(r, p) # 0
        <5>1. /\ pkts[p].flood /\ r \in Repeaters /\ p \in ToSet(relaySeen[r])
              /\ ~Queues(relayq[r], p, FALSE)
          BY <4>3 DEF RelayRight
        <5>2. p \in ToSet(relaySeen'[r]) /\ ~Queues(relayq'[r], p, FALSE)
          BY <3>3, <3>4, <5>1
        <5>3. RelayRight(r, p)' = 1 /\ RelayRight(r, p) = 1
          BY <4>1, <5>1, <5>2 DEF RelayRight
        <5> QED
          BY <5>3
      <4> QED
        BY <4>2, <4>3
    <3>6. OwnRight(r, p) \in {0, 1} /\ RelayRight(r, p) \in {0, 1}
      BY DEF OwnRight, RelayRight
    <3> QED
      BY <2>1, <3>1, <3>2, <3>5, <3>6
  <2> QED
    BY <1>3, <2>2, <2>3
<1> QED
  BY <1>5, <1>6

(* The badge that transmits uses up one of its two rights.                  *)
LEMMA TransmitsInv ==
    ASSUME FloodIInv, PktsGrow, Kept, NEW b \in Badges, NEW c \in CopyT, Transmits(b, c)
    PROVE  QueueOK(b, relayq[b])' /\ SentOK(b)'
<1>1. PICK q \in Seq(CopyT) : q = relayq[b]
  BY DEF FloodIInv, FloodTypeOK
<1>2. q # << >> /\ c = Head(q) /\ relayq'[b] = Tail(q)
  BY <1>1 DEF Transmits
<1>3. PICK t \in Seq(CopyT) : t = Tail(q)
  BY <1>2, QueueTail
<1>4. QueueOK(b, q) /\ QueueOK(b, q)'
  <2>1. QueueOK(b, q)
    BY <1>1, ByBadge
  <2> QED
    BY <2>1, QueueStays
<1>5. /\ 1 \in 1..Len(q) /\ c = q[1]
      /\ \A i \in 1..Len(t) : i + 1 \in 1..Len(q) /\ t[i] = q[i + 1]
      /\ \A p, own : Queues(t, p, own) => Queues(q, p, own)
      /\ OneEach(q) => OneEach(t) /\ ~Queues(t, c.pkt, Own(c))
  BY <1>2, <1>3, QueueTail
<1>6. QueueOK(b, t)'
  BY <1>4, <1>5 DEF QueueOK
<1>7. QueueOK(b, relayq[b])'
  BY <1>2, <1>3, <1>6 DEF QueueOK
<1>8. /\ \A p \in 1..Len(pkts) : p \in 1..Len(pkts') /\ pkts'[p] = pkts[p]
      /\ NotWrapped' => NotWrapped
      /\ Len(pkts) \in Nat /\ Len(pkts') \in Nat /\ Len(pkts') <= MaxPackets
      /\ Len(pkts') <= Len(pkts) + 1
  <2>1. FloodTypeOK
    BY DEF FloodIInv
  <2>2. RelayCap \in Nat
    BY FloodConstants
  <2>3. /\ Len(pkts') <= MaxPackets /\ Len(pkts) <= Len(pkts')
        /\ Len(pkts) \in Nat /\ Len(pkts') \in Nat /\ Len(pkts') <= Len(pkts) + 1
        /\ \A p \in 1..Len(pkts) : p \in 1..Len(pkts') /\ pkts'[p] = pkts[p]
    BY <2>1, PacketsStay
  <2> QED
    BY <2>2, <2>3 DEF NotWrapped
<1>9. ASSUME NotWrapped', NEW p \in 1..Len(pkts')
      PROVE  sentBy'[<<b, p>>] <= OwnRight(b, p)' + RelayRight(b, p)'
  <2>1. OwnRight(b, p)' \in {0, 1} /\ RelayRight(b, p)' \in {0, 1}
        /\ OwnRight(b, p) \in {0, 1} /\ RelayRight(b, p) \in {0, 1}
    BY DEF OwnRight, RelayRight
  <2>2. /\ p \in 1..MaxPackets /\ c.pkt \in 1..Len(pkts) /\ <<b, p>> \in Badges \X (1..MaxPackets)
        /\ sentBy'[<<b, p>>] = IF p = c.pkt THEN sentBy[<<b, p>>] + 1 ELSE sentBy[<<b, p>>]
        /\ sentBy[<<b, p>>] \in Nat
    <3>1. p \in 1..MaxPackets
      BY <1>8, FloodConstants
    <3>2. c.pkt \in 1..Len(pkts)
      BY <1>4, <1>5 DEF QueueOK, InPlace
    <3>3. /\ sentBy \in [Badges \X (1..MaxPackets) -> Nat] /\ <<b, p>> \in Badges \X (1..MaxPackets)
          /\ sentBy' = [sentBy EXCEPT ![<<b, c.pkt>>] = @ + 1]
      BY <3>1 DEF FloodIInv, FloodTypeOK, Transmits
    <3>4. sentBy'[<<b, p>>] = IF <<b, p>> = <<b, c.pkt>> THEN sentBy[<<b, p>>] + 1 ELSE sentBy[<<b, p>>]
      BY <3>3
    <3>5. <<b, p>> = <<b, c.pkt>> <=> p = c.pkt
      OBVIOUS
    <3> QED
      BY <3>1, <3>2, <3>3, <3>4, <3>5
  <2>3. CASE p = Len(pkts) + 1
    <3>1. sentBy[<<b, p>>] = 0 /\ p # c.pkt
      BY <1>8, <2>2, <2>3 DEF FloodIInv, UnsentYet
    <3> QED
      BY <2>1, <2>2, <3>1
  <2>4. CASE p \in 1..Len(pkts)
    <3>1. sentBy[<<b, p>>] <= OwnRight(b, p) + RelayRight(b, p)
      BY <1>8, <1>9, <2>4, ByBadge DEF SentOK
    <3>2. pkts'[p] = pkts[p] /\ relaySeen'[b] = relaySeen[b] /\ relayq'[b] = t /\ relayq[b] = q
      BY <1>1, <1>2, <1>3, <1>8, <2>4 DEF Transmits
    <3>3. OwnRight(b, p) <= OwnRight(b, p)'
      <4>1. OwnRight(b, p) = 1 => OwnRight(b, p)' = 1
        BY <1>5, <3>2 DEF OwnRight
      <4> QED
        BY <2>1, <4>1
    <3>4. RelayRight(b, p) <= RelayRight(b, p)'
      <4>1. RelayRight(b, p) = 1 => RelayRight(b, p)' = 1
        BY <1>5, <3>2 DEF RelayRight
      <4> QED
        BY <2>1, <4>1
    <3>5. CASE p # c.pkt
      BY <2>1, <2>2, <3>1, <3>3, <3>4, <3>5
    <3>6. CASE p = c.pkt /\ Own(c)
      <4>1. pkts[p].from = b
        BY <1>4, <1>5, <3>6 DEF QueueOK, InPlace, Own
      <4>2. Queues(q, p, TRUE)
        BY <1>5, <3>6 DEF Queues
      <4>3. ~Queues(t, p, TRUE)
        BY <1>4, <1>5, <1>8, <1>9, <3>6 DEF Queues, QueueOK
      <4>4. OwnRight(b, p) = 0 /\ OwnRight(b, p)' = 1
        BY <3>2, <4>1, <4>2, <4>3 DEF OwnRight
      <4> QED
        BY <2>1, <2>2, <3>1, <3>4, <3>6, <4>4
    <3>7. CASE p = c.pkt /\ ~Own(c)
      <4>1. b \in Repeaters /\ pkts[p].flood
        BY <1>4, <1>5, <3>7 DEF QueueOK, InPlace, Own
      <4>2. Walked(b, c)
        BY <1>4, <1>5, <1>8, <1>9 DEF QueueOK
      <4>3. c.path # << >> /\ c.path \in Seq(Badges) /\ Len(c.path) \in 1..Len(c.path)
        BY <3>7 DEF Own, CopyT
      <4>4. p \in ToSet(relaySeen[b])
        BY <3>7, <4>2, <4>3 DEF Walked
      <4>5. Queues(q, p, FALSE)
        BY <1>5, <3>7 DEF Queues
      <4>6. ~Queues(t, p, FALSE)
        BY <1>4, <1>5, <1>8, <1>9, <3>7 DEF Queues, QueueOK
      <4>7. RelayRight(b, p) = 0 /\ RelayRight(b, p)' = 1
        BY <3>2, <4>1, <4>4, <4>5, <4>6 DEF RelayRight
      <4> QED
        BY <2>1, <2>2, <3>1, <3>3, <3>7, <4>7
    <3> QED
      BY <3>5, <3>6, <3>7
  <2> QED
    BY <1>8, <2>3, <2>4
<1> QED
  BY <1>7, <1>9 DEF SentOK

LEMMA FloodInitInv == FloodInit => FloodIInv
<1> SUFFICES ASSUME FloodInit PROVE FloodIInv
  OBVIOUS
<1> USE DEF FloodInit
<1>1. FloodTypeOK
  BY FloodConstants DEF FloodTypeOK
<1>2. AllInPlace /\ SeenExists /\ UnsentYet
  BY DEF AllInPlace, SeenExists, UnsentYet, ToSet
<1>3. ASSUME NEW b \in Badges PROVE SeenOnce(b) /\ OneEach(relayq[b]) /\ Len(relayq[b]) = 0
  <2>1. relaySeen[b] = << >> /\ relayq[b] = << >> /\ ToSet(<< >>) = {}
    BY DEF ToSet
  <2> QED
    <3>1. Len(<< >>) = 0 /\ Cardinality({}) = 0 /\ 1..0 = {}
      BY FS_EmptySet
    <3> QED
      BY <2>1, <3>1 DEF SeenOnce, OneEach
<1>4. Unwrapped
  BY <1>3 DEF Unwrapped
<1> QED
  BY <1>1, <1>2, <1>4 DEF FloodIInv

LEMMA OriginateInv ==
    ASSUME FloodIInv, NEW b \in Badges, NEW pk \in Pkt, pk.from = b,
           pk.region # NoRegion => RegionOf[b] = pk.region, Originate(b, pk)
    PROVE  FloodIInv'
<1>1. /\ NewPacket(b, pk) /\ Made(b, relayq[b]) /\ UNCHANGED <<relaySeen, sentBy>>
      /\ relayq' \in [Badges -> Seq(CopyT)] /\ \A r \in Badges \ {b} : Rests(r)
  BY OriginateEffect DEF FloodIInv
<1>2. PktsGrow
  BY <1>1 DEF PktsGrow
<1>3. FloodTypeOK'
  BY <1>1, <1>2, PacketsStay DEF FloodIInv, FloodTypeOK
<1>4. UnsentYet'
  BY <1>1, <1>2, PacketsStay DEF FloodIInv, UnsentYet
<1>5. PICK c \in CopyT : TRUE
  <2>1. [pkt |-> 0, path |-> << >>] \in CopyT
    BY DEF CopyT
  <2> QED
    BY <2>1
<1>6. \A r \in Badges : SeenStep(r, c)
  BY <1>1 DEF SeenStep
<1>7. Kept /\ \A r \in Badges : SeenOK(r)'
  BY <1>2, <1>5, <1>6, SeenGrows DEF Kept
<1>8. \A r \in Badges : Made(r, relayq[r])
  BY <1>1 DEF Made, Rests
<1>9. ASSUME NEW r \in Badges PROVE QueueOK(r, relayq[r])' /\ SentOK(r)'
  <2>1. PICK q1 \in Seq(CopyT) : q1 = relayq[r]
    BY DEF FloodIInv, FloodTypeOK
  <2>2. sentBy' \in [Badges \X (1..MaxPackets) -> Nat] /\ sentBy' = sentBy
    BY <1>1, <1>3 DEF FloodTypeOK
  <2>3. Made(r, q1)
    BY <1>8, <2>1
  <2> QED
    BY <1>2, <1>6, <1>7, <2>1, <2>2, <2>3, OtherBadge
<1> QED
  BY <1>3, <1>4, <1>7, <1>9 DEF FloodIInv, AllInPlace, SeenExists, Unwrapped, QueueOK, SentOK, SeenOK

LEMMA RelaysInv ==
    ASSUME FloodIInv, NEW b \in Badges, NEW R \in SUBSET Near(b), Relays(b, R)
    PROVE  FloodIInv'
<1>1. PICK c : c = Head(relayq[b])
  OBVIOUS
<1>2. /\ c \in CopyT /\ Transmits(b, c) /\ PktsGrow
      /\ \A r \in Badges \ {b} : (r \in Near(b) /\ Hears(b, r, c)) \/ Rests(r)
      /\ relayq' \in [Badges -> Seq(CopyT)] /\ relaySeen' \in [Badges -> Seq(Nat)]
  BY <1>1, RelaysEffect DEF FloodIInv
<1>3. InPlace(b, c) /\ (NotWrapped => Walked(b, c)) /\ c.pkt \in 1..Len(pkts)
  <2>1. relayq[b] \in Seq(CopyT) /\ relayq[b] # << >>
    BY <1>2 DEF FloodIInv, FloodTypeOK, Transmits
  <2>2. 1 \in 1..Len(relayq[b]) /\ c = relayq[b][1]
    BY <1>1, <2>1, QueueTail
  <2>3. QueueOK(b, relayq[b])
    BY ByBadge
  <2> QED
    BY <2>2, <2>3 DEF QueueOK, InPlace
<1>4. sentBy' \in [Badges \X (1..MaxPackets) -> Nat] /\ sentBy' = [sentBy EXCEPT ![<<b, c.pkt>>] = @ + 1]
      /\ sentBy \in [Badges \X (1..MaxPackets) -> Nat] /\ c.pkt \in 1..MaxPackets
  <2>1. sentBy \in [Badges \X (1..MaxPackets) -> Nat] /\ Len(pkts) \in Nat /\ Len(pkts) <= MaxPackets
    BY DEF FloodIInv, FloodTypeOK
  <2>2. <<b, c.pkt>> \in Badges \X (1..MaxPackets)
    BY <1>3, <2>1, FloodConstants
  <2> QED
    BY <1>2, <2>1, <2>2 DEF Transmits
<1>5. FloodTypeOK'
  BY <1>2, <1>4, PacketsStay DEF FloodIInv, FloodTypeOK
<1>6. UnsentYet'
  <2> SUFFICES ASSUME NEW r \in Badges, NEW p \in 1..MaxPackets, p > Len(pkts')
               PROVE  sentBy'[<<r, p>>] = 0
    BY DEF UnsentYet
  <2>1. p > Len(pkts) /\ p # c.pkt
    BY <1>2, <1>3, PacketsStay DEF FloodIInv
  <2>2. <<r, p>> # <<b, c.pkt>> /\ <<r, p>> \in Badges \X (1..MaxPackets)
    BY <2>1
  <2> QED
    BY <1>4, <2>1, <2>2 DEF FloodIInv, UnsentYet
<1>7. \A r \in Badges : SeenStep(r, c)
  BY <1>2, <1>3 DEF SeenStep, Hears, MayRelay, Rests, Transmits
<1>8. Kept /\ \A r \in Badges : SeenOK(r)'
  BY <1>2, <1>7, SeenGrows DEF Kept
<1>9. QueueOK(b, relayq[b])' /\ SentOK(b)'
  BY <1>2, <1>8, TransmitsInv
<1>10. ASSUME NEW r \in Badges \ {b} PROVE QueueOK(r, relayq[r])' /\ SentOK(r)'
  <2>1. \A p \in 1..MaxPackets : sentBy'[<<r, p>>] = sentBy[<<r, p>>]
    <3> SUFFICES ASSUME NEW p \in 1..MaxPackets PROVE sentBy'[<<r, p>>] = sentBy[<<r, p>>]
      OBVIOUS
    <3>1. <<r, p>> # <<b, c.pkt>> /\ <<r, p>> \in Badges \X (1..MaxPackets)
      OBVIOUS
    <3> QED
      BY <1>4, <3>1
  <2>2. \E q1 \in Seq(CopyT) :
           /\ Made(r, q1)
           /\ \/ q1 = relayq[r]
              \/ /\ q1 = Append(relayq[r], RelayOf(r, c)) /\ Notes(r, c) /\ OnTheAir(b, r, c)
                 /\ InRegion(r, pkts[c.pkt]) /\ Len(c.path) < MaxHops
    <3>1. CASE Rests(r)
      <4>1. relayq[r] \in Seq(CopyT) /\ Made(r, relayq[r])
        BY <3>1 DEF Rests, Made, FloodIInv, FloodTypeOK
      <4> QED
        BY <4>1
    <3>2. CASE r \in Near(b) /\ Hears(b, r, c)
      <4>1. OnTheAir(b, r, c)
        BY <1>2, <1>3, <3>2 DEF OnTheAir
      <4>2. PICK q1 \in Seq(CopyT) : MayRelay(r, c, q1) /\ Made(r, q1)
        BY <3>2 DEF Hears
      <4> QED
        BY <4>1, <4>2 DEF MayRelay
    <3> QED
      BY <1>2, <3>1, <3>2
  <2>3. SeenStep(r, c)
    BY <1>7
  <2> QED
    BY <1>2, <1>4, <1>8, <2>1, <2>2, <2>3, OtherBadge
<1> QED
  <2>1. \A r \in Badges : QueueOK(r, relayq[r])' /\ SentOK(r)' /\ SeenOK(r)'
    BY <1>8, <1>9, <1>10
  <2> QED
    BY <1>5, <1>6, <2>1 DEF FloodIInv, AllInPlace, SeenExists, Unwrapped, QueueOK, SentOK, SeenOK

LEMMA FloodNextInv == FloodIInv /\ [FloodNext]_floodVars => FloodIInv'
<1> SUFFICES ASSUME FloodIInv, [FloodNext]_floodVars PROVE FloodIInv'
  OBVIOUS
<1>1. ASSUME NEW b \in Badges, NEW c \in Badges, NEW d \in Badges, NEW kind \in FloodKinds, NEW mask \in Nat,
             NEW route \in {Direct, FloodRoute(b), RouteTo(b, d)},
             Originate(b, Packet(kind, b, c, route, mask))
      PROVE  FloodIInv'
  <2>1. /\ route.flood \in BOOLEAN /\ route.region \in Regions
        /\ route.region # NoRegion => RegionOf[b] = route.region
    BY RouteRegion
  <2>2. PICK pk : pk = Packet(kind, b, c, route, mask)
    OBVIOUS
  <2>3. pk \in Pkt /\ pk.from = b /\ (pk.region # NoRegion => RegionOf[b] = pk.region)
    BY <2>1, <2>2, PacketType
  <2> QED
    BY <1>1, <2>2, <2>3, OriginateInv
<1>2. ASSUME NEW b \in Badges, Advert(b) PROVE FloodIInv'
  <2>1. "advert" \in FloodKinds /\ 0 \in Nat /\ FloodRoute(b) \in {Direct, FloodRoute(b), RouteTo(b, b)}
    BY DEF FloodKinds
  <2>2. Originate(b, Packet("advert", b, b, FloodRoute(b), 0))
    BY <1>2 DEF Advert
  <2> QED
    BY <1>1, <2>1, <2>2
<1>3. ASSUME NEW b \in Badges, NEW k \in {"advert", "control"}, ZeroHop(b, k) PROVE FloodIInv'
  <2>1. k \in FloodKinds /\ 0 \in Nat /\ Direct \in {Direct, FloodRoute(b), RouteTo(b, b)}
    BY DEF FloodKinds
  <2>2. Originate(b, Packet(k, b, b, Direct, 0))
    BY <1>3 DEF ZeroHop
  <2> QED
    BY <1>1, <2>1, <2>2
<1>4. ASSUME NEW b \in Badges, NEW c \in Badges, NEW mask \in {0, 1}, AskContact(b, c, mask)
      PROVE  FloodIInv'
  <2>1. "req" \in FloodKinds /\ mask \in Nat /\ RouteTo(b, c) \in {Direct, FloodRoute(b), RouteTo(b, c)}
    BY DEF FloodKinds
  <2>2. Originate(b, Packet("req", b, c, RouteTo(b, c), mask))
    BY <1>4 DEF AskContact
  <2> QED
    BY <1>1, <2>1, <2>2
<1>5. ASSUME NEW b \in Badges, NEW c \in Badges, SendTxt(b, c) PROVE FloodIInv'
  <2>1. "txt" \in FloodKinds /\ 0 \in Nat /\ RouteTo(b, c) \in {Direct, FloodRoute(b), RouteTo(b, c)}
    BY DEF FloodKinds
  <2>2. Originate(b, Packet("txt", b, c, RouteTo(b, c), 0))
    BY <1>5 DEF SendTxt
  <2> QED
    BY <1>1, <2>1, <2>2
<1>6. CASE UNCHANGED floodVars
  <2>1. UNCHANGED <<pkts, relayq, relaySeen, sentBy>>
    BY <1>6 DEF floodVars
  <2>2. FloodTypeOK' /\ SeenExists' /\ UnsentYet'
    BY <2>1 DEF FloodIInv, FloodTypeOK, SeenExists, UnsentYet
  <2>3. AllInPlace'
    BY <2>1 DEF FloodIInv, AllInPlace, InPlace
  <2>4. \A b \in Badges : \A p : OwnRight(b, p)' = OwnRight(b, p) /\ RelayRight(b, p)' = RelayRight(b, p)
    BY <2>1 DEF OwnRight, RelayRight
  <2>5. \A b \in Badges : \A x : Walked(b, x) => Walked(b, x)'
    BY <2>1 DEF Walked
  <2>6. Unwrapped'
    BY <2>1, <2>4, <2>5 DEF FloodIInv, Unwrapped, NotWrapped, SeenOnce
  <2> QED
    BY <2>2, <2>3, <2>6 DEF FloodIInv
<1> QED
  BY <1>2, <1>3, <1>4, <1>5, <1>6, RelaysInv DEF FloodNext

(* Floods end, keep to their region and tell the way they came, over any    *)
(* number of badges, links, regions and packets (repeater.rs:3-68,          *)
(* meshcore.rs:375-410).                                                    *)
THEOREM FloodsSound == FloodSpec => []FloodsAreSound
<1>1. FloodIInv => FloodsAreSound
  <2> SUFFICES ASSUME FloodIInv PROVE FloodsAreSound
    OBVIOUS
  <2>1. pkts \in Seq(Pkt) /\ DOMAIN pkts = 1..Len(pkts) /\ Len(pkts) \in Nat
    BY DEF FloodIInv, FloodTypeOK
  <2>2. \A b \in Badges : relayq[b] \in Seq(CopyT) /\ DOMAIN relayq[b] = 1..Len(relayq[b])
    BY DEF FloodIInv, FloodTypeOK
  <2>3. FloodsDieOut
    <3> SUFFICES ASSUME NotWrapped, NEW b \in Badges, NEW p \in 1..Len(pkts)
                 PROVE  sentBy[<<b, p>>] <= (IF b = pkts[p].from THEN 1 ELSE 0)
                            + (IF pkts[p].flood /\ b \in Repeaters THEN 1 ELSE 0)
      BY <2>1 DEF FloodsDieOut, NotWrapped
    <3>1. sentBy[<<b, p>>] <= OwnRight(b, p) + RelayRight(b, p)
      BY DEF FloodIInv, Unwrapped
    <3>2. p \in 1..MaxPackets
      BY <2>1, FloodConstants DEF FloodIInv, FloodTypeOK
    <3>3. sentBy[<<b, p>>] \in Nat
      BY <3>2 DEF FloodIInv, FloodTypeOK
    <3>4. OwnRight(b, p) \in {0, 1} /\ RelayRight(b, p) \in {0, 1}
      BY DEF OwnRight, RelayRight
    <3>5. b # pkts[p].from => OwnRight(b, p) = 0
      BY DEF OwnRight
    <3>6. ~(pkts[p].flood /\ b \in Repeaters) => RelayRight(b, p) = 0
      BY DEF RelayRight
    <3> QED
      BY <3>1, <3>3, <3>4, <3>5, <3>6
  <2>4. RegionsStayApart
    BY <2>2 DEF RegionsStayApart, FloodIInv, AllInPlace, InPlace
  <2>5. PathsAreWalks
    <3> SUFFICES ASSUME NotWrapped, NEW b \in Badges, NEW i \in 1..Len(relayq[b])
                 PROVE  LET path == relayq[b][i].path
                            walk == IF path = << >> THEN path ELSE <<pkts[relayq[b][i].pkt].from>> \o path
                        IN  /\ Len(path) <= MaxHops /\ IsInjective(path)
                            /\ \A k \in 1..Len(walk) - 1 : {walk[k], walk[k + 1]} \in Links
                            /\ path # << >> => Last(path) = b
      BY <2>2 DEF PathsAreWalks, NotWrapped
    <3> DEFINE path == relayq[b][i].path
               from == pkts[relayq[b][i].pkt].from
               walk == IF path = << >> THEN path ELSE <<from>> \o path
    <3>1. Walked(b, relayq[b][i]) /\ relayq[b][i] \in CopyT
      BY <2>2 DEF FloodIInv, Unwrapped
    <3>2. path \in Seq(Badges) /\ Len(path) \in Nat
      BY <3>1 DEF CopyT
    <3>3. /\ Len(path) <= MaxHops /\ IsInjective(path)
          /\ path # << >> => path[Len(path)] = b /\ {from, path[1]} \in Links
          /\ \A k \in 1..Len(path) - 1 : {path[k], path[k + 1]} \in Links
      BY <3>1 DEF Walked
    <3> HIDE DEF path, from
    <3>4. \A k \in 1..Len(walk) - 1 : {walk[k], walk[k + 1]} \in Links
      <4>1. CASE path = << >>
        BY <4>1
      <4>2. CASE path # << >>
        <5>1. from \in Badges
          <6>1. relayq[b][i].pkt \in 1..Len(pkts)
            BY DEF FloodIInv, AllInPlace, InPlace
          <6> QED
            <7>1. pkts[relayq[b][i].pkt] \in Pkt
              BY <2>1, <6>1
            <7> QED
              BY <7>1 DEF from, Pkt
        <5>2. <<from>> \in Seq(Badges) /\ Len(<<from>>) = 1
          BY <5>1
        <5>3. /\ walk = <<from>> \o path /\ Len(walk) = 1 + Len(path)
              /\ \A k \in 1..1 + Len(path) : walk[k] = IF k <= 1 THEN <<from>>[k] ELSE path[k - 1]
          BY <3>2, <4>2, <5>2, ConcatProperties, Zenon
        <5> HIDE DEF walk
        <5>4. ASSUME NEW k \in 1..Len(walk) - 1 PROVE {walk[k], walk[k + 1]} \in Links
          <6>1. CASE k = 1
            <7>1. walk[k] = from /\ walk[k + 1] = path[1]
              BY <3>2, <5>3, <6>1
            <7>2. {from, path[1]} \in Links
              BY <3>3, <4>2
            <7> QED
              BY <7>1, <7>2
          <6>2. CASE k # 1
            <7>1. k - 1 \in 1..Len(path) - 1 /\ walk[k] = path[k - 1] /\ walk[k + 1] = path[k]
              BY <3>2, <5>3, <6>2
            <7>2. {path[k - 1], path[(k - 1) + 1]} \in Links /\ (k - 1) + 1 = k
              BY <3>3, <7>1
            <7> QED
              BY <7>1, <7>2
          <6> QED
            BY <6>1, <6>2
        <5> QED
          BY <5>4
      <4> QED
        BY <4>1, <4>2
    <3> QED
      BY <3>3, <3>4 DEF Last, path, from
  <2> QED
    BY <2>3, <2>4, <2>5 DEF FloodsAreSound
<1> QED
  BY <1>1, FloodInitInv, FloodNextInv, PTL DEF FloodSpec
(***************************************************************************)
(* Channels.                                                               *)
(***************************************************************************)

(* A list of whatever: what Append and Tail need to know of it.             *)
Listed(s) == Len(s) \in Nat /\ s = [i \in 1..Len(s) |-> s[i]]

Stages == {"init", "seed", "shdw", "load", "up", "clear"}

ChanTyped ==
    /\ store = [s \in ChannelSlots |-> store[s]]
    /\ boot \in [stage : Stages, i : Nat, found : Nat]
    /\ touched \in [ever : SUBSET ChannelSlots, now : SUBSET ChannelSlots]
    /\ Listed(msgs) /\ Len(msgs) <= MaxChanMsgs
    /\ Listed(chanTx) /\ Listed(seen) /\ Listed(ring) /\ Listed(toApp)

(* The private channel is in its slot from the moment boot has made sure of *)
(* it.                                                                      *)
GameInv == boot.stage = "load" \/ (Up /\ ShdwSlot \notin touched.now) => store[ShdwSlot] = "SHDW"

(* Every list holds messages there are; one that waits to be sent is one's  *)
(* own, waits once and was not sent yet.                                    *)
ListsInv ==
    /\ \A i \in 1..Len(chanTx) : chanTx[i] \in 1..Len(msgs) /\ msgs[chanTx[i]].own
    /\ \A i \in 1..Len(chanTx) : chanTx[i] \notin ownSent
    /\ \A i, j \in 1..Len(chanTx) : chanTx[i] = chanTx[j] => i = j
    /\ \A m \in ownSent : m \in 1..Len(msgs) /\ msgs[m].own
    /\ \A i \in 1..Len(seen) : seen[i] \in 1..Len(msgs)
    /\ \A i \in 1..Len(ring) : ring[i].id \in 1..Len(msgs)
    /\ \A i \in 1..Len(toApp) : toApp[i] \in 1..Len(msgs)

(* As long as MSG_SEEN did not have to forget: what was sent or passed on   *)
(* is seen, and an own message is seen only when it was sent.               *)
SeenInv ==
    Len(msgs) <= SeenCap =>
        /\ Len(seen) = Cardinality(ToSet(seen))
        /\ \A m \in ownSent : m \in ToSet(seen)
        /\ \A m \in ToSet(seen) : msgs[m].own => m \in ownSent
        /\ \A i \in 1..Len(toApp) : toApp[i] \in ToSet(seen) /\ ~msgs[toApp[i]].own
        /\ \A i, j \in 1..Len(toApp) : toApp[i] = toApp[j] => i = j

ChanIInv == ChanTyped /\ GameInv /\ ListsInv /\ SeenInv

LEMMA LeastNatural ==
  ASSUME NEW S \in SUBSET Nat, S # {}
  PROVE  \E x \in S : \A y \in S : x <= y
<1>1. PICK m \in S : TRUE
  OBVIOUS
<1> DEFINE low == {x \in S : x <= m}
           down == {0 .. x : x \in low}
<1>2. IsWellFoundedOn(StrictSubsetOrdering(0 .. m), SUBSET (0 .. m))
  <2>1. IsFiniteSet(0 .. m)
    BY FS_Interval
  <2>2. FiniteSubsetsOf(0 .. m) = SUBSET (0 .. m)
    BY <2>1, FS_FiniteSubsetsOfFinite
  <2> QED
    BY <2>2, FS_StrictSubsetOrderingWellFounded, Zenon
<1>3. down \subseteq SUBSET (0 .. m) /\ down # {}
  BY <1>1
<1>4. PICK d \in down :
        \A e \in down : <<e, d>> \notin StrictSubsetOrdering(0 .. m)
  BY <1>2, <1>3, WFMin
<1>5. PICK x \in low : d = 0 .. x
  BY <1>4
<1>6. \A y \in low : ~(y < x)
  <2> SUFFICES ASSUME NEW y \in low, y < x PROVE FALSE
    OBVIOUS
  <2>1. 0 .. y \subseteq 0 .. x /\ x \notin 0 .. y /\ x \in 0 .. x
    OBVIOUS
  <2>2. 0 .. y \in down
    OBVIOUS
  <2>3. <<0 .. y, d>> \in StrictSubsetOrdering(0 .. m)
    BY <2>1, <2>2, <1>5, <1>3, <1>4 DEF StrictSubsetOrdering
  <2> QED
    BY <2>2, <2>3, <1>4
<1> QED
  BY <1>1, <1>6

LEMMA ChanSizes ==
    /\ NumChannels \in Nat \ {0} /\ SeenCap \in Nat \ {0} /\ RingSize \in Nat \ {0}
    /\ ShdwSlot \in ChannelSlots /\ MaxChanMsgs \in Nat
BY ChannelConstants DEF ChannelSlots

LEMMA ListedIsSeq ==
    ASSUME NEW s, Listed(s), NEW x
    PROVE  s \in Seq({s[i] : i \in 1..Len(s)} \union {x})
<1>1. s = [i \in 1..Len(s) |-> s[i]]
  BY DEF Listed
<1>2. \A i \in 1..Len(s) : s[i] \in {s[j] : j \in 1..Len(s)} \union {x}
  OBVIOUS
<1> QED
  BY <1>1, <1>2, IsASeq DEF Listed

LEMMA AppendListed ==
    ASSUME NEW s, Listed(s), NEW x
    PROVE  /\ Listed(Append(s, x)) /\ Len(Append(s, x)) = Len(s) + 1
           /\ \A i \in 1..Len(s) : Append(s, x)[i] = s[i]
           /\ Append(s, x)[Len(s) + 1] = x
<1> DEFINE S == {s[i] : i \in 1..Len(s)} \union {x}
<1>1. s \in Seq(S) /\ x \in S
  BY ListedIsSeq
<1>2. /\ Append(s, x) \in Seq(S) /\ Len(Append(s, x)) = Len(s) + 1
      /\ \A i \in 1..Len(s) : Append(s, x)[i] = s[i]
      /\ Append(s, x)[Len(s) + 1] = x
  BY <1>1, AppendProperties
<1>3. Listed(Append(s, x))
  BY <1>2, LenProperties, SeqDef DEF Listed
<1> QED
  BY <1>2, <1>3

LEMMA TailListed ==
    ASSUME NEW s, Listed(s), s # << >>
    PROVE  /\ Listed(Tail(s)) /\ Len(Tail(s)) = Len(s) - 1 /\ Len(s) > 0
           /\ \A i \in 1..Len(Tail(s)) : Tail(s)[i] = s[i + 1]
           /\ Head(s) = s[1]
<1> DEFINE S == {s[i] : i \in 1..Len(s)} \union {0}
<1>1. s \in Seq(S)
  BY ListedIsSeq
<1>2. /\ Tail(s) \in Seq(S) /\ Len(Tail(s)) = Len(s) - 1
      /\ \A i \in 1..Len(Tail(s)) : Tail(s)[i] = s[i + 1]
  BY <1>1, HeadTailProperties
<1>3. Listed(Tail(s))
  BY <1>2, LenProperties, SeqDef DEF Listed
<1>4. Len(s) > 0 /\ Head(s) = s[1]
  BY <1>1, EmptySeq, LenProperties
<1> QED
  BY <1>2, <1>3, <1>4

(* A ring that is pushed to holds the new entry and older ones.             *)
LEMMA PushedListed ==
    ASSUME NEW s, Listed(s), NEW x, NEW cap \in Nat \ {0}
    PROVE  /\ Listed(Pushed(s, x, cap))
           /\ \A i \in 1..Len(Pushed(s, x, cap)) :
                 Pushed(s, x, cap)[i] = x \/ \E j \in 1..Len(s) : Pushed(s, x, cap)[i] = s[j]
<1> DEFINE kept == IF Len(s) = cap THEN Tail(s) ELSE s
<1>1. Listed(kept) /\ \A i \in 1..Len(kept) : \E j \in 1..Len(s) : kept[i] = s[j]
  <2>1. CASE Len(s) = cap
    <3>1. s # << >>
      BY <2>1, EmptySeq
    <3>2. \A i \in 1..Len(Tail(s)) : i + 1 \in 1..Len(s)
      BY <3>1, TailListed DEF Listed
    <3> QED
      BY <2>1, <3>1, <3>2, TailListed
  <2>2. CASE Len(s) # cap
    BY <2>2
  <2> QED
    BY <2>1, <2>2
<1>2. Pushed(s, x, cap) = Append(kept, x)
  BY DEF Pushed
<1> HIDE DEF kept
<1>3. /\ Listed(Append(kept, x)) /\ Len(Append(kept, x)) = Len(kept) + 1
      /\ \A i \in 1..Len(kept) : Append(kept, x)[i] = kept[i]
      /\ Append(kept, x)[Len(kept) + 1] = x
  BY <1>1, AppendListed
<1>4. Len(kept) \in Nat
  BY <1>1 DEF Listed
<1>5. ASSUME NEW i \in 1..Len(kept) + 1 PROVE i \in 1..Len(kept) \/ i = Len(kept) + 1
  BY <1>4
<1>6. ASSUME NEW i \in 1..Len(kept) + 1
      PROVE  Append(kept, x)[i] = x \/ \E j \in 1..Len(s) : Append(kept, x)[i] = s[j]
  BY <1>1, <1>3, <1>5
<1> QED
  BY <1>2, <1>3, <1>6

(* Seeing a message for the first time, before the ring is full.            *)
LEMMA SeenOnceMore ==
    ASSUME NEW n \in Nat, NEW m \in 1..n, NEW s, Listed(s), NEW cap \in Nat, n <= cap,
           \A i \in 1..Len(s) : s[i] \in 1..n, m \notin ToSet(s),
           Len(s) = Cardinality(ToSet(s))
    PROVE  /\ ToSet(Pushed(s, m, cap)) = ToSet(s) \union {m}
           /\ Len(Pushed(s, m, cap)) = Cardinality(ToSet(Pushed(s, m, cap)))
<1>0. Len(s) \in Nat
  BY DEF Listed
<1>1. ToSet(s) = {s[i] : i \in 1..Len(s)}
  BY DEF ToSet, Listed
<1>2. IsFiniteSet(1..n) /\ Cardinality(1..n) = n
  <2>1. 1 \in Int /\ n \in Int
    OBVIOUS
  <2>2. IsFiniteSet(1..n) /\ Cardinality(1..n) = IF 1 > n THEN 0 ELSE n - 1 + 1
    BY <2>1, FS_Interval
  <2> QED
    BY <2>2
<1>3. ToSet(s) \union {m} \subseteq 1..n
  BY <1>1
<1>4. /\ IsFiniteSet(ToSet(s)) /\ IsFiniteSet(ToSet(s) \union {m})
      /\ Cardinality(ToSet(s) \union {m}) <= n
  BY <1>2, <1>3, FS_Subset
<1>5. Cardinality(ToSet(s) \union {m}) = Cardinality(ToSet(s)) + 1
  BY <1>4, FS_AddElement
<1>6. Len(s) # cap
  BY <1>0, <1>4, <1>5
<1>7. Pushed(s, m, cap) = Append(s, m)
  BY <1>6 DEF Pushed
<1>8. /\ Listed(Append(s, m)) /\ Len(Append(s, m)) = Len(s) + 1
      /\ \A i \in 1..Len(s) : Append(s, m)[i] = s[i]
      /\ Append(s, m)[Len(s) + 1] = m
  BY AppendListed
<1>9. DOMAIN Append(s, m) = 1..Len(s) + 1 /\ DOMAIN s = 1..Len(s)
  BY <1>8 DEF Listed
<1>10. ToSet(Append(s, m)) = ToSet(s) \union {m}
  <2>1. ASSUME NEW x \in ToSet(Append(s, m)) PROVE x \in ToSet(s) \union {m}
    <3>1. PICK i \in 1..Len(s) + 1 : x = Append(s, m)[i]
      BY <1>9 DEF ToSet
    <3>2. i \in 1..Len(s) \/ i = Len(s) + 1
      BY <1>0, <3>1
    <3> QED
      BY <1>1, <1>8, <3>1, <3>2
  <2>2. ASSUME NEW x \in ToSet(s) PROVE x \in ToSet(Append(s, m))
    <3>1. PICK i \in 1..Len(s) : x = s[i]
      BY <1>1
    <3>2. i \in 1..Len(s) + 1
      BY <1>0, <3>1
    <3> QED
      BY <1>8, <1>9, <3>1, <3>2 DEF ToSet
  <2>3. m \in ToSet(Append(s, m))
    <3>1. Len(s) + 1 \in 1..Len(s) + 1
      BY <1>0
    <3> QED
      BY <1>8, <1>9, <3>1 DEF ToSet
  <2> QED
    BY <2>1, <2>2, <2>3
<1> QED
  BY <1>5, <1>7, <1>8, <1>10

LEMMA ListedEmpty == Listed(<< >>) /\ Len(<< >>) = 0 /\ ToSet(<< >>) = {}
<1>1. Len(<< >>) = 0 /\ << >> \in Seq({})
  BY EmptySeq
<1>2. << >> = [i \in 1..0 |-> << >>[i]]
  BY <1>1, SeqDef
<1>3. DOMAIN << >> = {}
  BY <1>1, <1>2
<1> QED
  BY <1>1, <1>2, <1>3 DEF Listed, ToSet

LEMMA EmptyLists ==
    ASSUME msgs = << >>, chanTx = << >>, seen = << >>, ring = << >>, toApp = << >>, ownSent = {}
    PROVE  ListsInv /\ SeenInv
<1>1. Cardinality({}) = 0 /\ 1..0 = {}
  BY FS_EmptySet
<1>2. /\ Len(chanTx) = 0 /\ Len(seen) = 0 /\ Len(ring) = 0 /\ Len(toApp) = 0
      /\ ToSet(seen) = {}
  BY ListedEmpty
<1>3. ListsInv
  BY <1>1, <1>2 DEF ListsInv
<1>4. SeenInv
  BY <1>1, <1>2 DEF SeenInv
<1> QED
  BY <1>3, <1>4

LEMMA ChanInitInv == ChanInit => ChanIInv
<1> SUFFICES ASSUME ChanInit PROVE ChanIInv
  OBVIOUS
<1>1. ChanTyped
  BY ListedEmpty, ChanSizes DEF ChanInit, ChanTyped, BootStart, Stages
<1>2. GameInv
  BY DEF ChanInit, GameInv, BootStart, Up
<1>3. ListsInv /\ SeenInv
  BY EmptyLists DEF ChanInit
<1> QED
  BY <1>1, <1>2, <1>3 DEF ChanIInv

LEMMA ListsRest ==
    ASSUME ListsInv, SeenInv, UNCHANGED <<msgs, chanTx, ownSent, seen, ring, toApp>>
    PROVE  ListsInv' /\ SeenInv'
BY DEF ListsInv, SeenInv

(* Boot, and the reset of the channels.                                     *)
LEMMA BootInv ==
    ASSUME ChanIInv, BootSteps \/ ListenerStarts \/ ChannelReset \/ ResetSlot \/ ResetSeeds
    PROVE  ChanIInv'
<1> USE DEF ChanIInv
<1>1. UNCHANGED <<msgs, chanTx, ownSent, seen, ring, toApp>>
  BY DEF BootSteps, ListenerStarts, ChannelReset, ResetSlot, ResetSeeds, history
<1>2. ListsInv' /\ SeenInv'
  BY <1>1, ListsRest
<1>3. touched' \in [ever : SUBSET ChannelSlots, now : SUBSET ChannelSlots]
  BY DEF ChanTyped, BootSteps, ListenerStarts, ChannelReset, ResetSlot, ResetSeeds, history
<1>4. \A v, d : Stored(d, v) => store' = [s \in ChannelSlots |-> store'[s]]
  BY DEF ChanTyped, Stored
<1>5. store' = [s \in ChannelSlots |-> store'[s]]
  <2>1. store' = store \/ \E v, d : Stored(d, v)
    BY DEF BootSteps, InitSlot, InitDone, SeedDefault, EnsureShdw, ListenerStarts, ChannelReset,
           ResetSlot, ResetSeeds
  <2> QED
    BY <1>4, <2>1 DEF ChanTyped
<1>6. /\ boot' \in [stage : Stages, i : Nat, found : Nat]
      /\ GameInv'
  <2> USE DEF ChanTyped, Stages, GameInv, Up
  <2>1. CASE BootSteps
    <3>1. CASE InitSlot
      <4>1. \/ boot' = [boot EXCEPT !.i = @ + 1]
            \/ boot' = [boot EXCEPT !.i = @ + 1, !.found = @ + 1]
        BY <3>1 DEF InitSlot
      <4>2. boot.stage = "init" /\ boot'.stage = "init"
        BY <3>1, <4>1 DEF InitSlot
      <4>3. boot \in [stage : Stages, i : Nat, found : Nat]
        OBVIOUS
      <4>4. boot' \in [stage : Stages, i : Nat, found : Nat]
        <5> HIDE DEF ChanTyped, Stages, GameInv, Up, ChanIInv
        <5>0. /\ boot = [stage |-> boot.stage, i |-> boot.i, found |-> boot.found]
              /\ boot.stage \in Stages /\ boot.i + 1 \in Nat /\ boot.i \in Nat
              /\ boot.found + 1 \in Nat /\ boot.found \in Nat
          BY <4>3
        <5>1. boot' = [boot EXCEPT !.i = @ + 1] => boot' \in [stage : Stages, i : Nat, found : Nat]
          BY <4>3
        <5>2. boot' = [boot EXCEPT !.i = @ + 1, !.found = @ + 1]
              => boot' \in [stage : Stages, i : Nat, found : Nat]
          <6> SUFFICES ASSUME boot' = [boot EXCEPT !.i = @ + 1, !.found = @ + 1]
                       PROVE  boot' \in [stage : Stages, i : Nat, found : Nat]
            OBVIOUS
          <6>1. boot' = [stage |-> boot.stage, i |-> boot.i + 1, found |-> boot.found + 1]
            BY <5>0
          <6> QED
            BY <5>0, <6>1
        <5> QED
          BY <4>1, <5>1, <5>2
      <4> QED
        BY <4>2, <4>4
    <3>2. CASE InitDone
      BY <3>2 DEF InitDone
    <3>3. CASE SeedDefault
      BY <3>3 DEF SeedDefault
    <3>4. CASE EnsureShdw
      <4>1. boot'.stage = "load" /\ boot' \in [stage : Stages, i : Nat, found : Nat]
        BY <3>4 DEF EnsureShdw
      <4>2. store'[ShdwSlot] = "SHDW"
        BY <3>4, ChanSizes DEF EnsureShdw, Stored
      <4> QED
        BY <4>1, <4>2
    <3> QED
      BY <2>1, <3>1, <3>2, <3>3, <3>4 DEF BootSteps
  <2>2. CASE ListenerStarts
    BY <2>2 DEF ListenerStarts
  <2>3. CASE ChannelReset
    BY <2>3 DEF ChannelReset
  <2>4. CASE ResetSlot
    BY <2>4 DEF ResetSlot
  <2>5. CASE ResetSeeds
    BY <2>5 DEF ResetSeeds
  <2> QED
    BY <2>1, <2>2, <2>3, <2>4, <2>5
<1>7. ChanTyped'
  BY <1>1, <1>3, <1>5, <1>6 DEF ChanTyped
<1> QED
  BY <1>2, <1>6, <1>7

LEMMA BootsInv == ASSUME ChanIInv, Boots PROVE ChanIInv'
<1>1. /\ msgs' = << >> /\ chanTx' = << >> /\ seen' = << >> /\ ring' = << >> /\ toApp' = << >>
      /\ ownSent' = {} /\ boot' = BootStart /\ store' = store
      /\ touched' = [touched EXCEPT !.now = {}]
  BY DEF Boots
<1>2. ListsInv' /\ SeenInv'
  <2>1. Cardinality({}) = 0 /\ 1..0 = {}
    BY FS_EmptySet
  <2>2. /\ Len(chanTx') = 0 /\ Len(seen') = 0 /\ Len(ring') = 0 /\ Len(toApp') = 0
        /\ ToSet(seen') = {}
    BY <1>1, ListedEmpty
  <2>3. ListsInv'
    BY <1>1, <2>1, <2>2 DEF ListsInv
  <2>4. SeenInv'
    BY <1>1, <2>1, <2>2 DEF SeenInv
  <2> QED
    BY <2>3, <2>4
<1>3. ChanTyped'
  BY <1>1, ListedEmpty, ChanSizes DEF ChanTyped, ChanIInv, BootStart, Stages
<1>4. GameInv'
  BY <1>1 DEF GameInv, BootStart, Up
<1> QED
  BY <1>2, <1>3, <1>4 DEF ChanIInv

LEMMA SetChannelInv ==
    ASSUME ChanIInv, NEW s \in ChannelSlots, NEW n, SetChannel(s, n)
    PROVE  ChanIInv'
<1> USE DEF ChanIInv, SetChannel
<1>1. ListsInv' /\ SeenInv'
  BY ListsRest
<1>2. ChanTyped'
  BY DEF ChanTyped, Stored
<1>3. GameInv'
  <2>1. s = ShdwSlot => ShdwSlot \in touched'.now
    OBVIOUS
  <2>2. s # ShdwSlot => store'[ShdwSlot] = store[ShdwSlot]
    BY ChanSizes DEF ChanTyped, Stored
  <2>3. ShdwSlot \notin touched'.now => ShdwSlot \notin touched.now
    OBVIOUS
  <2> QED
    BY <2>1, <2>2, <2>3 DEF GameInv, Up
<1> QED
  BY <1>1, <1>2, <1>3

LEMMA QuietInv ==
    ASSUME ChanIInv,
           \/ Connection \/ LoopTop \/ RxEnds \/ \E btn \in {"Up", "Down", "Fire", "Cancel"} : BrowserPress(btn)
           \/ UNCHANGED chanVars
    PROVE  ChanIInv'
<1>1. UNCHANGED <<store, boot, touched, msgs, chanTx, ownSent, seen, ring, toApp>>
  BY DEF Connection, LoopTop, RxEnds, BrowserPress, history, chanVars
<1>2. ListsInv' /\ SeenInv'
  BY <1>1, ListsRest DEF ChanIInv
<1> QED
  BY <1>1, <1>2 DEF ChanIInv, ChanTyped, GameInv, Up

LEMMA SubmitInv ==
    ASSUME ChanIInv, NEW s \in ChannelSlots, Submit(s)
    PROVE  ChanIInv'
<1> DEFINE m == Len(msgs) + 1
           msg == [slot |-> s, name |-> store[s], own |-> TRUE]
<1> USE DEF ChanIInv
<1>0. Listed(msgs) /\ Listed(chanTx) /\ Len(msgs) \in Nat /\ Len(chanTx) \in Nat
  BY DEF ChanTyped, Listed
<1>1. /\ msgs' = Append(msgs, msg) /\ Listed(msgs') /\ Len(msgs') = m
      /\ \A i \in 1..Len(msgs) : msgs'[i] = msgs[i]
      /\ msgs'[m] = msg
  BY <1>0, AppendListed DEF Submit
<1>2. UNCHANGED <<store, boot, touched, ownSent, seen, ring, toApp>> /\ m <= MaxChanMsgs
  BY <1>0, ChanSizes DEF Submit
<1>3. \A i \in 1..Len(msgs) : i \in 1..m
  BY <1>0
<1>4. \/ chanTx' = chanTx
      \/ /\ chanTx' = Append(chanTx, m) /\ Listed(chanTx') /\ Len(chanTx') = Len(chanTx) + 1
         /\ \A i \in 1..Len(chanTx) : chanTx'[i] = chanTx[i]
         /\ chanTx'[Len(chanTx) + 1] = m
  BY <1>0, AppendListed DEF Submit
<1>5. m \notin 1..Len(msgs) /\ m \in 1..m
  BY <1>0
<1>6. msgs'[m].own
  BY <1>1
<1> HIDE DEF m, msg
<1>7. ChanTyped'
  BY <1>0, <1>1, <1>2, <1>4 DEF ChanTyped
<1>8. GameInv'
  BY <1>2 DEF GameInv, Up
<1>9. /\ \A i \in 1..Len(chanTx') : chanTx'[i] \in 1..Len(msgs') /\ msgs'[chanTx'[i]].own
      /\ \A i \in 1..Len(chanTx') : chanTx'[i] \notin ownSent'
      /\ \A i, j \in 1..Len(chanTx') : chanTx'[i] = chanTx'[j] => i = j
  <2>1. CASE chanTx' = chanTx
    BY <1>1, <1>2, <1>3, <2>1 DEF ListsInv
  <2>2. CASE chanTx' # chanTx
    <3>1. ASSUME NEW i \in 1..Len(chanTx') PROVE i \in 1..Len(chanTx) \/ (i = Len(chanTx) + 1 /\ chanTx'[i] = m)
      BY <1>0, <1>4, <2>2
    <3>2. ASSUME NEW i \in 1..Len(chanTx)
          PROVE  /\ chanTx'[i] = chanTx[i] /\ chanTx[i] \in 1..Len(msgs) /\ msgs[chanTx[i]].own
                 /\ chanTx[i] \notin ownSent
      BY <1>4, <2>2 DEF ListsInv
    <3>3. m \notin ownSent
      BY <1>5 DEF ListsInv
    <3>4. ASSUME NEW i \in 1..Len(chanTx')
          PROVE  chanTx'[i] \in 1..Len(msgs') /\ msgs'[chanTx'[i]].own /\ chanTx'[i] \notin ownSent'
      BY <1>1, <1>2, <1>3, <1>5, <1>6, <3>1, <3>2, <3>3
    <3>5. ASSUME NEW i \in 1..Len(chanTx'), NEW j \in 1..Len(chanTx'), chanTx'[i] = chanTx'[j]
          PROVE  i = j
      BY <1>5, <3>1, <3>2, <3>5 DEF ListsInv
    <3> QED
      BY <3>4, <3>5
  <2> QED
    BY <2>1, <2>2
<1>10. ListsInv'
  <2>1. /\ \A x \in ownSent' : x \in 1..Len(msgs') /\ msgs'[x].own
        /\ \A i \in 1..Len(seen') : seen'[i] \in 1..Len(msgs')
        /\ \A i \in 1..Len(ring') : ring'[i].id \in 1..Len(msgs')
        /\ \A i \in 1..Len(toApp') : toApp'[i] \in 1..Len(msgs')
    BY <1>1, <1>2, <1>3 DEF ListsInv
  <2> QED
    BY <1>9, <2>1 DEF ListsInv
<1>11. SeenInv'
  <2> SUFFICES ASSUME Len(msgs') <= SeenCap PROVE SeenInv'
    BY DEF SeenInv
  <2>1. Len(msgs) <= SeenCap
    BY <1>0, <1>1, ChanSizes DEF m
  <2>2. \A x \in ToSet(seen) : x \in 1..Len(msgs)
    BY DEF ListsInv, ToSet, ChanTyped, Listed
  <2> QED
    BY <1>1, <1>2, <2>1, <2>2 DEF SeenInv, ListsInv
<1> QED
  BY <1>7, <1>8, <1>10, <1>11

(* send_grp_txt: the head of the queue goes on the air, or is dropped.      *)
LEMMA DrainInv == ASSUME ChanIInv, Drain PROVE ChanIInv'
<1> USE DEF ChanIInv
<1>1. CASE chanTx = << >>
  <2>1. UNCHANGED <<store, boot, touched, msgs, chanTx, ownSent, seen, ring, toApp>>
    BY <1>1 DEF Drain, history
  <2>2. ListsInv' /\ SeenInv'
    BY <2>1, ListsRest
  <2> QED
    BY <2>1, <2>2 DEF ChanTyped, GameInv, Up
<1>2. CASE chanTx # << >>
  <2> DEFINE m == Head(chanTx)
  <2>1. /\ SendGrpTxt(m) /\ UNCHANGED <<store, boot, touched, msgs, toApp>>
        /\ chanTx' = Tail(chanTx)
    BY <1>2 DEF Drain, SendGrpTxt, history
  <2>2. /\ Listed(chanTx') /\ Len(chanTx') = Len(chanTx) - 1 /\ Len(chanTx) > 0
        /\ \A i \in 1..Len(chanTx') : chanTx'[i] = chanTx[i + 1]
        /\ m = chanTx[1] /\ Len(chanTx) \in Nat
    BY <1>2, <2>1, TailListed DEF ChanTyped, Listed
  <2>3. 1 \in 1..Len(chanTx) /\ \A i \in 1..Len(chanTx') : i + 1 \in 1..Len(chanTx) /\ i + 1 # 1
    BY <2>2
  <2>4. m \in 1..Len(msgs) /\ msgs[m].own /\ m \notin ownSent
    BY <2>2, <2>3 DEF ListsInv
  <2>5. /\ \A i \in 1..Len(chanTx') : chanTx'[i] \in 1..Len(msgs) /\ msgs[chanTx'[i]].own
        /\ \A i \in 1..Len(chanTx') : chanTx'[i] \notin ownSent /\ chanTx'[i] # m
    BY <2>2, <2>3 DEF ListsInv
  <2>6. \A i, j \in 1..Len(chanTx') : chanTx'[i] = chanTx'[j] => i = j
    <3> SUFFICES ASSUME NEW i \in 1..Len(chanTx'), NEW j \in 1..Len(chanTx'), chanTx'[i] = chanTx'[j]
                 PROVE  i = j
      OBVIOUS
    <3>1. i + 1 = j + 1
      BY <2>2, <2>3 DEF ListsInv
    <3> QED
      BY <2>2, <3>1
  <2>7. GameInv'
    BY <2>1 DEF GameInv, Up
  <2>8. CASE ~\E i \in DOMAIN table : table[i].slot = msgs[m].slot
    <3>1. UNCHANGED <<seen, ring, ownSent>>
      BY <2>1, <2>8 DEF SendGrpTxt
    <3>2. ChanTyped'
      BY <2>1, <2>2, <3>1 DEF ChanTyped
    <3>3. ListsInv'
      BY <2>1, <2>5, <2>6, <3>1 DEF ListsInv
    <3>4. SeenInv'
      BY <2>1, <3>1 DEF SeenInv
    <3> QED
      BY <2>7, <3>2, <3>3, <3>4
  <2>9. CASE \E i \in DOMAIN table : table[i].slot = msgs[m].slot
    <3>1. /\ seen' = Pushed(seen, m, SeenCap) /\ ring' = Pushed(ring, RingEntry(m, TRUE), RingSize)
          /\ ownSent' = ownSent \union {m}
      BY <2>1, <2>9 DEF SendGrpTxt
    <3>2. Listed(seen) /\ Listed(ring)
      BY DEF ChanTyped
    <3>3. /\ Listed(seen')
          /\ \A i \in 1..Len(seen') : seen'[i] = m \/ \E j \in 1..Len(seen) : seen'[i] = seen[j]
      BY <3>1, <3>2, PushedListed, ChanSizes
    <3> DEFINE e == RingEntry(m, TRUE)
    <3>5. e.id = m /\ ring' = Pushed(ring, e, RingSize)
      BY <3>1 DEF RingEntry
    <3> HIDE DEF e
    <3>4. /\ Listed(ring')
          /\ \A i \in 1..Len(ring') : ring'[i] = e \/ \E j \in 1..Len(ring) : ring'[i] = ring[j]
      BY <3>2, <3>5, PushedListed, ChanSizes
    <3>6. ChanTyped'
      BY <2>1, <2>2, <3>3, <3>4 DEF ChanTyped
    <3>7. ListsInv'
      <4>1. \A i \in 1..Len(ring') : ring'[i].id \in 1..Len(msgs')
        BY <2>1, <2>4, <3>4, <3>5 DEF ListsInv
      <4>2. \A i \in 1..Len(seen') : seen'[i] \in 1..Len(msgs')
        BY <2>1, <2>4, <3>3 DEF ListsInv
      <4>3. \A x \in ownSent' : x \in 1..Len(msgs') /\ msgs'[x].own
        BY <2>1, <2>4, <3>1 DEF ListsInv
      <4>4. \A i \in 1..Len(toApp') : toApp'[i] \in 1..Len(msgs')
        BY <2>1 DEF ListsInv
      <4>5. \A i \in 1..Len(chanTx') : chanTx'[i] \notin ownSent'
        BY <2>5, <3>1
      <4> QED
        BY <2>1, <2>5, <2>6, <4>1, <4>2, <4>3, <4>4, <4>5 DEF ListsInv
    <3>8. SeenInv'
      <4> SUFFICES ASSUME Len(msgs) <= SeenCap PROVE SeenInv'
        BY <2>1 DEF SeenInv
      <4>1. m \notin ToSet(seen)
        BY <2>4 DEF SeenInv
      <4>2. Len(msgs) \in Nat
        BY DEF ChanTyped, Listed
      <4>3. ToSet(seen') = ToSet(seen) \union {m} /\ Len(seen') = Cardinality(ToSet(seen'))
        BY <2>4, <3>1, <3>2, <4>1, <4>2, SeenOnceMore, ChanSizes DEF ListsInv, SeenInv
      <4> QED
        BY <2>1, <2>4, <3>1, <4>3 DEF SeenInv
    <3> QED
      BY <2>7, <3>6, <3>7, <3>8
  <2> QED
    BY <2>8, <2>9
<1> QED
  BY <1>1, <1>2

(* push_grp_txt: dropped, counted as a repeat, or taken.  A message heard   *)
(* for the first time is none of one's own.                                 *)
LEMMA TakeInv ==
    ASSUME ChanIInv, NEW m \in 1..Len(msgs'), NEW name, TakeGrpTxt(m, name),
           Listed(msgs'), Len(msgs') <= MaxChanMsgs, Len(msgs) <= Len(msgs'),
           \A i \in 1..Len(msgs) : i \in 1..Len(msgs') /\ msgs'[i] = msgs[i],
           msgs'[m].own => m \in ownSent
    PROVE  ChanIInv'
<1> USE DEF ChanIInv
<1>1. UNCHANGED <<store, boot, touched, chanTx, ownSent>>
  BY DEF TakeGrpTxt
<1>2. /\ Listed(seen) /\ Listed(ring) /\ Listed(toApp) /\ Listed(msgs)
      /\ Len(msgs) \in Nat /\ Len(msgs') \in Nat
  BY DEF ChanTyped, Listed
<1>3. GameInv'
  BY <1>1 DEF GameInv, Up
<1>4. /\ \A i \in 1..Len(chanTx') : chanTx'[i] \in 1..Len(msgs') /\ msgs'[chanTx'[i]].own
      /\ \A i \in 1..Len(chanTx') : chanTx'[i] \notin ownSent'
      /\ \A i, j \in 1..Len(chanTx') : chanTx'[i] = chanTx'[j] => i = j
      /\ \A x \in ownSent' : x \in 1..Len(msgs') /\ msgs'[x].own
  BY <1>1 DEF ListsInv
<1>5. \A i \in 1..Len(seen) : seen[i] \in 1..Len(msgs) /\ seen[i] \in 1..Len(msgs')
  BY DEF ListsInv
<1>6. \A x \in ToSet(seen) : x \in 1..Len(msgs)
  BY <1>2, <1>5 DEF ToSet, Listed
<1>7. \A i \in 1..Len(ring) : ring[i].id \in 1..Len(msgs')
  BY DEF ListsInv
<1>8. \A i \in 1..Len(toApp) : toApp[i] \in 1..Len(msgs) /\ toApp[i] \in 1..Len(msgs')
  BY DEF ListsInv
<1>9. CASE UNCHANGED <<seen, toApp>> /\ Listed(ring') /\ \A i \in 1..Len(ring') : ring'[i].id \in 1..Len(msgs')
  <2>1. ChanTyped'
    BY <1>1, <1>2, <1>9 DEF ChanTyped
  <2>2. ListsInv'
    BY <1>4, <1>5, <1>8, <1>9 DEF ListsInv
  <2>3. SeenInv'
    <3> SUFFICES ASSUME Len(msgs') <= SeenCap PROVE SeenInv'
      BY DEF SeenInv
    <3>1. Len(msgs) <= SeenCap
      BY <1>2, ChanSizes
    <3>2. \A x \in ToSet(seen) : msgs'[x] = msgs[x]
      BY <1>6
    <3>3. \A i \in 1..Len(toApp) : msgs'[toApp[i]] = msgs[toApp[i]]
      BY <1>8
    <3> QED
      BY <1>1, <1>9, <3>1, <3>2, <3>3 DEF SeenInv
  <2> QED
    BY <1>3, <2>1, <2>2, <2>3
<1>10. CASE \A i \in DOMAIN table : table[i].name # name
  <2>1. UNCHANGED <<seen, ring, toApp>>
    BY <1>10 DEF TakeGrpTxt
  <2> QED
    BY <1>2, <1>7, <1>9, <2>1
<1>11. CASE (~\A i \in DOMAIN table : table[i].name # name) /\ m \in ToSet(seen)
  <2>1. /\ UNCHANGED <<seen, toApp>>
        /\ ring' = [i \in DOMAIN ring |->
                      IF ring[i].id = m /\ ring[i].own /\ ring[i].repeats < MaxRepeats
                      THEN [ring[i] EXCEPT !.repeats = @ + 1] ELSE ring[i]]
    BY <1>11 DEF TakeGrpTxt
  <2>2. DOMAIN ring = 1..Len(ring)
    BY <1>2 DEF Listed
  <2> DEFINE e(i) == IF ring[i].id = m /\ ring[i].own /\ ring[i].repeats < MaxRepeats
                     THEN [ring[i] EXCEPT !.repeats = @ + 1] ELSE ring[i]
  <2>3. ring' = [i \in 1..Len(ring) |-> e(i)]
    BY <2>1, <2>2
  <2>4. \A i \in 1..Len(ring) : e(i).id \in 1..Len(msgs')
    <3> SUFFICES ASSUME NEW i \in 1..Len(ring) PROVE e(i).id \in 1..Len(msgs')
      OBVIOUS
    <3>1. CASE e(i) = ring[i]
      BY <1>7, <3>1
    <3>2. CASE e(i) = [ring[i] EXCEPT !.repeats = @ + 1] /\ ring[i].id = m
      <4>1. e(i).id = ring[i].id
        BY <3>2
      <4> QED
        BY <1>7, <4>1
    <3> QED
      BY <3>1, <3>2
  <2> HIDE DEF e
  <2>5. Listed(ring') /\ Len(ring') = Len(ring)
    <3>1. Len(ring) \in Nat
      BY <1>2 DEF Listed
    <3>2. ring' \in Seq({e(i) : i \in 1..Len(ring)})
      BY <2>3, <3>1, IsASeq
    <3>3. DOMAIN ring' = 1..Len(ring') /\ Len(ring') \in Nat
      BY <3>2, LenProperties
    <3>4. Len(ring') = Len(ring)
      <4>1. 1..Len(ring') = 1..Len(ring)
        BY <2>3, <3>3
      <4> QED
        BY <3>1, <3>3, <4>1
    <3> QED
      BY <2>3, <3>1, <3>4 DEF Listed
  <2>6. \A i \in 1..Len(ring') : ring'[i].id \in 1..Len(msgs')
    BY <2>3, <2>4, <2>5
  <2> QED
    BY <1>9, <2>1, <2>5, <2>6
<1>12. CASE (~\A i \in DOMAIN table : table[i].name # name) /\ m \notin ToSet(seen)
  <2>1. /\ seen' = Pushed(seen, m, SeenCap) /\ toApp' = Append(toApp, m)
        /\ \E i \in DOMAIN table :
              ring' = Pushed(ring, [id |-> m, slot |-> table[i].slot, own |-> FALSE,
                                    repeats |-> 0], RingSize)
    BY <1>12 DEF TakeGrpTxt
  <2>2. /\ Listed(seen')
        /\ \A i \in 1..Len(seen') : seen'[i] = m \/ \E j \in 1..Len(seen) : seen'[i] = seen[j]
    BY <1>2, <2>1, PushedListed, ChanSizes
  <2>3. Listed(ring') /\ \A i \in 1..Len(ring') : ring'[i].id \in 1..Len(msgs')
    <3>1. PICK i \in DOMAIN table :
              ring' = Pushed(ring, [id |-> m, slot |-> table[i].slot, own |-> FALSE,
                                    repeats |-> 0], RingSize)
      BY <2>1
    <3> DEFINE e == [id |-> m, slot |-> table[i].slot, own |-> FALSE, repeats |-> 0]
    <3>2. e.id = m /\ ring' = Pushed(ring, e, RingSize)
      BY <3>1
    <3> HIDE DEF e
    <3>3. /\ Listed(ring')
          /\ \A k \in 1..Len(ring') : ring'[k] = e \/ \E j \in 1..Len(ring) : ring'[k] = ring[j]
      BY <1>2, <3>2, PushedListed, ChanSizes
    <3> QED
      BY <1>7, <3>2, <3>3
  <2>4. /\ Listed(toApp') /\ Len(toApp') = Len(toApp) + 1
        /\ \A i \in 1..Len(toApp) : toApp'[i] = toApp[i]
        /\ toApp'[Len(toApp) + 1] = m
    BY <1>2, <2>1, AppendListed
  <2>5. \A i \in 1..Len(toApp') : i \in 1..Len(toApp) \/ (i = Len(toApp) + 1 /\ toApp'[i] = m)
    <3>1. Len(toApp) \in Nat
      BY <1>2 DEF Listed
    <3> QED
      BY <2>4, <3>1
  <2>6. ChanTyped'
    BY <1>1, <2>2, <2>3, <2>4 DEF ChanTyped
  <2>7. ListsInv'
    <3>1. \A i \in 1..Len(seen') : seen'[i] \in 1..Len(msgs')
      BY <1>5, <2>2
    <3>2. \A i \in 1..Len(toApp') : toApp'[i] \in 1..Len(msgs')
      BY <1>8, <2>4, <2>5
    <3> QED
      BY <1>4, <2>3, <3>1, <3>2 DEF ListsInv
  <2>8. SeenInv'
    <3> SUFFICES ASSUME Len(msgs') <= SeenCap PROVE SeenInv'
      BY DEF SeenInv
    <3>1. Len(msgs) <= SeenCap
      BY <1>2, ChanSizes
    <3>2. ToSet(seen') = ToSet(seen) \union {m} /\ Len(seen') = Cardinality(ToSet(seen'))
      <4>1. Len(seen) = Cardinality(ToSet(seen))
        BY <3>1 DEF SeenInv
      <4> QED
        BY <1>2, <1>5, <1>12, <2>1, <4>1, SeenOnceMore, ChanSizes
    <3>3. m \notin ownSent
      BY <1>12, <3>1 DEF SeenInv
    <3>4. \A x \in ToSet(seen') : msgs'[x].own => x \in ownSent'
      BY <1>1, <1>6, <3>1, <3>2 DEF SeenInv
    <3>5. \A x \in ownSent' : x \in ToSet(seen')
      BY <1>1, <3>1, <3>2 DEF SeenInv
    <3>6. \A i \in 1..Len(toApp) :
             toApp'[i] \in ToSet(seen) /\ ~msgs'[toApp'[i]].own /\ toApp'[i] # m
      BY <1>8, <1>12, <2>4, <3>1 DEF SeenInv
    <3>7. \A i \in 1..Len(toApp') : toApp'[i] \in ToSet(seen') /\ ~msgs'[toApp'[i]].own
      BY <2>5, <3>2, <3>3, <3>6
    <3>8. \A i, j \in 1..Len(toApp') : toApp'[i] = toApp'[j] => i = j
      <4> SUFFICES ASSUME NEW i \in 1..Len(toApp'), NEW j \in 1..Len(toApp'), toApp'[i] = toApp'[j]
                   PROVE  i = j
        OBVIOUS
      <4>1. CASE i \in 1..Len(toApp) /\ j \in 1..Len(toApp)
        BY <2>4, <3>1, <4>1 DEF SeenInv
      <4>2. CASE i \in 1..Len(toApp) /\ j = Len(toApp) + 1
        BY <2>4, <3>6, <4>2
      <4>3. CASE i = Len(toApp) + 1 /\ j \in 1..Len(toApp)
        BY <2>4, <3>6, <4>3
      <4> QED
        BY <2>5, <4>1, <4>2, <4>3
    <3> QED
      BY <3>2, <3>4, <3>5, <3>7, <3>8 DEF SeenInv
  <2> QED
    BY <1>3, <2>6, <2>7, <2>8
<1> QED
  BY <1>10, <1>11, <1>12

LEMMA ReceiveInv ==
    ASSUME ChanIInv, (\E name \in ToSet(Defaults) : ReceiveNew(name))
                     \/ \E m \in 1..MaxChanMsgs : ReceiveCopy(m)
    PROVE  ChanIInv'
<1>0. Listed(msgs) /\ Len(msgs) \in Nat /\ Len(msgs) <= MaxChanMsgs /\ MaxChanMsgs \in Nat
  BY ChanSizes DEF ChanIInv, ChanTyped, Listed
<1>1. ASSUME NEW name \in ToSet(Defaults), ReceiveNew(name) PROVE ChanIInv'
  <2> DEFINE msg == [slot |-> 0, name |-> name, own |-> FALSE]
  <2>1. msgs' = Append(msgs, msg) /\ TakeGrpTxt(Len(msgs) + 1, name) /\ Len(msgs) < MaxChanMsgs
    BY <1>1 DEF ReceiveNew
  <2>2. ~msg.own
    OBVIOUS
  <2> HIDE DEF msg
  <2>3. /\ Listed(msgs') /\ Len(msgs') = Len(msgs) + 1
        /\ \A i \in 1..Len(msgs) : msgs'[i] = msgs[i]
        /\ msgs'[Len(msgs) + 1] = msg
    BY <1>0, <2>1, AppendListed
  <2>4. /\ Len(msgs') <= MaxChanMsgs /\ Len(msgs) <= Len(msgs')
        /\ Len(msgs) + 1 \in 1..Len(msgs')
        /\ \A i \in 1..Len(msgs) : i \in 1..Len(msgs')
    BY <1>0, <2>1, <2>3
  <2> QED
    BY <2>1, <2>2, <2>3, <2>4, TakeInv
<1>2. ASSUME NEW m \in 1..MaxChanMsgs, ReceiveCopy(m) PROVE ChanIInv'
  <2>1. /\ msgs' = msgs /\ TakeGrpTxt(m, msgs[m].name) /\ m \in DOMAIN msgs
        /\ msgs[m].own => m \in ownSent
    BY <1>2 DEF ReceiveCopy
  <2>2. m \in 1..Len(msgs)
    BY <1>0, <2>1 DEF Listed
  <2> QED
    BY <1>0, <2>1, <2>2, TakeInv
<1> QED
  BY <1>1, <1>2

LEMMA ChanStepInv == ChanIInv /\ [ChanNext]_chanVars => ChanIInv'
<1> SUFFICES ASSUME ChanIInv, [ChanNext]_chanVars PROVE ChanIInv'
  OBVIOUS
<1>1. CASE BootSteps \/ ListenerStarts \/ ChannelReset \/ ResetSlot \/ ResetSeeds
  BY <1>1, BootInv
<1>2. CASE Boots
  BY <1>2, BootsInv
<1>3. CASE \E s \in ChannelSlots, n \in AppNames : SetChannel(s, n)
  BY <1>3, SetChannelInv
<1>4. CASE \/ Connection \/ LoopTop \/ RxEnds
           \/ \E btn \in {"Up", "Down", "Fire", "Cancel"} : BrowserPress(btn)
           \/ UNCHANGED chanVars
  BY <1>4, QuietInv
<1>5. CASE \E s \in ChannelSlots : Submit(s)
  BY <1>5, SubmitInv
<1>6. CASE Drain
  BY <1>6, DrainInv
<1>7. CASE (\E n \in ToSet(Defaults) : ReceiveNew(n)) \/ \E m \in 1..MaxChanMsgs : ReceiveCopy(m)
  BY <1>7, ReceiveInv
<1> QED
  BY <1>1, <1>2, <1>3, <1>4, <1>5, <1>6, <1>7 DEF ChanNext

(* The view.                                                                *)

(* LinesTo of Height: it exists, as the sum to the least place that has     *)
(* none would be the sum before it and one more message.                    *)
LinesSum(f, view, n) ==
    /\ f[0] = 0
    /\ \A i \in 1..n : f[i] = f[i - 1] + LinesAt(view, i)

LEMMA SumsExist ==
    ASSUME NEW view, NEW n \in Nat
    PROVE  \E f : LinesSum(f, view, n)
<1> DEFINE without == {k \in Nat : ~\E f : LinesSum(f, view, k)}
<1> SUFFICES ASSUME without # {} PROVE FALSE
  OBVIOUS
<1>1. PICK k \in without : \A j \in without : k <= j
  <2>1. without \in SUBSET Nat
    OBVIOUS
  <2> QED
    BY <2>1, LeastNatural
<1>2. k # 0
  <2>1. LinesSum([i \in {0} |-> 0], view, 0)
    BY DEF LinesSum
  <2> QED
    BY <1>1, <2>1
<1>3. k - 1 \in Nat /\ k - 1 \notin without
  BY <1>1, <1>2
<1>4. PICK f : LinesSum(f, view, k - 1)
  BY <1>3
<1> DEFINE g == [i \in 0..k |-> IF i = k THEN f[k - 1] + LinesAt(view, k) ELSE f[i]]
<1>5. /\ \A i \in 0..k - 1 : g[i] = f[i]
      /\ g[k] = f[k - 1] + LinesAt(view, k)
      /\ \A i \in 1..k : (i \in 1..k - 1 /\ i - 1 \in 0..k - 1 /\ i \in 0..k - 1) \/ i = k
      /\ 0 \in 0..k - 1 /\ k - 1 \in 0..k - 1
  BY <1>1, <1>2
<1> HIDE DEF g
<1>6. LinesSum(g, view, k)
  BY <1>4, <1>5 DEF LinesSum
<1> QED
  BY <1>1, <1>6

LEMMA HeightIs ==
    ASSUME Len(ring) \in Nat, NEW view
    PROVE  \E f : /\ LinesSum(f, view, Len(ring))
                  /\ \A a, b : Height(view, a, b) = f[b] - f[a - 1]
<1> DEFINE Is(g) == g = [i \in 0..Len(ring) |->
                           IF i = 0 THEN 0 ELSE g[i - 1] + LinesAt(view, i)]
           LinesTo == CHOOSE g : Is(g)
<1>1. PICK f : LinesSum(f, view, Len(ring))
  BY SumsExist
<1> DEFINE h == [i \in 0..Len(ring) |-> f[i]]
<1>2. Is(h)
  <2>1. ASSUME NEW i \in 0..Len(ring)
        PROVE  h[i] = IF i = 0 THEN 0 ELSE h[i - 1] + LinesAt(view, i)
    <3>1. CASE i = 0
      BY <1>1, <3>1 DEF LinesSum
    <3>2. CASE i # 0
      <4>1. i \in 1..Len(ring) /\ i - 1 \in 0..Len(ring)
        BY <3>2
      <4>2. h[i] = f[i] /\ h[i - 1] = f[i - 1]
        BY <4>1
      <4> HIDE DEF h
      <4> QED
        BY <1>1, <3>2, <4>1, <4>2 DEF LinesSum
    <3> QED
      BY <3>1, <3>2
  <2> QED
    BY <2>1
<1>3. Is(LinesTo)
  <2> HIDE DEF Is, h
  <2> QED
    BY <1>2
<1>4. \A a, b : Height(view, a, b) = LinesTo[b] - LinesTo[a - 1]
  BY DEF Height
<1> HIDE DEF LinesTo
<1>5. LinesTo[0] = 0
  BY <1>3
<1>6. ASSUME NEW i \in 1..Len(ring) PROVE LinesTo[i] = LinesTo[i - 1] + LinesAt(view, i)
  <2>1. i \in 0..Len(ring) /\ i # 0
    OBVIOUS
  <2> QED
    BY <1>3, <2>1
<1>7. LinesSum(LinesTo, view, Len(ring))
  BY <1>5, <1>6 DEF LinesSum
<1> QED
  BY <1>4, <1>7

LEMMA SumsGrow ==
    ASSUME NEW f, NEW view, NEW n \in Nat, LinesSum(f, view, n),
           \A i \in 1..n : LinesAt(view, i) \in Nat
    PROVE  \A b \in 0..n : f[b] \in Nat /\ \A a \in 0..b : f[a] <= f[b]
<1> DEFINE Grows(b) == f[b] \in Nat /\ \A a \in 0..b : f[a] <= f[b]
           wrong == {b \in 0..n : ~Grows(b)}
<1> SUFFICES ASSUME wrong # {} PROVE FALSE
  OBVIOUS
<1>1. PICK k \in wrong : \A j \in wrong : k <= j
  <2>1. wrong \in SUBSET Nat
    OBVIOUS
  <2> HIDE DEF wrong
  <2> QED
    BY <2>1, LeastNatural
<1>2. k \in 0..n /\ ~Grows(k)
  BY <1>1
<1>3. k # 0
  <2>1. f[0] = 0
    BY DEF LinesSum
  <2>2. \A a \in 0..0 : a = 0
    OBVIOUS
  <2>3. Grows(0)
    BY <2>1, <2>2
  <2> QED
    BY <1>2, <2>3
<1>4. k - 1 \in 0..n /\ k \in 1..n /\ ~(k <= k - 1)
  BY <1>2, <1>3
<1>5. Grows(k - 1)
  BY <1>1, <1>4
<1>6. f[k] = f[k - 1] + LinesAt(view, k) /\ LinesAt(view, k) \in Nat
  BY <1>4 DEF LinesSum
<1>7. f[k] \in Nat /\ f[k - 1] <= f[k] /\ f[k - 1] \in Nat
  BY <1>5, <1>6
<1>8. ASSUME NEW a \in 0..k PROVE f[a] <= f[k]
  <2>1. CASE a = k
    BY <1>7, <2>1
  <2>2. CASE a # k
    <3>1. a \in 0..k - 1
      BY <1>4, <2>2
    <3>2. f[a] <= f[k - 1]
      BY <1>5, <3>1
    <3>3. f[a] \in Nat
      <4>1. a \in 0..n /\ ~(k <= a)
        BY <1>4, <3>1
      <4>2. Grows(a)
        BY <1>1, <4>1
      <4> QED
        BY <4>2
    <3> QED
      BY <1>7, <3>2, <3>3
  <2> QED
    BY <2>1, <2>2
<1> QED
  BY <1>2, <1>7, <1>8

LEMMA LowestIs ==
    ASSUME NEW S \in SUBSET Nat, S # {}
    PROVE  Lowest(S) \in S /\ \A y \in S : Lowest(S) <= y
<1>1. \E x \in S : \A y \in S : x <= y
  BY LeastNatural
<1> QED
  BY <1>1 DEF Lowest

LEMMA HighestIs ==
    ASSUME NEW n \in Nat, NEW S \in SUBSET (0..n), S # {}
    PROVE  Highest(S) \in S /\ \A y \in S : Highest(S) >= y
<1> DEFINE T == {n - y : y \in S}
<1>1. T \in SUBSET Nat /\ T # {}
  <2>1. \A y \in S : n - y \in Nat
    OBVIOUS
  <2>2. PICK y \in S : TRUE
    OBVIOUS
  <2>3. n - y \in T
    OBVIOUS
  <2> QED
    BY <2>1, <2>3
<1>2. PICK t \in T : \A u \in T : t <= u
  BY <1>1, LeastNatural
<1>3. PICK x \in S : t = n - x
  BY <1>2
<1>4. \A y \in S : x >= y
  <2> SUFFICES ASSUME NEW y \in S PROVE x >= y
    OBVIOUS
  <2>1. n - x <= n - y
    BY <1>2, <1>3
  <2>2. x \in Nat /\ y \in Nat
    OBVIOUS
  <2> QED
    BY <2>1, <2>2
<1> QED
  BY <1>4 DEF Highest

LEMMA AnchorInView ==
    ASSUME NEW n \in Nat, NEW view \in SUBSET (1..n), view # {}, NEW anchor
    PROVE  AnchorAt(view, anchor) \in view
<1>1. view \in SUBSET Nat /\ view \in SUBSET (0..n)
  OBVIOUS
<1>2. Highest(view) \in view
  BY <1>1, HighestIs
<1>3. Lowest(view) \in view
  BY <1>1, LowestIs
<1>4. ASSUME \E i \in view : ring[i].id = anchor
      PROVE  Lowest({i \in view : ring[i].id = anchor}) \in view
  <2> DEFINE S == {i \in view : ring[i].id = anchor}
  <2>1. S \in SUBSET Nat /\ S # {} /\ S \subseteq view
    BY <1>1, <1>4
  <2> HIDE DEF S
  <2>2. Lowest(S) \in S
    BY <2>1, LowestIs
  <2> QED
    BY <2>1, <2>2 DEF S
<1> QED
  BY <1>2, <1>3, <1>4 DEF AnchorAt

(* The window around the message the reader is at: what is drawn fits, and  *)
(* as heights only grow with the messages, one more at either end does not. *)
LEMMA WindowIsFull ==
    ASSUME NEW n \in Nat, n = Len(ring), NEW view \in SUBSET (1..n), NEW at \in view,
           \A i \in 1..n : LinesAt(view, i) \in Nat
    PROVE  LET a == FirstVisible(view, at)
               b == LastVisible(view, at)
           IN  /\ at \in a..b
               /\ Height(view, a, b) <= BodyLines \/ a = b
               /\ \A x \in view : x < a => Height(view, x, b) > BodyLines
               /\ \A x \in view : x > b => Height(view, a, x) > BodyLines
<1> DEFINE a == FirstVisible(view, at)
           b == LastVisible(view, at)
           H(x, y) == Height(view, x, y)
           S == {x \in view : x <= at /\ \A y \in view : x <= y /\ y < at => H(y, at) <= BodyLines}
           T == {x \in view : x >= at /\ \A y \in view : at < y /\ y <= x => H(a, y) <= BodyLines}
<1>0. BodyLines \in Nat
  BY ChannelConstants
<1>1. PICK f : /\ LinesSum(f, view, n)
               /\ \A x, y : H(x, y) = f[y] - f[x - 1]
  BY HeightIs
<1>2. \A y \in 0..n : f[y] \in Nat /\ \A x \in 0..y : f[x] <= f[y]
  BY <1>1, SumsGrow
<1>3. ASSUME NEW x \in view, NEW y \in view PROVE H(x, y) \in Int
  <2>1. x - 1 \in 0..n /\ y \in 0..n
    OBVIOUS
  <2>2. f[x - 1] \in Nat /\ f[y] \in Nat
    BY <1>2, <2>1
  <2> HIDE DEF H
  <2>3. H(x, y) = f[y] - f[x - 1]
    BY <1>1
  <2> QED
    BY <2>2, <2>3
<1>4. ASSUME NEW x \in view, NEW y \in view, NEW z \in view, y <= z PROVE H(x, y) <= H(x, z)
  <2>1. x - 1 \in 0..n /\ y \in 0..n /\ z \in 0..n /\ y \in 0..z
    BY <1>4
  <2>2. f[y] <= f[z] /\ f[x - 1] \in Nat /\ f[y] \in Nat /\ f[z] \in Nat
    BY <1>2, <2>1
  <2> HIDE DEF H
  <2>3. H(x, y) = f[y] - f[x - 1] /\ H(x, z) = f[z] - f[x - 1]
    BY <1>1
  <2> QED
    BY <2>2, <2>3
<1>5. a = Lowest(S) /\ b = Highest(T)
  BY DEF FirstVisible, LastVisible
<1> HIDE DEF H
<1>6. at \in Nat /\ view \in SUBSET Nat /\ view \in SUBSET (0..n)
  OBVIOUS
<1>7. a \in S /\ \A x \in S : a <= x
  <2>1. S \in SUBSET Nat
    BY <1>6
  <2>2. at <= at /\ \A y \in view : ~(at <= y /\ y < at)
    BY <1>6
  <2>3. at \in S
    BY <2>2
  <2> HIDE DEF S, a
  <2> QED
    BY <1>5, <2>1, <2>3, LowestIs
<1>8. b \in T /\ \A x \in T : b >= x
  <2>1. T \in SUBSET (0..n)
    BY <1>6
  <2>2. at >= at /\ \A y \in view : ~(at < y /\ y <= at)
    BY <1>6
  <2>3. at \in T
    BY <2>2
  <2> HIDE DEF T, b
  <2> QED
    BY <1>5, <2>1, <2>3, HighestIs
<1> HIDE DEF a, b
<1>9. a \in view /\ b \in view /\ a <= at /\ at <= b /\ a \in Nat /\ b \in Nat
  BY <1>6, <1>7, <1>8
<1>10. at \in a..b
  BY <1>6, <1>9
<1>11. H(a, b) <= BodyLines \/ a = b
  <2>1. CASE at < b
    BY <1>8, <1>9, <2>1
  <2>2. CASE at = b /\ a < at
    BY <1>7, <1>9, <2>2
  <2> QED
    BY <1>6, <1>9, <2>1, <2>2
<1>12. ASSUME NEW x \in view, x < a PROVE H(x, b) > BodyLines
  <2>1. x \notin S /\ x <= at /\ x \in Nat
    BY <1>6, <1>7, <1>9, <1>12
  <2>2. PICK y \in view : x <= y /\ y < at /\ ~(H(y, at) <= BodyLines)
    BY <2>1
  <2>3. y < a
    BY <1>6, <1>7, <1>9, <2>2
  <2>4. H(x, at) > BodyLines
    <3>1. x - 1 \in 0..n /\ y - 1 \in 0..n /\ at \in 0..n /\ x - 1 \in 0..y - 1
      BY <2>2
    <3>2. f[x - 1] <= f[y - 1] /\ f[x - 1] \in Nat /\ f[y - 1] \in Nat /\ f[at] \in Nat
      BY <1>2, <3>1
    <3>3. H(x, at) = f[at] - f[x - 1] /\ H(y, at) = f[at] - f[y - 1]
      BY <1>1
    <3> QED
      BY <1>0, <2>2, <3>2, <3>3
  <2>5. H(x, at) <= H(x, b) /\ H(x, at) \in Int /\ H(x, b) \in Int
    BY <1>3, <1>4, <1>9
  <2> QED
    BY <1>0, <2>4, <2>5
<1>13. ASSUME NEW x \in view, x > b PROVE H(a, x) > BodyLines
  <2>1. x \notin T /\ x >= at /\ x \in Nat
    BY <1>6, <1>8, <1>9, <1>13
  <2>2. PICK y \in view : at < y /\ y <= x /\ ~(H(a, y) <= BodyLines)
    BY <2>1
  <2>3. H(a, y) <= H(a, x) /\ H(a, y) \in Int /\ H(a, x) \in Int
    BY <1>3, <1>4, <1>9, <2>2
  <2> QED
    BY <1>0, <2>2, <2>3
<1> QED
  BY <1>10, <1>11, <1>12, <1>13 DEF a, b, H

LEMMA ChanIInvImplies == ChanIInv => ChannelsAreSound
<1> SUFFICES ASSUME ChanIInv PROVE ChannelsAreSound
  OBVIOUS
<1> USE DEF ChanIInv
<1>1. NoEchoReachesTheApp
  <2> SUFFICES ASSUME Len(msgs) <= SeenCap
               PROVE  IsInjective(toApp) /\ ToSet(toApp) \intersect ownSent = {}
    BY DEF NoEchoReachesTheApp
  <2>1. DOMAIN toApp = 1..Len(toApp)
    BY DEF ChanTyped, Listed
  <2>2. IsInjective(toApp)
    BY <2>1 DEF SeenInv, IsInjective
  <2>3. \A m \in ToSet(toApp) : ~msgs[m].own
    BY <2>1 DEF SeenInv, ToSet
  <2>4. \A m \in ownSent : msgs[m].own
    BY DEF ListsInv
  <2> QED
    BY <2>2, <2>3, <2>4
<1>2. ViewIsFull
  <2> SUFFICES ASSUME InView(browser.at) # {}
               PROVE  LET view == InView(browser.at)
                          at == AnchorAt(view, browser.anchor)
                          a == FirstVisible(view, at)
                          b == LastVisible(view, at)
                      IN  /\ at \in view /\ at \in a..b
                          /\ Height(view, a, b) <= BodyLines \/ a = b
                          /\ \A x \in view : x < a => Height(view, x, b) > BodyLines
                          /\ \A x \in view : x > b => Height(view, a, x) > BodyLines
    BY DEF ViewIsFull
  <2> DEFINE view == InView(browser.at)
             at == AnchorAt(view, browser.anchor)
  <2>1. Len(ring) \in Nat /\ DOMAIN ring = 1..Len(ring)
    BY DEF ChanTyped, Listed
  <2>2. view \in SUBSET (1..Len(ring)) /\ view # {}
    BY <2>1 DEF InView
  <2> HIDE DEF view
  <2>3. at \in view
    BY <2>1, <2>2, AnchorInView
  <2>4. ASSUME NEW i \in 1..Len(ring) PROVE LinesAt(view, i) \in Nat
    <3>1. ring[i].id \in 1..MaxChanMsgs
      BY ChanSizes DEF ListsInv, ChanTyped, Listed
    <3> QED
      BY <3>1, ChannelConstants DEF LinesAt
  <2> HIDE DEF at
  <2> QED
    BY <2>1, <2>2, <2>3, <2>4, WindowIsFull DEF view, at
<1>3. OnTheGameChannel
  BY DEF GameInv, OnTheGameChannel
<1> QED
  BY <1>1, <1>2, <1>3 DEF ChannelsAreSound

(* However messages are repeated and whatever a loss of power interrupts:   *)
(* no echo of one's own messages in the app, no half-empty view, the game   *)
(* always on its channel (meshcore.rs:607-635, channel_browser.rs:181-216,  *)
(* channels.rs:165-188).                                                    *)
THEOREM ChannelsSound == ChanSpec => []ChannelsAreSound
<1>1. ChanSpec => []ChanIInv
  BY ChanInitInv, ChanStepInv, PTL DEF ChanSpec
<1> QED
  BY <1>1, ChanIInvImplies, PTL
(***************************************************************************)
(* The clock.                                                              *)
(***************************************************************************)

Deltas == -MaxDelta..MaxDelta

ClockIInv ==
    /\ clock = NoClock \/ clock \in Int
    /\ deltas \in Seq(Deltas) /\ Len(deltas) < Samples

LEMMA ClockSizes == MaxDelta \in Nat /\ Samples \in Nat /\ Samples > 0 /\ Tolerance \in Nat /\ \A n \in Nat : 2 * n # Samples
<1>1. MaxDelta \in Nat /\ Samples \in Nat /\ Samples % 2 = 1 /\ Tolerance \in Nat
  BY ClockConstants
<1>2. Samples # 0
  BY <1>1
<1>3. \A n \in Nat : (2 * n) % 2 = 0
  OBVIOUS
<1> QED
  BY <1>1, <1>2, <1>3

(* The places of a batch whose values a condition picks, and their number.  *)
LEMMA CountedPlaces ==
    ASSUME NEW n \in Nat, NEW S \in SUBSET (1..n)
    PROVE  /\ IsFiniteSet(S) /\ Cardinality(S) \in Nat /\ Cardinality(S) <= n
           /\ \A T \in SUBSET S : Cardinality(T) <= Cardinality(S)
           /\ Cardinality((1..n) \ S) = n - Cardinality(S)
<1>1. IsFiniteSet(1..n) /\ Cardinality(1..n) = n
  <2>1. 1 \in Int /\ n \in Int
    OBVIOUS
  <2>2. IsFiniteSet(1..n) /\ Cardinality(1..n) = IF 1 > n THEN 0 ELSE n - 1 + 1
    BY <2>1, FS_Interval
  <2> QED
    BY <2>2
<1>2. IsFiniteSet(S) /\ Cardinality(S) <= n
  BY <1>1, FS_Subset
<1>3. Cardinality(S) \in Nat
  BY <1>2, FS_CardinalityType
<1>4. \A T \in SUBSET S : Cardinality(T) <= Cardinality(S)
  BY <1>2, FS_Subset
<1>5. Cardinality((1..n) \ S) = n - Cardinality(S)
  <2>1. (1..n) \cap S = S
    OBVIOUS
  <2>2. Cardinality((1..n) \ S) = Cardinality(1..n) - Cardinality((1..n) \cap S)
    BY <1>1, FS_Difference
  <2> QED
    BY <1>1, <2>1, <2>2
<1> QED
  BY <1>2, <1>3, <1>4, <1>5

LEMMA LeastDelta ==
    ASSUME NEW S \in SUBSET Deltas, S # {}
    PROVE  \E x \in S : \A y \in S : x <= y
<1> DEFINE T == {y + MaxDelta : y \in S}
<1>1. S \subseteq Int /\ \A y \in S : y + MaxDelta \in Nat
  BY ClockSizes DEF Deltas
<1>2. T \in SUBSET Nat /\ T # {}
  <2>1. PICK y \in S : TRUE
    OBVIOUS
  <2>2. y + MaxDelta \in T
    OBVIOUS
  <2> QED
    BY <1>1, <2>2
<1>3. PICK t \in T : \A u \in T : t <= u
  BY <1>2, LeastNatural
<1>4. PICK x \in S : t = x + MaxDelta
  BY <1>3
<1>5. ASSUME NEW y \in S PROVE x <= y
  <2>1. x + MaxDelta <= y + MaxDelta
    BY <1>3, <1>4
  <2>2. x \in Int /\ y \in Int
    BY <1>1
  <2> QED
    BY <2>1, <2>2, ClockSizes
<1> QED
  BY <1>5

LEMMA GreatestDelta ==
    ASSUME NEW S \in SUBSET Deltas, S # {}
    PROVE  \E x \in S : \A y \in S : x >= y
<1> DEFINE T == {MaxDelta - y : y \in S}
<1>1. S \subseteq Int /\ \A y \in S : MaxDelta - y \in Nat
  BY ClockSizes DEF Deltas
<1>2. T \in SUBSET Nat /\ T # {}
  <2>1. PICK y \in S : TRUE
    OBVIOUS
  <2>2. MaxDelta - y \in T
    OBVIOUS
  <2> QED
    BY <1>1, <2>2
<1>3. PICK t \in T : \A u \in T : t <= u
  BY <1>2, LeastNatural
<1>4. PICK x \in S : t = MaxDelta - x
  BY <1>3
<1>5. ASSUME NEW y \in S PROVE x >= y
  <2>1. MaxDelta - x <= MaxDelta - y
    BY <1>3, <1>4
  <2>2. x \in Int /\ y \in Int
    BY <1>1
  <2> QED
    BY <2>1, <2>2, ClockSizes
<1> QED
  BY <1>5

(* A full batch has a median: the least value that most of the batch do not *)
(* exceed.                                                                  *)
LEMMA MedianExists ==
    ASSUME NEW s \in Seq(Deltas), Len(s) = Samples
    PROVE  /\ MedianOf(s) \in Deltas
           /\ 2 * Cardinality({i \in 1..Samples : s[i] < MedianOf(s)}) < Samples
           /\ 2 * Cardinality({i \in 1..Samples : s[i] > MedianOf(s)}) < Samples
<1> DEFINE Below(x) == {i \in 1..Samples : s[i] < x}
           Above(x) == {i \in 1..Samples : s[i] > x}
           UpTo(x) == {i \in 1..Samples : s[i] <= x}
           Most == {x \in ToSet(s) : 2 * Cardinality(UpTo(x)) > Samples}
<1>0. Samples \in Nat /\ Samples > 0
  BY ClockSizes
<1>1. DOMAIN s = 1..Samples /\ \A i \in 1..Samples : s[i] \in Deltas
  BY ElementOfSeq, LenProperties
<1>2. ToSet(s) = {s[i] : i \in 1..Samples} /\ ToSet(s) \in SUBSET Deltas /\ Deltas \subseteq Int
  BY <1>1 DEF ToSet, Deltas
<1>3. 1 \in 1..Samples
  BY ClockSizes
<1>4. \A x : /\ Below(x) \in SUBSET (1..Samples) /\ Above(x) \in SUBSET (1..Samples)
             /\ UpTo(x) \in SUBSET (1..Samples)
  OBVIOUS
<1>5. \A x : /\ Cardinality(UpTo(x)) \in Nat /\ Cardinality(Below(x)) \in Nat
             /\ Cardinality(Above(x)) \in Nat
  BY <1>4, CountedPlaces, ClockSizes
<1>6. Most # {} /\ Most \in SUBSET Deltas
  <2>1. ToSet(s) # {}
    BY <1>2, <1>3
  <2>2. PICK x \in ToSet(s) : \A y \in ToSet(s) : x >= y
    BY <1>2, <2>1, GreatestDelta
  <2>3. UpTo(x) = 1..Samples
    BY <1>2, <2>2
  <2>4. Cardinality(1..Samples) = Samples
    <3>1. 1 \in Int /\ Samples \in Int
      BY <1>0
    <3>2. Cardinality(1..Samples) = IF 1 > Samples THEN 0 ELSE Samples - 1 + 1
      BY <3>1, FS_Interval
    <3> QED
      BY <1>0, <3>2
  <2>5. 2 * Cardinality(UpTo(x)) > Samples
    <3> HIDE DEF UpTo
    <3> QED
      BY <1>0, <2>3, <2>4
  <2> QED
    BY <1>2, <2>2, <2>5
<1>7. PICK x \in Most : \A y \in Most : x <= y
  BY <1>6, LeastDelta
<1>8. 2 * Cardinality(Above(x)) < Samples
  <2>1. Above(x) = (1..Samples) \ UpTo(x)
    <3>1. ASSUME NEW i \in 1..Samples PROVE s[i] > x <=> ~(s[i] <= x)
      <4>1. s[i] \in Int /\ x \in Int
        BY <1>1, <1>2
      <4> QED
        BY <4>1
    <3> QED
      BY <3>1
  <2>2. Cardinality((1..Samples) \ UpTo(x)) = Samples - Cardinality(UpTo(x))
    BY <1>0, <1>4, CountedPlaces
  <2>3. 2 * Cardinality(UpTo(x)) > Samples
    BY <1>7
  <2>4. Cardinality(UpTo(x)) \in Nat
    BY <1>5
  <2> HIDE DEF UpTo, Above
  <2> QED
    BY <1>0, <2>1, <2>2, <2>3, <2>4
<1>9. 2 * Cardinality(Below(x)) < Samples
  <2> DEFINE L == {y \in ToSet(s) : y < x}
  <2>1. CASE L = {}
    <3>1. Below(x) = {}
      BY <1>2, <2>1
    <3>2. Cardinality(Below(x)) = 0
      BY <3>1, FS_EmptySet
    <3> HIDE DEF Below
    <3> QED
      BY <1>0, <3>2
  <2>2. CASE L # {}
    <3>1. L \in SUBSET Deltas
      BY <1>2
    <3>2. PICK y \in L : \A z \in L : y >= z
      BY <2>2, <3>1, GreatestDelta
    <3>3. Below(x) = UpTo(y)
      <4>1. ASSUME NEW i \in 1..Samples PROVE s[i] < x <=> s[i] <= y
        <5>1. s[i] \in ToSet(s) /\ s[i] \in Int /\ y \in Int /\ x \in Int
          BY <1>1, <1>2
        <5>2. s[i] < x => s[i] <= y
          BY <3>2, <5>1
        <5> QED
          BY <3>2, <5>1, <5>2
      <4> QED
        BY <4>1
    <3>4. y \notin Most
      <4>1. y \in Int /\ x \in Int /\ y < x
        BY <1>2, <3>2
      <4>2. ~(x <= y)
        BY <4>1
      <4> HIDE DEF Most
      <4> QED
        BY <1>7, <4>2
    <3>5. ~(2 * Cardinality(UpTo(y)) > Samples)
      BY <3>2, <3>4
    <3>6. Cardinality(UpTo(y)) \in Nat /\ 2 * Cardinality(UpTo(y)) # Samples
      BY <1>5, ClockSizes
    <3> HIDE DEF UpTo, Below
    <3> QED
      BY <1>0, <3>3, <3>5, <3>6
  <2> QED
    BY <2>1, <2>2
<1> DEFINE P(v) == 2 * Cardinality(Below(v)) < Samples /\ 2 * Cardinality(Above(v)) < Samples
<1>10. MedianOf(s) = CHOOSE v \in ToSet(s) : P(v)
  BY <1>1 DEF MedianOf
<1>11. x \in ToSet(s) /\ P(x)
  BY <1>8, <1>9
<1> HIDE DEF P
<1>12. MedianOf(s) \in ToSet(s) /\ P(MedianOf(s))
  BY <1>10, <1>11
<1> QED
  BY <1>2, <1>12 DEF P

LEMMA ObserveInv ==
    ASSUME ClockIInv, NEW e \in Int, NEW h \in Nat, Observe(e, h)
    PROVE  ClockIInv'
<1> DEFINE delta == e + h * SecondsPerHop - clock
           batch == Append(deltas, delta)
<1> USE DEF ClockIInv
<1>0. h * SecondsPerHop \in Int
  BY ClockConstants
<1>1. CASE locked
  BY <1>1 DEF Observe
<1>2. CASE ~locked /\ clock = NoClock
  <2>1. clock' \in Int /\ deltas' = << >>
    BY <1>0, <1>2 DEF Observe
  <2>2. << >> \in Seq(Deltas) /\ Len(<< >>) = 0
    BY EmptySeq
  <2> QED
    BY <2>1, <2>2, ClockSizes
<1>3. CASE ~locked /\ clock # NoClock /\ delta \notin Deltas
  BY <1>3 DEF Observe, Deltas
<1>4. CASE ~locked /\ clock # NoClock /\ delta \in Deltas
  <2>1. batch \in Seq(Deltas) /\ Len(batch) = Len(deltas) + 1
    BY <1>4, AppendProperties
  <2>2. IF Len(batch) < Samples THEN deltas' = batch /\ UNCHANGED clock
        ELSE clock' = clock + MedianOf(batch) /\ deltas' = << >>
    BY <1>4 DEF Observe, Deltas
  <2> HIDE DEF batch, delta
  <2>3. CASE Len(batch) < Samples
    BY <2>1, <2>2, <2>3
  <2>4. CASE ~(Len(batch) < Samples)
    <3>1. Len(batch) = Samples
      BY <2>1, <2>4, LenProperties, ClockSizes
    <3>2. MedianOf(batch) \in Int
      <4>1. MedianOf(batch) \in Deltas
        BY <2>1, <3>1, MedianExists
      <4> QED
        BY <4>1 DEF Deltas
    <3>3. << >> \in Seq(Deltas) /\ Len(<< >>) = 0
      BY EmptySeq
    <3> QED
      BY <1>4, <2>2, <2>4, <3>2, <3>3, ClockSizes
  <2> QED
    BY <2>3, <2>4
<1> QED
  BY <1>1, <1>2, <1>3, <1>4

(* The correction of a batch whose good samples are more than half: were    *)
(* the median beyond the tolerance on either side, all of them would be on  *)
(* its other side.                                                          *)
LEMMA MedianIsGood ==
    ASSUME ClockIInv, clock \in Int, NEW delta \in Deltas, Len(Append(deltas, delta)) = Samples,
           2 * Cardinality({i \in DOMAIN deltas : Good(deltas[i])}) > Samples
    PROVE  clock + MedianOf(Append(deltas, delta)) \in -Tolerance..Tolerance
<1> DEFINE batch == Append(deltas, delta)
           good == {i \in DOMAIN deltas : Good(deltas[i])}
           x == MedianOf(batch)
           below == {i \in 1..Samples : batch[i] < x}
           above == {i \in 1..Samples : batch[i] > x}
<1>0. Samples \in Nat /\ Tolerance \in Nat /\ Deltas \subseteq Int
  BY ClockSizes DEF Deltas
<1>1. /\ batch \in Seq(Deltas) /\ Len(batch) = Len(deltas) + 1
      /\ \A i \in 1..Len(deltas) : batch[i] = deltas[i]
  BY AppendProperties DEF ClockIInv
<1>2. /\ Len(deltas) \in Nat /\ DOMAIN deltas = 1..Len(deltas)
      /\ \A i \in 1..Len(deltas) : deltas[i] \in Deltas
  BY LenProperties, ElementOfSeq DEF ClockIInv
<1>3. \A i \in 1..Len(deltas) : i \in 1..Samples
  BY <1>0, <1>1, <1>2
<1>4. x \in Deltas /\ 2 * Cardinality(below) < Samples /\ 2 * Cardinality(above) < Samples
  BY <1>1, MedianExists
<1>5. Cardinality(below) \in Nat /\ Cardinality(above) \in Nat
  <2>1. below \in SUBSET (1..Samples) /\ above \in SUBSET (1..Samples)
    OBVIOUS
  <2> HIDE DEF below, above
  <2> QED
    BY <1>0, <2>1, CountedPlaces
<1>6. Cardinality(good) \in Nat /\ 2 * Cardinality(good) > Samples
  <2>1. good \in SUBSET (1..Len(deltas))
    BY <1>2
  <2>2. Cardinality(good) \in Nat
    <3> HIDE DEF good
    <3> QED
      BY <1>2, <2>1, CountedPlaces
  <2> QED
    BY <2>2
<1>7. ~(good \subseteq below)
  <2> SUFFICES ASSUME good \in SUBSET below PROVE FALSE
    OBVIOUS
  <2>1. below \in SUBSET (1..Samples)
    OBVIOUS
  <2> HIDE DEF good, below
  <2>2. Cardinality(good) <= Cardinality(below)
    BY <1>0, <2>1, CountedPlaces
  <2> QED
    BY <1>0, <1>4, <1>5, <1>6, <2>2
<1>8. ~(good \subseteq above)
  <2> SUFFICES ASSUME good \in SUBSET above PROVE FALSE
    OBVIOUS
  <2>1. above \in SUBSET (1..Samples)
    OBVIOUS
  <2> HIDE DEF good, above
  <2>2. Cardinality(good) <= Cardinality(above)
    BY <1>0, <2>1, CountedPlaces
  <2> QED
    BY <1>0, <1>4, <1>5, <1>6, <2>2
<1>9. ASSUME NEW i \in good
      PROVE  /\ i \in 1..Samples /\ batch[i] = deltas[i] /\ deltas[i] \in Int
             /\ clock + deltas[i] <= Tolerance /\ -Tolerance <= clock + deltas[i]
  <2>1. i \in 1..Len(deltas) /\ Good(deltas[i])
    BY <1>2
  <2>2. deltas[i] \in Int
    BY <1>0, <1>2, <2>1
  <2> QED
    BY <1>0, <1>1, <1>3, <2>1, <2>2 DEF Good
<1>10. PICK i \in good : ~(batch[i] < x)
  BY <1>7, <1>9
<1>11. PICK j \in good : ~(batch[j] > x)
  BY <1>8, <1>9
<1>12. x \in Int
  BY <1>0, <1>4
<1> HIDE DEF x, batch, good
<1>13. x <= deltas[i] /\ deltas[j] <= x
  BY <1>9, <1>10, <1>11, <1>12
<1>14. clock + x <= Tolerance /\ -Tolerance <= clock + x /\ clock + x \in Int
  BY <1>0, <1>9, <1>12, <1>13
<1>15. clock + x \in -Tolerance..Tolerance
  BY <1>0, <1>14
<1> QED
  BY <1>15 DEF x, batch

ClockCorrected ==
    clock # NoClock /\ clock' # clock /\ clock' # NoClock /\ ~locked'
      => LET good == {i \in DOMAIN deltas : Good(deltas[i])}
         IN  2 * Cardinality(good) > Samples => clock' \in -Tolerance..Tolerance

LEMMA ObserveCorrects ==
    ASSUME ClockIInv, NEW e, NEW h, Observe(e, h)
    PROVE  ClockCorrected
<1> DEFINE delta == e + h * SecondsPerHop - clock
<1> SUFFICES ASSUME clock # NoClock, clock' # clock,
                    2 * Cardinality({i \in DOMAIN deltas : Good(deltas[i])}) > Samples
             PROVE  clock' \in -Tolerance..Tolerance
  BY DEF ClockCorrected
<1>1. /\ delta \in Deltas /\ ~(Len(Append(deltas, delta)) < Samples)
      /\ clock' = clock + MedianOf(Append(deltas, delta))
  BY DEF Observe, Deltas
<1> HIDE DEF delta
<1>2. Len(Append(deltas, delta)) = Len(deltas) + 1 /\ Len(deltas) \in Nat /\ Len(deltas) < Samples
  BY <1>1, AppendProperties, LenProperties DEF ClockIInv
<1>3. Len(Append(deltas, delta)) = Samples
  BY <1>1, <1>2, ClockSizes
<1>4. clock \in Int
  BY DEF ClockIInv
<1> QED
  BY <1>1, <1>3, <1>4, MedianIsGood

LEMMA ClockInitInv == ClockInit => ClockIInv
<1>1. << >> \in Seq(Deltas) /\ Len(<< >>) = 0
  BY EmptySeq
<1> QED
  BY <1>1, ClockSizes DEF ClockInit, ClockIInv

LEMMA HopsAreNatural ==
    ASSUME NEW route \in Routes
    PROVE  AdvertHops(route) \in Nat /\ TextHops(route) \in Nat
<1>1. DirectByte \in Nat /\ FloodHops \subseteq Nat
  BY ClockConstants
<1>2. route.hops \in Nat
  BY <1>1 DEF Routes
<1> QED
  BY <1>1, <1>2 DEF AdvertHops, TextHops

LEMMA ClockStep == ClockIInv /\ [ClockNext]_clockVars => ClockIInv' /\ ClockCorrected
<1> SUFFICES ASSUME ClockIInv, [ClockNext]_clockVars PROVE ClockIInv' /\ ClockCorrected
  OBVIOUS
<1>1. ASSUME NEW e \in Errors, NEW r \in Routes, HearAdvert(e, r) \/ HearText(e, r)
      PROVE  ClockIInv' /\ ClockCorrected
  <2>1. \E h \in Nat : Observe(e, h)
    BY <1>1, HopsAreNatural DEF HearAdvert, HearText
  <2>2. e \in Int
    BY ClockConstants
  <2> QED
    BY <2>1, <2>2, ObserveInv, ObserveCorrects
<1>2. ASSUME NEW e \in Errors, SetDeviceTime(e) PROVE ClockIInv' /\ ClockCorrected
  <2>1. e \in Int
    BY ClockConstants
  <2> QED
    BY <1>2, <2>1 DEF SetDeviceTime, ClockIInv, ClockCorrected
<1>3. CASE Restarts
  <2>1. << >> \in Seq(Deltas) /\ Len(<< >>) = 0
    BY EmptySeq
  <2> QED
    BY <1>3, <2>1, ClockSizes DEF Restarts, ClockIInv, ClockCorrected
<1>4. CASE UNCHANGED clockVars
  BY <1>4 DEF clockVars, ClockIInv, ClockCorrected
<1> QED
  BY <1>1, <1>2, <1>3, <1>4 DEF ClockNext

(* When most of a batch came from senders whose clocks are right, the       *)
(* correction puts the badge's clock right, whatever the others said and in *)
(* whichever order they were heard (repeater_time.rs:17-24, 131-146).       *)
THEOREM MajorityDecides == ClockSpec => MostAreRight
<1>1. ClockSpec => []ClockIInv
  BY ClockInitInv, ClockStep, PTL DEF ClockSpec
<1>2. ClockIInv /\ [ClockNext]_clockVars => [ClockCorrected]_clockVars
  BY ClockStep
<1>3. MostAreRight <=> [][ClockCorrected]_clockVars
  BY PTL DEF MostAreRight, ClockCorrected
<1> QED
  BY <1>1, <1>2, <1>3, PTL DEF ClockSpec
=============================================================================
