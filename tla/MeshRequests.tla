---------------------------- MODULE MeshRequests ----------------------------
(***************************************************************************)
(* Requests the companion app has the badge send over the mesh, and the    *)
(* answers that come back (src/fw/mesh/meshcore.rs, mod.rs, ble.rs): the   *)
(* transmit queue, one pending tag per kind of request with its timeout,   *)
(* the order in which a decrypted answer is tried against the pending      *)
(* tags, and the bounded channels that carry results to the BLE task.      *)
(*                                                                         *)
(* A tag is the second in which the request was made, or 0 while the badge *)
(* has no wall clock.  An answer echoes its request's tag; a login answer  *)
(* carries the server's clock instead.  Answers travel as a RESPONSE, or   *)
(* as a PATH return that teaches the badge the route; both may be lost,    *)
(* repeated and late.                                                      *)
(***************************************************************************)
EXTENDS Naturals, Sequences, FiniteSets

CONSTANTS
    Nodes,          \* repeaters and rooms that can be asked
    Known,          \* those of them that are in the contact store
    TxCap,          \* capacity of TX_CHANNEL, 16 in the badge
    ResultCap,      \* capacity of a result channel, 2 in the badge
    RequestTimeout, \* PENDING_REQUEST_TIMEOUT in ticks
    MaxRequests,    \* bound: requests of the app
    MaxAnswers,     \* bound: answers received, copies included
    MaxTicks        \* bound: ticks that pass

ASSUME RequestConstants ==
    /\ Known \subseteq Nodes
    /\ {TxCap, ResultCap} \subseteq Nat \ {0}
    /\ {RequestTimeout, MaxRequests, MaxAnswers, MaxTicks} \subseteq Nat

(* The kinds of request that wait for their answer with a pending tag, in  *)
(* the order a RESPONSE is tried against them; a PATH return is also tried  *)
(* against the discovery tag.  PENDING_STATUS_PUBKEY is tried before all of *)
(* them, but nothing in the firmware ever sets it.                          *)
ResponseKinds == <<"admin", "binary", "telem">>
PathKinds == Append(ResponseKinds, "discovery")
Tagged == {PathKinds[i] : i \in DOMAIN PathKinds}
RequestKinds == Tagged \union {"login", "trace"}

VARIABLES
    txq,      \* TX_CHANNEL: the requests not yet transmitted
    pending,  \* PENDING_*_TAG: kind -> [tag, at], or NoTag
    hint,     \* LAST_REQ_TARGET
    asked,    \* history: the requests that were on the air
    results,  \* the result channels, kind -> sequence
    told,     \* kind -> results the BLE task took from the channel
    routed,   \* nodes a path is stored for
    clockSet, \* unix_now() is known
    tick,     \* time
    requests, \* requests made
    answers   \* answers received

reqVars == <<txq, pending, hint, asked, results, told, routed, clockSet, tick, requests, answers>>

NoTag == [tag |-> 0, at |-> 0, set |-> FALSE]
NoHint == "none"
Tag == IF clockSet THEN tick ELSE 0

ReqInit ==
    /\ txq = << >> /\ hint = NoHint /\ asked = {} /\ routed = {}
    /\ pending = [k \in Tagged |-> NoTag]
    /\ results = [k \in RequestKinds |-> << >>] /\ told = [k \in RequestKinds |-> 0]
    /\ clockSet \in BOOLEAN /\ tick = 1 /\ requests = 0 /\ answers = 0

-----------------------------------------------------------------------------
(* The app asks; a full queue drops the request although the app is told   *)
(* that it was sent.                                                       *)
Asks(k, n) ==
    /\ requests < MaxRequests /\ requests' = requests + 1
    /\ txq' = IF Len(txq) < TxCap
              THEN Append(txq, [kind |-> k, node |-> n, tag |-> Tag, id |-> requests + 1])
              ELSE txq
    /\ UNCHANGED <<pending, hint, asked, results, told, routed, clockSet, tick, answers>>

SendTracePath(n) == Asks("trace", n)
SendBinaryReq(n) == Asks("binary", n)
SendStatusRequest(n) == Asks("admin", n)
SendLogin(n) == Asks("login", n)
SendTelemetryRequest(n) == Asks("telem", n)
SendPathDiscoveryReq(n) == Asks("discovery", n)

-----------------------------------------------------------------------------
(* The transmitter takes the next request. *)
Takes(kinds) ==
    /\ txq # << >> /\ Head(txq).kind \in kinds /\ txq' = Tail(txq)
    /\ UNCHANGED <<results, told, routed, clockSet, tick, requests, answers>>
OnAir(ok) == asked' = IF ok THEN asked \union {Head(txq)} ELSE asked

(* Trace packets set no hint. *)
send_trace(ok) == Takes({"trace"}) /\ OnAir(ok) /\ UNCHANGED <<hint, pending>>
(* A login needs the clock, but leaves its hint without it. *)
send_login(ok) == /\ Takes({"login"}) /\ hint' = Head(txq).node
                  /\ OnAir(ok /\ clockSet) /\ UNCHANGED pending
(* send_txt_msg: a private message leaves a hint like a request. *)
TxtHint(n) == /\ hint # n /\ hint' = n
              /\ UNCHANGED <<txq, pending, asked, results, told, routed, clockSet, tick, requests, answers>>
(* A tagged request occupies the single slot of its kind, whatever was      *)
(* waiting there, and frees it when the radio fails.                        *)
SendTagged(k, ok) ==
    /\ Takes({k}) /\ OnAir(ok) /\ hint' = Head(txq).node
    /\ pending' = [pending EXCEPT ![k] =
          IF ok THEN [tag |-> Head(txq).tag, at |-> tick, set |-> TRUE] ELSE NoTag]
send_telem_request(ok) == SendTagged("telem", ok)
send_admin_status_request(ok) == SendTagged("admin", ok)
send_binary_request(ok) == SendTagged("binary", ok)
send_discovery_request(ok) == SendTagged("discovery", ok)

-----------------------------------------------------------------------------
(* Answers. *)

Matches(k, tag) == pending[k].set /\ pending[k].tag = tag
InTime(k) == tick - pending[k].at <= RequestTimeout

(* PendingTag::take_if_match: a matching slot is emptied, in time or not. *)
Taken(k) == [pending EXCEPT ![k] = NoTag]
(* A plausible slip: the slot keeps its tag. *)
KeptTag(k) == pending
TakeIfMatch(k) == Taken(k)

(* try_send on a result channel: dropped when full. *)
Reported(k, a) == [results EXCEPT ![k] = IF Len(@) < ResultCap THEN Append(@, a) ELSE @]

(* The tag an answer carries: its request's, or the server's clock. *)
EchoedTag(q) == IF q.kind = "login" THEN tick ELSE q.tag

(* A decrypted answer goes to the first kind whose pending tag it matches   *)
(* in time.  A match that comes too late empties the slot and is tried      *)
(* further; what matches nothing is taken for the answer to a login.        *)
Dispatch(kinds, q, login) ==
    LET match == {i \in DOMAIN kinds : Matches(kinds[i], EchoedTag(q))}
        timely == {i \in match : InTime(kinds[i])}
        first == IF timely = {} THEN Len(kinds) ELSE CHOOSE i \in timely : \A j \in timely : i <= j
    IN  /\ pending' = [k \in Tagged |->
                          IF \E i \in match : i <= first /\ kinds[i] = k
                          THEN TakeIfMatch(k)[k] ELSE pending[k]]
        /\ results' = IF timely = {} THEN login ELSE Reported(kinds[first], q)

(* RESPONSE and PATH come from the hinted node or from a known contact.     *)
Receivable(q) == q.node \in Known \/ hint = q.node

Answers(q) ==
    /\ answers < MaxAnswers /\ answers' = answers + 1
    /\ q.kind # "trace" /\ Receivable(q)
    /\ UNCHANGED <<txq, hint, asked, told, clockSet, tick, requests>>

LoginAnswer(q) == Reported("login", q)
handle_response_recv(q) ==
    /\ Answers(q) /\ q.kind # "discovery"
    /\ Dispatch(ResponseKinds, q, LoginAnswer(q)) /\ UNCHANGED routed

(* A PATH return also brings the route to a contact; a body too short for a *)
(* login is not taken for one.                                              *)
PathStored(q) == routed' = IF q.node \in Known THEN routed \union {q.node} ELSE routed
PathLogin(q, long) == IF long THEN LoginAnswer(q) ELSE results
handle_path_recv(q, long) ==
    /\ Answers(q) /\ Dispatch(PathKinds, q, PathLogin(q, long)) /\ PathStored(q)

(* A trace packet that comes back is reported as it is. *)
handle_trace_recv(q) ==
    /\ answers < MaxAnswers /\ answers' = answers + 1
    /\ q.kind = "trace"
    /\ results' = Reported("trace", q)
    /\ UNCHANGED <<txq, pending, hint, asked, told, routed, clockSet, tick, requests>>

(* The BLE task takes a result in its session loop and pushes it to the app. *)
BleTakes(k) ==
    /\ results[k] # << >>
    /\ results' = [results EXCEPT ![k] = Tail(@)] /\ told' = [told EXCEPT ![k] = @ + 1]
    /\ UNCHANGED <<txq, pending, hint, asked, routed, clockSet, tick, requests, answers>>

ReqTick == /\ tick < MaxTicks /\ tick' = tick + 1
           /\ UNCHANGED <<txq, pending, hint, asked, results, told, routed, clockSet, requests, answers>>

ReqNext ==
    \/ \E n \in Nodes : \/ SendTracePath(n) \/ SendBinaryReq(n) \/ SendStatusRequest(n)
                        \/ SendLogin(n) \/ SendTelemetryRequest(n) \/ SendPathDiscoveryReq(n)
    \/ \E ok \in BOOLEAN :
          \/ send_trace(ok) \/ send_login(ok) \/ send_telem_request(ok)
          \/ send_admin_status_request(ok) \/ send_binary_request(ok) \/ send_discovery_request(ok)
    \/ \E q \in asked : \/ handle_response_recv(q) \/ handle_trace_recv(q)
                        \/ \E long \in BOOLEAN : handle_path_recv(q, long)
    \/ \E k \in RequestKinds : BleTakes(k)
    \/ ReqTick \/ \E n \in Nodes : TxtHint(n)

ReqSpec == ReqInit /\ [][ReqNext]_reqVars

-----------------------------------------------------------------------------
(* Properties. *)

(* However often an answer is repeated, and whatever other answer carries   *)
(* the same tag, a kind of request that waits with a tag never yields more  *)
(* results than requests of that kind went on the air.                      *)
(* (mod.rs:544-608, meshcore.rs:2972-3110, 3330-3470)                       *)
OneResultPerRequest ==
    \A k \in Tagged :
        told[k] + Len(results[k]) <= Cardinality({q \in asked : q.kind = k})

(* A result handed to the BLE task belongs to a request of its kind:        *)
(* mod.rs:555-563 gives "silently misrouted into this request's result      *)
(* channel instead of being handled as its own (or ignored)" as what the    *)
(* timeout is there to prevent.                                             *)
ResultsOfTheirKind ==
    \A k \in RequestKinds : \A i \in DOMAIN results[k] : results[k][i].kind = k
=============================================================================
