----------------------------- MODULE BleSession -----------------------------
(***************************************************************************)
(* src/fw/mesh/ble.rs: the task that serves the companion app on a phone.  *)
(* One connection at a time; an outbox of notifications of bounded size;   *)
(* an event loop that races the oldest notification against GATT writes    *)
(* and push events, and that streams the contacts one slot at a time.      *)
(*                                                                         *)
(* The module composes MsgQueue, the source of the messages the phone      *)
(* fetches.  Of the some forty commands it keeps one for each way of       *)
(* touching the loop's state: "sync" pops a message, "contacts" starts a   *)
(* stream, "add" pushes three more notifications after its response, and   *)
(* "other" stands for all the commands that are answered by one response.  *)
(* The phone is external: it writes commands and hears notifications.      *)
(***************************************************************************)
EXTENDS MsgQueue, FiniteSets

CONSTANTS OutboxCap,     \* OUTBOX_CAP, 8 in the code
          MaxContacts,   \* MAX_CONTACTS, 300 in the code
          Commands,      \* the kinds of command the phone sends
          MaxCommands,   \* bound: commands the phone sends on its own
          MaxEvents,     \* bound: push events other than MessagesWaiting
          MaxLosses,     \* bound: lost links
          MaxNotifyErrors, \* bound: notifications that fail on a live link
          MaxChanges     \* bound: changes of the contact store

ASSUME SessionAssumption ==
  /\ {OutboxCap, MaxContacts, MaxCommands, MaxEvents, MaxLosses, MaxNotifyErrors, MaxChanges} \subseteq Nat
  /\ OutboxCap > 0
  /\ Commands \subseteq {"sync", "contacts", "add", "other"}

VARIABLES at,        \* where the task's loop is
          waiting,   \* MESSAGES_WAITING_SIGNAL
          outbox,    \* outbox
          stream,    \* contacts_stream: next slot and remaining count
          linkUp,    \* the radio link of the connection
          request,   \* the GATT write that waits for the task
          present,   \* the contact store's live slots
          count,     \* its contact count, a record of its own
          phone,     \* (external) the app: "idle", "wants" a message or "asked" for one
          heard,     \* (history) the messages the phone received
          kept, sent, grown,   \* (history) of a stream: the contacts never
                               \* removed, those sent, and whether one was added
          commands, events, losses, notifyErrors, changes

sessionVars == <<at, waiting, outbox, stream, linkUp, request>>
storeVars   == <<present, count>>
streamHist  == <<kept, sent, grown>>
budgets     == <<commands, events, losses, notifyErrors, changes>>
vars == <<queueVars, sessionVars, storeVars, streamHist, phone, heard, budgets>>

ContactSlots == 0 .. MaxContacts - 1
Entry(kind, n) == [kind |-> kind, n |-> n]
Kinds == {"waiting", "raw", "event", "msg", "nomore", "start", "contact", "end", "response"}
NoRequest == "none"
NoStream == [active |-> FALSE, slot |-> 0, remaining |-> 0]

\* Mutated form of OutboxPush: no room is made.
OverfullPush(box, entry) == Append(box, entry)
\* outbox_push: the oldest entry makes room when the outbox is full.
OutboxPush(box, entry) ==
  Append(IF Len(box) = OutboxCap THEN Tail(box) ELSE box, entry)

SessionInit ==
  /\ Init
  /\ at = "advertising" /\ waiting = FALSE /\ outbox = << >>
  /\ stream = NoStream /\ linkUp = FALSE /\ request = NoRequest
  /\ present \in SUBSET ContactSlots
  /\ count = Cardinality(present)
  /\ phone = "idle" /\ heard = << >>
  /\ kept = {} /\ sent = {} /\ grown = FALSE
  /\ commands = 0 /\ events = 0 /\ losses = 0 /\ notifyErrors = 0 /\ changes = 0

-----------------------------------------------------------------------------
(* The connection.                                                         *)

\* Mutated form of Rearmed: the signal is cleared for the new connection and left so.
ClearedOnly == FALSE
Rearmed == ~Empty

\* accept() returns, the stale signal is cleared and armed again when
\* messages wait, and the outbox starts empty.
Connect ==
  /\ at = "advertising"
  /\ at' = "top" /\ linkUp' = TRUE
  /\ waiting' = Rearmed
  /\ outbox' = << >> /\ stream' = NoStream /\ request' = NoRequest
  /\ phone' = "idle"
  /\ UNCHANGED <<queueVars, storeVars, streamHist, heard, budgets>>

\* The link goes: an unread write goes with it, and the phone starts afresh.
LinkLost ==
  /\ linkUp
  /\ losses < MaxLosses
  /\ losses' = losses + 1
  /\ linkUp' = FALSE /\ request' = NoRequest /\ phone' = "idle"
  /\ UNCHANGED <<queueVars, at, waiting, outbox, stream, storeVars, streamHist, heard,
                 commands, events, notifyErrors, changes>>

\* The Disconnected event ends the loop; advertising resumes 200 ms later.
Disconnected ==
  /\ at = "select" /\ ~linkUp
  /\ at' = "advertising"
  /\ UNCHANGED <<queueVars, waiting, outbox, stream, linkUp, request, storeVars, streamHist, phone, heard, budgets>>

-----------------------------------------------------------------------------
(* The top of the loop: one step of a contact stream, then the select.     *)

\* Mutated form of Spent: an empty slot counts as a contact sent.
SpentOnEmpty(slot) == 1
Spent(slot) == IF slot \in present THEN 1 ELSE 0

StreamDone == stream.slot >= MaxContacts \/ stream.remaining = 0

Top ==
  /\ at = "top"
  /\ at' = "select"
  /\ IF ~stream.active \/ outbox # << >>
     THEN UNCHANGED <<outbox, stream, sent>>
     ELSE IF StreamDone
     THEN /\ outbox' = OutboxPush(outbox, Entry("end", 0))
          /\ stream' = NoStream
          /\ UNCHANGED sent
     ELSE /\ stream' = [stream EXCEPT !.slot = @ + 1, !.remaining = @ - Spent(stream.slot)]
          /\ IF stream.slot \in present
             THEN /\ outbox' = OutboxPush(outbox, Entry("contact", stream.slot))
                  /\ sent' = sent \cup {stream.slot}
             ELSE UNCHANGED <<outbox, sent>>
  /\ UNCHANGED <<queueVars, waiting, linkUp, request, storeVars, kept, grown, phone, heard, budgets>>

\* The phone hears one notification.
Hear(entry) ==
  /\ heard' = IF entry.kind = "msg" THEN Append(heard, entry.n) ELSE heard
  /\ phone' = CASE entry.kind = "waiting" /\ phone = "idle" -> "wants"
                [] entry.kind = "msg" -> "wants"
                [] entry.kind = "nomore" /\ phone = "asked" -> "idle"
                [] OTHER -> phone

\* Mutated form of Sent: a delivered notification stays in the outbox.
Unsent(box) == box
Sent(box) == Tail(box)

\* notify succeeds: the phone hears the entry if the link still stands.
Notified ==
  /\ outbox # << >>
  /\ outbox' = Sent(outbox)
  /\ IF linkUp THEN Hear(Head(outbox)) ELSE UNCHANGED <<heard, phone>>
  /\ UNCHANGED <<queueVars, waiting, stream, linkUp, request, storeVars, streamHist, budgets>>

\* notify fails: the entry is discarded all the same.
NotifyFailed ==
  /\ outbox # << >>
  /\ outbox' = Tail(outbox)
  /\ notifyErrors' = IF linkUp THEN notifyErrors + 1 ELSE notifyErrors
  /\ notifyErrors' <= MaxNotifyErrors
  /\ UNCHANGED <<queueVars, waiting, stream, linkUp, request, storeVars, streamHist, phone, heard,
                 commands, events, losses, changes>>

\* In the select, either way the loop starts over.
Notify == at = "select" /\ at' = "top" /\ Notified
NotifyFail == at = "select" /\ at' = "top" /\ NotifyFailed

-----------------------------------------------------------------------------
(* Push events, taken in the select whether or not a notification is under *)
(* way; the notification stays at the front.                               *)

TakeWaiting ==
  /\ at = "select" /\ waiting
  /\ at' = "top" /\ waiting' = FALSE
  /\ outbox' = OutboxPush(outbox, Entry("waiting", 0))
  /\ UNCHANGED <<queueVars, stream, linkUp, request, storeVars, streamHist, phone, heard, budgets>>

\* An advert, a result, an acknowledgement: the events that are always queued.
TakeEvent ==
  /\ at = "select" /\ events < MaxEvents
  /\ at' = "top" /\ events' = events + 1
  /\ outbox' = OutboxPush(outbox, Entry("event", 0))
  /\ UNCHANGED <<queueVars, waiting, stream, linkUp, request, storeVars, streamHist, phone, heard,
                 commands, losses, notifyErrors, changes>>

\* A raw packet is dropped unless less than half the outbox is in use.
TakeRaw ==
  /\ at = "select" /\ events < MaxEvents
  /\ at' = "top" /\ events' = events + 1
  /\ outbox' = IF Len(outbox) * 2 < OutboxCap THEN OutboxPush(outbox, Entry("raw", 0)) ELSE outbox
  /\ UNCHANGED <<queueVars, waiting, stream, linkUp, request, storeVars, streamHist, phone, heard,
                 commands, losses, notifyErrors, changes>>

-----------------------------------------------------------------------------
(* Commands.  The write is acknowledged, the response queued, and the      *)
(* outbox drained before anything else is taken.                           *)

\* The response joins the outbox and the drain loop starts.
Respond(entry) ==
  /\ outbox' = OutboxPush(outbox, entry)
  /\ at' = "drain"

TakeSync ==
  /\ at = "select" /\ request = "sync"
  /\ at' = "popping" /\ request' = NoRequest
  /\ UNCHANGED <<queueVars, waiting, outbox, stream, linkUp, storeVars, streamHist, phone, heard, budgets>>

\* pop() starts.  An empty queue is answered at once.
SyncPop ==
  /\ at = "popping" /\ Idle(pop)
  /\ IF Empty
     THEN PopEmpty /\ Respond(Entry("nomore", 0))
     ELSE PopReserve /\ UNCHANGED <<at, outbox>>
  /\ UNCHANGED <<waiting, stream, linkUp, request, storeVars, streamHist, phone, heard, budgets>>

\* pop() returns: the message, and the signal once more if others wait, or,
\* when the slot holds no record or the read fails, the answer of an empty queue.
SyncAnswer ==
  /\ at = "popping" /\ (PopRead \/ PopFail)
  /\ IF got'.msg # NoRecord
     THEN /\ Respond(Entry("msg", got'.msg))
          /\ waiting' = (waiting \/ Count > 0)
     ELSE /\ Respond(Entry("nomore", 0))
          /\ UNCHANGED waiting
  /\ UNCHANGED <<stream, linkUp, request, storeVars, streamHist, phone, heard, budgets>>

\* The count is read from its own record; a stream under way starts over.
TakeGetContacts ==
  /\ at = "select" /\ request = "contacts"
  /\ request' = NoRequest
  /\ IF count > 0
     THEN /\ stream' = [active |-> TRUE, slot |-> 0, remaining |-> count]
          /\ Respond(Entry("start", count))
          /\ kept' = present /\ sent' = {} /\ grown' = (Cardinality(present) > count)
     ELSE Respond(Entry("nomore", 0)) /\ UNCHANGED <<stream, streamHist>>
  /\ UNCHANGED <<queueVars, waiting, linkUp, storeVars, phone, heard, budgets>>

TakeOther ==
  /\ at = "select" /\ request \in {"add", "other"}
  /\ at' = IF request = "add" THEN "drainThenAdd" ELSE "drain"
  /\ outbox' = OutboxPush(outbox, Entry("response", 0))
  /\ request' = NoRequest
  /\ UNCHANGED <<queueVars, waiting, stream, linkUp, storeVars, streamHist, phone, heard, budgets>>

\* Mutated form of DrainLeaves: the response is left to the select.
UndrainedLeaves == TRUE
DrainLeaves == outbox = << >>

Draining == at \in {"drain", "drainThenAdd"}

DrainOne ==
  /\ Draining /\ ~DrainLeaves
  /\ UNCHANGED at /\ Notified

\* A failed notification breaks out of the drain with the rest still queued.
DrainBreak ==
  /\ Draining /\ ~DrainLeaves
  /\ at' = IF at = "drain" THEN "top" ELSE "adding"
  /\ NotifyFailed

DrainEnd ==
  /\ Draining /\ DrainLeaves
  /\ at' = IF at = "drain" THEN "top" ELSE "adding"
  /\ UNCHANGED <<queueVars, waiting, outbox, stream, linkUp, request, storeVars, streamHist, phone, heard, budgets>>

\* After the drain an added contact is stored and announced by three entries.
Added ==
  /\ at = "adding"
  /\ at' = "top"
  /\ outbox' = OutboxPush(OutboxPush(OutboxPush(outbox, Entry("start", 1)), Entry("contact", 0)), Entry("end", 0))
  /\ UNCHANGED <<queueVars, waiting, stream, linkUp, request, storeVars, streamHist, phone, heard, budgets>>

-----------------------------------------------------------------------------
(* The other tasks.                                                        *)

sessionRest == <<at, outbox, stream, linkUp, request, storeVars, streamHist, phone, heard, budgets>>

\* The radio task: push, and the signal once push has returned, failed or not.
Receive == PushReserve /\ UNCHANGED <<waiting, sessionRest>>
ReceiveDone == (PushWrite \/ PushFail) /\ waiting' = TRUE /\ UNCHANGED sessionRest

\* Any task that changes contacts: the slot, and the count in a write of its own.
Counted == count = Cardinality(present)
AddContact ==
  /\ changes < MaxChanges /\ Counted
  /\ \E c \in ContactSlots \ present :
        /\ \A b \in ContactSlots : b < c => b \in present     \* the first empty slot
        /\ present' = present \cup {c}
  /\ grown' = TRUE /\ changes' = changes + 1
  /\ UNCHANGED <<queueVars, sessionVars, count, kept, sent, phone, heard, commands, events, losses, notifyErrors>>
RemoveContact ==
  /\ changes < MaxChanges /\ Counted
  /\ \E c \in present : present' = present \ {c} /\ kept' = kept \ {c}
  /\ changes' = changes + 1
  /\ UNCHANGED <<queueVars, sessionVars, count, sent, grown, phone, heard, commands, events, losses, notifyErrors>>
StoreCount ==
  /\ ~Counted
  /\ count' = Cardinality(present)
  /\ UNCHANGED <<queueVars, sessionVars, present, streamHist, phone, heard, budgets>>

\* A restart of the badge.
BadgeRestart ==
  /\ Restart
  /\ at' = "advertising" /\ waiting' = FALSE /\ outbox' = << >> /\ stream' = NoStream
  /\ linkUp' = FALSE /\ request' = NoRequest /\ phone' = "idle"
  /\ UNCHANGED <<storeVars, streamHist, heard, budgets>>

-----------------------------------------------------------------------------
(* The phone, external: it fetches messages once told that they wait, and  *)
(* sends other commands when it likes.                                     *)

PhoneSync ==
  /\ linkUp /\ request = NoRequest /\ phone = "wants"
  /\ request' = "sync" /\ phone' = "asked"
  /\ UNCHANGED <<queueVars, at, waiting, outbox, stream, linkUp, storeVars, streamHist, heard, budgets>>

PhoneCommand ==
  /\ linkUp /\ request = NoRequest /\ at # "advertising"
  /\ commands < MaxCommands /\ commands' = commands + 1
  /\ request' \in Commands
  /\ UNCHANGED <<queueVars, at, waiting, outbox, stream, linkUp, storeVars, streamHist, phone, heard,
                 events, losses, notifyErrors, changes>>

Phone == PhoneSync \/ PhoneCommand
Loop == \/ Connect \/ Disconnected \/ Top \/ Notify \/ NotifyFail
        \/ TakeWaiting \/ TakeEvent \/ TakeRaw
        \/ TakeSync \/ SyncPop \/ SyncAnswer \/ TakeGetContacts \/ TakeOther
        \/ DrainOne \/ DrainBreak \/ DrainEnd \/ Added
Others == Receive \/ ReceiveDone \/ AddContact \/ RemoveContact \/ StoreCount \/ LinkLost \/ BadgeRestart

SessionNext == Phone \/ Loop \/ Others
SessionSpec == SessionInit /\ [][SessionNext]_vars

\* The executor runs every task that is ready, the controller accepts a
\* notification in time while the link stands, and the phone fetches what it
\* was told of.  No new event, command or message need ever come.
Fairness ==
  /\ WF_vars(Top) /\ WF_vars(Notify) /\ WF_vars(TakeWaiting) /\ WF_vars(Disconnected)
  /\ WF_vars(TakeSync) /\ WF_vars(SyncPop) /\ WF_vars(SyncAnswer) /\ WF_vars(TakeGetContacts) /\ WF_vars(TakeOther)
  /\ WF_vars(DrainOne) /\ WF_vars(DrainEnd) /\ WF_vars(Added)
  /\ WF_vars(ReceiveDone) /\ WF_vars(StoreCount) /\ WF_vars(PhoneSync)
FairSpec == SessionSpec /\ Fairness

-----------------------------------------------------------------------------
(* Properties.                                                             *)

SessionTypeOK ==
  /\ TypeOK
  /\ at \in {"advertising", "top", "select", "popping", "drain", "drainThenAdd", "adding"}
  /\ waiting \in BOOLEAN /\ linkUp \in BOOLEAN /\ grown \in BOOLEAN
  /\ outbox \in Seq([kind : Kinds, n : Nat]) /\ Len(outbox) <= OutboxCap
  /\ stream \in [active : BOOLEAN, slot : 0 .. MaxContacts, remaining : 0 .. MaxContacts]
  /\ request \in Commands \cup {NoRequest, "sync"}
  /\ present \in SUBSET ContactSlots /\ count \in 0 .. MaxContacts
  /\ kept \in SUBSET ContactSlots /\ sent \in SUBSET ContactSlots
  /\ phone \in {"idle", "wants", "asked"} /\ heard \in Seq(1 .. MaxMsgs)

\* The entry a step displaces from a full outbox.
Displaced(entry) == /\ outbox # << >> /\ Head(outbox) = entry
                    /\ Len(outbox') = OutboxCap /\ Len(outbox) = OutboxCap
                    /\ outbox' # outbox

\* A message that was popped for the phone is displaced from the outbox only
\* when a notification failed: the drain that follows each response leaves
\* nothing behind (ble.rs:2064-2095).
MessageNotDisplaced ==
  [][\A n \in 1 .. MaxMsgs : linkUp /\ Displaced(Entry("msg", n)) => notifyErrors > 0]_vars

\* While nothing fails, the phone hears messages in the order of their
\* reception and none of them twice, except the stale record a pop reads
\* when it overtakes the push of its slot (ble.rs:852-857, 977-1070).
HeardInOrder ==
  errors = 0 /\ crashes = 0 /\ pushed < NumSlots =>
    \A i, j \in 1 .. Len(heard) : i < j => heard[i] < heard[j]

\* Queued messages are announced until the phone has fetched them: on a
\* connection that stands, where no notification is displaced by a flood of
\* events, the queue is emptied (ble.rs:643-647, 977-981).
Announced == (linkUp /\ at = "select" /\ ~Empty) ~> (Empty \/ ~linkUp)

\* A contact that stays in the store from GET_CONTACTS on is sent before
\* CONTACT_END if none is added meanwhile, whatever is removed (ble.rs:670-708).
StreamComplete == [][stream.active /\ ~stream'.active /\ at = "top" /\ at' = "select" /\ ~grown => kept \subseteq sent]_vars

\* README.md:302, "Stream all contacts (CONTACT_START/.../END)", and
\* ble.rs:655-657, "drained one KV read per loop iteration": a stream ends.
StreamEnds == stream.active ~> (~stream.active \/ ~linkUp)
=============================================================================
