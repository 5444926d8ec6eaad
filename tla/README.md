# BornHack Cyberægg: a TLA+ model of the badge firmware

This directory models the parts of the badge where steps of several tasks, power
losses, lost packets and long sequences of legal calls meet: the contact store,
the message queue and the inbox, the session with the phone, requests, channels
and floods on the mesh, the settings, alarms and calendar, the pet and its saves,
the friends list with its battles, the mini games, the screens, and what is in
flash: the firmware itself, the USB drive and the contact store at boot.  TLC
checks each model on small instances; TLAPS proves the most important facts for
every value of the constants.

Paths below are relative to the repository; `contacts.rs:1164` is a line of a
file under `src/`.  `PROJECT.json` maps every definition to its lines.

To run a check: `tlc -workers 2 -config Friends.cfg MCFriends`; section 3 gives
the module of each `.cfg`.
To check the proofs of a module: `tlapm PetLifeProofs.tla`.

## 1. The system

The firmware (about 50 000 lines of Rust) runs on one core under a cooperative
executor, with interrupts for the radio, the buttons and NFC.  A task runs until
it awaits something: a flash operation, a queue, a timer.  Between two awaits
nothing else of the application runs, so an action of the models is what happens
from one await to the next, and state that is read before an await and used
after it is where things go wrong.  State is shared through statics; everything
persistent goes through the key-value store (`fw/kv.rs`), whose writes are
atomic, may fail, and are lost if power goes first.

### Inventory

| component | state | operations | what makes it correct |
|---|---|---|---|
| contact store `fw/mesh/contacts.rs` | slots in flash; in RAM the index `ci`, the buckets `hi`, favourite flags, next position in the sync order, mutation lock | receive an advert, update a path, add, favourite, remove, clear_all, sync_since, rebuild at boot | no lookup finds another contact's slot; no update is lost; favourites are evicted last; the phone's sync cursor never goes back |
| contact screen `contacts_screen.rs` | RAM cache of the list, queue of four mutations | refresh, scroll, queue a mutation | the cache shows a state the store had |
| message queue `msg_queue.rs` | ring of slots in flash, `write_idx` and `read_idx` in RAM | push, push_direct, pop, count | a FIFO that drops the oldest; a pop loses nothing that is whole |
| BLE session `ble.rs` | connection, outbox, contact stream, message in hand | about seventy commands of the companion protocol | messages in order, once, never displaced; a stream ends and is complete |
| mesh core `meshcore.rs` | rings of seen hashes, pending acknowledgements, logins, TX channel of 16 | receive and dispatch, send, advert, path learning, retry | every packet handled once, every acknowledgement matched |
| private messages `pm_inbox.rs` | RAM ring, read cursors, unread count, composing | receive, read, send, acknowledge, evict | the count covers what nobody opened; a mark of delivery was acknowledged |
| channels `channels.rs`, `channel_browser.rs` | 40 slots in flash, the listener's table, MSG_SEEN, a ring of messages | boot, set, send, receive, scroll | no echo, no copy, the game's channel is there |
| settings, persister | atomics, keys of the store, signals | change, write, apply to radio and adverts | what was set last is in flash and in force when all rests |
| repeater `repeater.rs`, clock `repeater_time.rs` | ring of relayed packets; batch of time differences | relay; correct the clock | floods end; a majority of right clocks decides |
| radio driver, bonds | SPI state; five bonds | transmit, receive; pair | a timed-out transmission is retried once |
| pet engine `game/engine/` | stats, phase, cooldowns, conditions, money | update, nine actions, rewards, sleep, hibernate, next_wake_tick | time is charged once, a pet leaves when due, the display wakes in time |
| pet lifecycle `game/lifecycle.rs` | the pet, its name, the realm, flags | start, update, new generation, save_if_needed | what no flag claims is in flash; every departed pet recorded once |
| friends `game/friends.rs`, battles `game/battle.rs`, `battle_view.rs` | list of 20, tallies; picker's cursor | beacon, challenge, result, reset, save, load | ordered, no duplicates, tallies agree, boosts apart, the highlighted friend is fought |
| stations `game/station.rs`, `signed_channel.rs`, NFC | counters, cooldown | scan, verify, apply | one reward per scan and cooldown |
| mini-games | boards | moves | rules, one reward per cooldown |
| clock, alarms, calendar `src/watch/` | alarms, ringing state | tick, ring, stop, parse | an alarm rings once, at its time |
| display loop `lib.rs`, menus `menu.rs`, text entry, lock | active screen, overlays, focus of the text entry, cursors, padlock | press, draw, flush | a press acts on what is drawn; nobody is stranded |
| buttons, keyboard, buzzer, LED, power | latest output, external-power guards | | |
| USB storage, FAT `usb_storage.rs`, `fat12.rs` | blocks of a NOR flash; clusters and chains | write by the host, format at boot, read a file | a block holds what was written to it; a file reads as its chain says |
| bootloader `bootloader/` | the application slot, the download's state, the LED | power up, DFU download, monitor, factory reset | green means the image is whole |
| sprites, e-paper drivers, sensors, factory test, build scripts | | | data and hardware |

### How they interact

* The radio task dispatches a packet (`meshcore.rs`): an advert goes to the
  contact store, a text to the message queue (and a signal to the BLE task), a
  beacon or battle result on the private channel SHDW straight to the game.
* The BLE task is one `select` loop.  It pops from the message queue, reads the
  contact store slot by slot, and calls the same mutations as the radio task,
  the contact screen and the persister; the store's mutation lock orders them.
* The display loop draws the active screen.  Drawing the Game screen calls
  `lifecycle::cycle()`, which brings the pet up to date, and then
  `save_if_needed()`; the loop sleeps until `next_wake_tick()`.
* Beacons, battles, stations and mini-games change the pet between two drawings,
  from other tasks or from a button, without bringing it up to date first.
* A friend's beacon reorders the list the battle picker keeps a cursor into.
* A setting changed in the menu or by the phone raises a signal; the persister
  writes the key, the radio listener and the advert ticker take what concerns
  them.  The ends of alarms, hatching eggs, station taps and battles draw over
  whatever screen is active, and a press goes through two chains of early
  returns (`lib.rs` for the drawing, `menu.rs` and `game/input.rs` for the
  press) that have to agree.
* The contacts screen reads the store slot by slot into a cache, and sends its
  edits to the store through a queue of their own.
* The host writes the USB drive block by block while the badge reads files off
  it; the bootloader writes the same flash of the processor it starts from.

### What is hard

Awaits inside mutations (store, queue, save); power loss between two writes that
belong together; a radio that loses, repeats and delays; a full store, queue,
outbox, ring or list; a phone that goes away at any moment; an update that has
to charge hours at once exactly as if they had been watched; flags cleared after
the write they stand for; a timer against a late answer; a game that is left and
opened again.  `PROJECT.json` lists forty such places with the property that
watches each of them; one has none (a bucket write that fails half-way,
`contacts.rs:1286`), because nothing says what should hold afterwards.

## 2. Modules

**ContactStore** (`contacts.rs`, the auto-add of `meshcore.rs:997-1006`).  Tasks
(mesh, phone, screen, persister) issue calls; `req` is what a task has still to
do, `job` the mutation that holds the lock.  A mutation is cut at every flash
operation: `BeginAdd`, `UnlinkHi`, `UnlinkCi`, `WriteSlot`, `LinkCi`, `LinkHi`,
`WriteMeta`.  `Fail` makes the operation under way fail, `Crash` keeps `slot`,
`ci` and `hi` as flash has them and rebuilds the RAM side.  A contact is a key,
a last-advert time, a path and a favourite flag; the buckets are sets.

**ContactBoot** (`contacts.rs`, `init()` and what it calls).  What boot does to a
store another firmware wrote: a wipe after a change of format, a migration to
another capacity, cut at every key written or deleted, with power losses that
start it again over what it left.

**ContactScreen** (`contacts_screen.rs`, `discovery.rs` as the screen uses it).
The cache refilled slot by slot, the rows of nodes only heard of, list, popup,
detail and filter with their buttons, and the queue of edits that reaches the
store later, while the radio and the phone write it too.  In which order the
nodes heard of are added is left open (evictions shuffle them); a filtered list
is `RowsAt`, the rows at certain places in their order.

**MsgQueue** (`msg_queue.rs`).  Both indices, reserve and commit of a push, the
three steps of a pop.  **DropOldestFifo** is what it promises: a sequence,
`Push` drops the head when full, `Pop` takes it.  `MsgQueue` implements it under
the mapping that reads the ring from `read_idx` up to `write_idx` (`Fifo ==
INSTANCE DropOldestFifo WITH ...`).

**BleSession** (`ble.rs`) composes `MsgQueue` (by EXTENDS: its actions are
actions of the session) with the connection, the outbox, the contact stream and
the phone.  The contact store appears as the session uses it: slots that are
occupied or empty.  A `pc` names the await the BLE task stands at.

**PmInbox** (`pm_inbox.rs`, composing in `contacts_screen.rs`, sending and
acknowledging in `meshcore.rs`).  The ring, the read cursors, the unread count
kept beside it, the inbox and the thread, the transmit queue, and the search by
which a sender and an acknowledgement find their entry.

**MeshRequests** (`meshcore.rs`, `mod.rs`, `ble.rs`).  Requests of the phone to
other nodes: one pending tag per kind with its timeout, the order in which an
answer is tried against the tags, the bounded result channels.  A tag is the
second of the request; answers are lost, repeated, late, and come as RESPONSE or
as PATH.

**MeshChannels** (`channels.rs`, `channel_browser.rs`, the listener loop of
`meshcore.rs`).  Slots in the store, what boot makes of them, the table the
listener loads, MSG_SEEN, the ring of messages and the view of it.

**MeshFlood** (`repeater.rs`, the sending half of `meshcore.rs`).  Several
badges in reach of each other, what each puts on the air, with its route and
region, and what it relays.  A packet is a number: what a relay changes is its
path.

**MeshClock** (`repeater_time.rs`).  The clock as its distance from the truth,
the batch of differences and the correction by its median.

**Settings** (`settings.rs`, `persister.rs`, the handlers of `ble.rs`, the
listener's standby, the advert ticker, the BLE switch).  A setting is 0 or 1; a
signal is taken by whoever asks first; the persister reads, changes and writes
a key with an await between.

**Alarms** (`alarm.rs`, `clock.rs`, `watch/mod.rs`, the minute tick of
`embassy.rs`).  Time in seconds of a short day; the tick, ringing and its end,
the edit screen, the watch face, what is kept in flash.
**Calendar** (`calendar.rs`, `ics.rs`).  Import, quick events, sorting, the views
with their buttons; drawing is an action, because it fills in what a press left
open.

**PetEngine** (`game/engine/mod.rs`, the gates of `modal.rs`, stations, rewards).
The pet is a record with the code's field names and saturating 16-bit
arithmetic.  `Update` cuts the elapsed time into segments at the boundaries of
`ticks_to_next_rate_change()` and charges each; `Ready` is the table of gates;
`Start` and `CompleteAction` are the actions; `NextWake` the forecast.

**PetLife** (`lifecycle.rs`) abstracts the pet to what its saving depends on
(generation, phase, version counters, flags) and cuts `save_if_needed()` at its
four awaits: friends, realm, state, name.  Anything may happen between two of
them; a write may fail, and power may go at any of them.

**Friends** (`friends.rs`, `battle.rs`, `push_grp_data()` of `meshcore.rs`).
Several badges, a set of copies in the air, and per badge the list, its flag,
its saved copy and the ring of seen hashes.  A packet is what it says: the
envelope is a function of the payload, so two packets that say the same have one
hash (`meshcore.rs:729-744`).  History variables count what `TalliesAgree` and
`BoostsApart` speak of.  **BattlePicker** (`battle_view.rs`) extends it with the
screen that picks the opponent.

**Nim, TicTacToe, LightsOut, BornJeweled, BlackHole** (`game/*.rs`), one module
per mini-game: the boards, the owner's moves by the buttons, the computer's by
its rule, wins and rounds.  **GameBoard** has what they share.

**Ui** (`menu.rs`, `lib.rs`, `game/input.rs`, overlays) says which layer is drawn
and which one a press reaches, through the carousel, the menu tree and its
dialogs, the overlays and the flush sequences.  It extends **TextEntry** (the
text field with its special characters) and **Lock** (unlock windows and the
padlock).  Presses are those the lock let through; whether an alarm is ringing
at a press, and what a menu value is, is left open; the battle film and the PIN
popup are not drawn.

**Dfu** (`bootloader/src/`).  The decision at power-up, the download request by
request, the page written when the host asks for the status, the monitor that
turns the LED green.  The host repeats a block until it is answered and then
asks for the status; when it aborts or clears an error it starts the image over.
A power loss leaves a page half written.
**UsbDrive** (`usb_storage.rs`, `flash.rs`, the format of `fat12.rs`).  A block
is the set of its bits that are 1: a write only clears bits, an erase sets those
of eight blocks.  The bootloader's drive is the same with an erase each time.
**FatFile** (`read_file` of `fat12.rs`).  Every chain of a small volume, those
with cycles and bad links among them, read a link at a time while the host may
change one.

**MC...** modules give the constants of an instance.  Three of them put several
parts into one run: `MCMessaging` (session, inbox, requests, channels, flood,
clock, screens, lock, typing), `MCDevice` (queue, settings, alarms, calendar,
contacts screen, firmware, drive, file, boot) and `MCFriends` (friends and the
five games).  The variable `part` says which part a behaviour is of; the others
rest in their initial states.  The parts share no variable, so this is the union
of their state spaces and not their product: each is checked at bounds of its
own, and no interaction between two parts is claimed.  Parts that do interact
are composed in their modules (`BleSession` with `MsgQueue`, `BattlePicker` with
`Friends`, `Ui` with `TextEntry`).  **...Proofs** modules hold theorems.

## 3. Runs

| run (`.cfg`, module) | what it asks | instance |
|---|---|---|
| `contact_store` (`ContactStore`, `MCContactStore`) | indices, slots and count agree without faults; nothing dangles with them; no lost update; bucket room; favourites; clear_all | 3 keys, 2 hashes, 2 slots, buckets of 1, 3 calls, 1 power loss, 1 failed operation |
| `messaging` (`Messaging`, `MCMessaging`) | `HeardInOrder`, `MessageNotDisplaced`: order, no repetition, no displacement in the session | 3 slots, 2 messages, outbox 3, 3 events, 1 loss of the link, 1 failed notification, 1 restart, 1 error |
| | `InboxIsTruthful`: count and delivery marks | 2 peers, ring of 2, 3 messages, 3 seconds, 1 failed transmission |
| | `OneResultPerRequest` | 2 nodes, one of them known, 6 kinds, 2 requests, 2 answers, 2 ticks |
| | `ChannelsAreSound`: no echo, full view, game's channel | 2 slots, MSG_SEEN and ring of 2, 2 messages, 2 receptions, 1 power loss, 1 write of the app |
| | `FloodsAreSound`: floods end, keep to their region, tell the way they came | 3 badges in reach of each other, 2 regions and one without, 2 packets, 2 hops |
| | `MostAreRight`: a majority of right clocks decides | batches of 3, 5 timestamps, errors -4, -1, 0, 3 |
| | `UiIsSound`: a press acts on what is drawn, nobody is stranded, rows exist, drafts are kept, the padlock is honest | texts of 2 characters, 1 event row, 2 presets, 2 pages, 2 eggs hatch, 2 station taps |
| `device` (`Device`, `MCDevice`) | `ImplementsFifo`, `PopMissesOnlyInRace` | 3 slots, 8 messages, 2 restarts, 2 errors |
| | `ChangesReachFlash` | 2 changes, 1 power loss, 1 failed operation |
| | `RingsOnTime`, `AlarmsAreSound` | 2 days of two minutes of 3 seconds, 1 event, 1 change of the clock, 4 presses, 1 restart |
| | `DaysAreShown` | 3 event slots, days of 4 hours, 5 presses, 1 quick event |
| | `ScreenFollowsStore` | 3 keys, store, cache and lists of 2, queue of 1, 2 adverts, 1 change by others, 4 presses, 1 failure |
| | `FlashIsSound`: a green LED means a whole image | 2 pages of image, 7 requests, 2 power cycles |
| | a drive holds what was written | 2 sectors of 2 blocks of 2 bits, 2 writes, 2 boots, errors anywhere |
| | a file reads as its chain says | 2 clusters of 2 bytes, files up to 5 bytes, 1 changed link |
| | the contact store is readable after `init()` | capacity 2 after 1, 2 or 4, 2 buckets, 3 boots, 1 error |
| `ble_live` (`BleSession_live`, `MCBleSession`) | a message is announced until fetched; a stream is complete when nobody is added | 2 slots, 1 message, outbox 5, 2 contacts, 1 command, 1 push event, 1 loss, 1 restart, 1 change |
| `pet_engine` (`PetEngine`, `MCPetEngine`) | leaving, coalesced time, wake-up, money, rewards, hibernation | shipped thresholds, 5 saves, 3 steps, gaps of 10 s and 2 h |
| `pet_life` (`PetLife`, `MCPetLife`) | flags against flash, the realm against history, lists settle | realm of 2, 2 eggs, 7 changes, 1 fault |
| `friends` (`Friends`, `MCFriends`) | order, tallies, boosts | 2 badges, 2 strangers, list of 2, ring of 2, 3 packets, 1 upset |
| | `GamesAreSound`: opponents, puzzles, scores | Nim with rows 1, 3, 5, 7; 3 x 3 boards; Lights Out begun with 1 or 2 random toggles, 1 press; Born Jeweled with 2 gems and 2 moves; Black Hole with 3 rows |
| `sync_cursor_rewinds` (`ContactStore_sync`, `MCContactStore`) | does the phone's cursor ever go back? It does | 1 key, 1 slot, 3 calls |
| `ble_stream_stalls` (`BleSession_stall`, `MCBleSession`) | does a stream always end? It does not | 3 contacts, 1 change |
| `pet_protection_lapses` (`PetEngine_protection`, `MCPetEngine`) | is a protection window honoured to its end? It is not | the pets of `pet_engine` |
| `pet_reward_unflagged` (`PetLife_earned`, `MCPetLife`) | does HAX earned keep its flag until written? It does not | realm of 1, 1 egg, 3 changes |
| `battle_wrong_friend` (`BattlePicker`, `MCBattlePicker`) | is the highlighted friend the one fought? Not always | 2 badges, 2 strangers, 3 packets |

**Why the bounds are enough.**

* ContactStore: two slots and three keys force evictions, two hashes with
  buckets of one force a full bucket beside a free one, three calls put one
  mutation in the lock with two waiting; a fourth only waits longer.
  `sync_cursor_rewinds` needs one contact.
* MsgQueue: eight messages wrap three slots more than twice, with the queue full
  and empty on the way.  BleSession: an outbox of three is filled by one message
  and its company.  In `ble_live` one message is received before, during or
  between connections; order is the question of `messaging`, with two.
* PmInbox: a ring of two evicts with the third message, read or unread.
  MeshRequests: two requests are two of one kind or one of each of two, within a
  second or apart; two answers are an answer and its copy, or two answers that
  cross.  MeshChannels: rings of two forget with the third packet.  MeshFlood: a
  triangle is the smallest cycle, two packets meet in one queue.  MeshClock: a
  batch of three has a majority of two, five timestamps are a batch and part of
  the next.
* Settings: two changes are one under way and one during its write.
* Alarms: two days of two minutes have the alarm at either side of midnight and
  of the weekend.  Calendar: two visible hours of four and one visible row make
  every view scroll; three events in one import overlap, span midnight and have
  no length.  ContactScreen: three keys over a cache of two are cut.
* PetEngine keeps the real thresholds, so its states are few but long apart: gaps
  of one unit (ten seconds) and of 720 units cross every countdown from both
  sides, and five saves stand just before the events that take days.  PetLife: a
  realm of two with three departures is full once.  Friends: a list of two is
  full from the start, so a stranger displaces a friend; a ring of two forgets
  with the third packet.
* Games: the boards are small enough to play every game to its end.  Black Hole
  with three rows has six cells and five numbers, so the owner places the last;
  with the code's six rows the computer does.  Lights Out begins as the
  code does, with toggles from the solved board.
* Dfu: seven requests are a download of two pages, the end, its status and one
  request too many, lost or repeated.  UsbDrive: the boot sector and the FAT
  share a sector, the directory shares one with data.  FatFile: files end before,
  at and after the end of their chains; two clusters with a cycle let a walk go
  on past both.  ContactBoot: an older store is larger and smaller than this one.

**Fairness.**  Only `BleSession` and `PetLife` state any.  In `BleSession` the
executor runs every task that is ready, and the controller takes a notification
while the link stands (weak fairness of each step of the BLE task); the phone
fetches a message it was told of; new events, commands and messages need never
come.  In `PetLife` a flash write that was started returns, with either result
(weak), and the save runs again and again while the Game screen is drawn (strong:
the owner may leave that screen and come back).  Nobody is obliged to do
anything else.  Saving happens only while that screen is drawn
(`game/mod.rs:860`), so without the strong fairness `ListsSettle` would be false,
as it is on a badge left in a menu.  Elsewhere what has to happen in the end is
stated for the states in which nothing is under way any more
(`ChangesReachFlash`, `ScreenFollowsStore`, `AlarmIsKept`), or with a count of
time (`RingsOnTime`, `StopsByItself`).

Deadlock checking is off throughout: calls, messages and steps are bounded, and
a badge that nobody uses may stand still.

Every property of a passing run has a mutant of the model, a plausible slip in
the code, that TLC finds with that property under the same configuration.
`MsgQueue`'s `TypeOK` is proved (`IndicesInRange`) and is no property of a run.

## 4. What the runs show to be wrong

Five runs end in a counterexample to what the repository says of itself:

* `SyncMonotone`: an advert of a known contact sets its sync position to 0
  (`contacts.rs:1164`).
* `StreamEnds`: a contact stream that meets an empty slot leaves the outbox
  empty and waits for an event that need not come (`ble.rs:748`).
* `ProtectionWindowHolds`: the segment that ends with a protection window is
  charged as if the window were over (`engine/mod.rs:588`).
* `EarnedIsFlagged`: the flag of what was earned during the state's write is
  cleared when the write returns (`lifecycle.rs:888`).
* `HighlightedIsChallenged`: a beacon moves the list under the picker's cursor
  without a redraw (`battle_view.rs:388`).

### Statements that no run checks

These are defined in the modules, next to the line they quote, and the model
violates them; they are kept for whoever changes that code.

| statement | of | what happens |
|---|---|---|
| `PmInbox!AckMarksItsMessage` | `meshcore.rs:1783-1787` | with two messages to a peer waiting, sending the first stamps the second, and the acknowledgements mark each other's |
| `MeshRequests!ResultsOfTheirKind` | `mod.rs:555-563` | requests of two kinds in one second have the same tag; the answer of one goes to the other |
| `MeshClock!RightClocksKeepItRight` | `meshcore.rs:604-607` | a direct packet counts as 63 hops, so right clocks put the badge's minutes off |
| `MeshChannels!OnThePublicChannel` | `channels.rs:67-70` | a first boot cut while it writes the empty slots is no first boot the next time: slot 0 stays empty |
| `MeshChannels!ChannelIsFound` | `meshcore.rs:1396-1398` | there is no fallback: a message for a slot set since the last reload is dropped |
| `Settings!RadioComesBack`, `SwitchIsKept` | `lib.rs:383` | persister and listener wait for one signal: whoever takes it, the radio stays in standby or the switch is not saved |
| `Settings!BleOffStopsAdvertising` | `lib.rs:387` | a badge that advertises when it is switched off goes on until a phone has come and gone |
| `Settings!PolicyIsKept` | `persister.rs:185-199` | the persister's read-change-write of `OtherParams` overwrites the app's change |
| `Settings!TelemetryModeTakesEffect` | `ble.rs:2138-2155` | the mode is written to flash and to the session's copy, the one in use stays |
| `Calendar!TimelineShowsEvents` | `calendar.rs:786-789` | an event that ends after midnight has an end before its start, and is not drawn once the end is above the window |

### Others met while modelling

In the models, or read in code they abstract:

* Contacts: auto-add looks for room (`meshcore.rs:997-999`) and adds later (1006),
  so it may evict after all; a power loss between two writes leaves a second
  copy (`contacts.rs:1278`) or a bucket that is fuller than the index knows
  (1253); after a failed write of the bucket (1286) a contact is stored and
  cannot be found by its hash; after a failed write of meta (1288) nothing is
  marked for the screen; `clear_all` misses an orphan (1337).
* Boot: the wipe deletes "every slot key" of this firmware's capacity only, so a
  larger old store leaves orphans; power lost between meta and the buckets leaves
  stale buckets, which may be full for new contacts; a migration to a smaller
  store leaves bucket entries of deleted slots.  `init` is to run "before spawning
  any task that reads or writes contacts" (`contacts.rs:860-861`);
  `embassy.rs:418-420` spawns two of them first.
* Contacts screen: popup and detail keep an index into a cache that is refilled;
  a full edit queue drops an edit (`contacts_screen.rs:870-893`) after the row
  was changed; Add of a discovery entry that was evicted leaves a row of a
  contact nobody stores; a contact cut from the cache and heard again is shown
  as not saved; the filter "resets on screen exit" (466), but `reset()` has no
  caller; adverts that come every second put the refresh off for ever.
* Queue: a pop that races a push (`msg_queue.rs:246`); indices in RAM only (103)
  where the file's first line calls the queue persistent.
* BLE: a stream misses a contact when one is added meanwhile (`ble.rs:674`).
  Raw packets stay queued and count against the outbox (2276).  The radio's power
  is set from a stale copy (1571-1573); a fifth bond is not stored.
* Mesh: the advert signal reaches one of its readers; the radio is told to apply
  parameters after a write of them that failed (`persister.rs:171-182`);
  `meshcore.rs:126` says "next reboot" of what is read live; `log_advert` says ten
  minutes where `repeater_time.rs:50` has an hour; `send_pm` (`meshcore.rs:1902`)
  has no caller.
* Alarms: an import at boot switches an event on again that has rung
  (`alarm.rs:682-683`).
* Pet: stations, beacons, inspiration and battles act on the pet as last drawn,
  and the time since is charged afterwards (`station.rs:79`), where `station.rs:11`
  says "restored to full"; a battle is recorded for a pet that left;
  `next_wake_tick()` ignores the faster sleep tiers; an egg's hatching update
  discards the time beyond hatching; the tables of `GAME.md` are out of date.
* Saves: a power loss between the realm's write and the state's records the
  departed pet twice (`lifecycle.rs:690` says once); a pet that leaves during
  the state's write is not saved as gone and is back after a restart; the name
  of the last pet survives into a new generation (108-124).
* Friends: `FriendRecord` says the tally "reads the same from either side"
  (`friends.rs:127-129`); the radio, a reboot before the save and a full list
  prevent it, and so does the ring of hashes: a result that says what an earlier
  one said is dropped as its copy.  `TalliesAgree` excuses exactly these.  For
  the same reason a beacon that says nothing new does not refresh `last_seen`
  although `friends.rs:104-108` says every sighting does.
* Screens: an alarm "eats the first button press anywhere" (`menu.rs:526-528`),
  but the game is asked first (`button.rs:112-126`); a station's pull while the
  realm or the scan is open, or a battle film, sends presses to what is not
  drawn; a pet that leaves during a mini-game leaves the game drawn while Fire
  opens the choice of pets; the keyboard's keys pass the lock
  (`embassy.rs:1316-1350` against `lock.rs:3-6`); a toggle the phone changes while
  its question is up is inverted (`menu.rs:1783-1790`); an extra Down before the
  flush leaves a sequence that never completes (`display_flush.rs:53-58`); the PIN
  popup "on every screen" (`lib.rs:748-749`) comes after early returns; the "Play
  Music" submenu is out of reach; the naming prompt replaces the draft of a
  writer a station pulled away (`game/mod.rs:760-763`), which `DraftIsKept`
  excuses.
* Bootloader: the address is not reset by ABORT or CLRSTATUS and block numbers
  are not looked at, so a download started over without a reset is appended to
  the first and ends in green; GETSTATUS answers Ok in an error; an image cut
  after its first page is started, one cut inside it halts.  `GreenMeansFlashed`
  excuses a download that was started over.
* Drive: the format writes the boot sector first, so a power loss afterwards
  leaves a volume that is taken for formatted (`fat12.rs:656-660`); the "data
  region is left as-is" except for the sectors that share an erase sector with
  the directory.

## 5. Proofs

Eight modules, for every value of the constants that the `ASSUME`s allow: any
number of slots, keys, badges, peers and parameters, any capacity, any bound on
calls, packets, failures and power losses.  Each theorem follows the same
argument: an inductive invariant `IInv` that implies the property, a lemma per
step (or per handler several steps share) that it is preserved, and a last step
in temporal logic.  `PROJECT.json` lists the theorems; this is why the
invariants are what they are.

**ContactStoreProofs.**  `TypeCorrect`; `CrashLeavesNoDanglingLookup` (no index
entry points at a slot without its key, at any instant and after any number of
power losses, if no write fails); `MutationsSeeLatest`; `FavouritesEvictedLast`.
`NoDangling` is not inductive: a mutation is half done most of the time.  `IInv`
adds that only the holder of the lock is inside a mutation (`LockInv`), that the
slot still holds what that mutation read (`OldInv`), that what it will write is
well formed (`NewInv`), and that, unless a write failed, no index points at a
slot that is about to be overwritten by another contact (`UnlinkedInv`).  The
choice of a victim is the least element of a set of naturals, whose existence
(`LeastNatural`) is proved from the well-foundedness of the subset order on
finite sets.

The second half of that module is about the indices: `StoresAgree` (both indices
and the count describe exactly the live slots between mutations),
`PreCheckKeepsRoom` (the room the full-bucket check saw is there when the slot
is linked) and `ClearAllSound`.  `Exact` says for each write of a mutation what is missing from
which index at that instant (`AllLinked`), how full the bucket of the contact to
come may be (`AddFits`), that nobody else holds its key (`AddIsNew`), and which
count belongs to which point (`Counted`).

**BleSessionProofs**, first part, the queue: `IndicesInRange`,
`PopMissesOnlyTheRace`, and `QueueImplementsFifo`, the refinement: the reserve
step of a push and of a pop are `Push` and `Pop` of `DropOldestFifo`, every other
step leaves the mapped sequence alone.  The wrap-around is treated by cases
instead of by `%` (`AdvanceCases`, `RingHolds`).  `IInv` says that every slot
holds the message it was last given to, except the one whose push has not
reached the flash yet (`Settled`), and that a push and a pop under way hold the
message of their slot.  Second part, the session: `SessionUsesTheQueue` (every
step of the session is a step of the queue or leaves it alone, so that what is
proved of the queue holds in the composition), `PhoneHearsInOrder` and
`MessagesAreNotDisplaced`.  `HeardInv` lines up what was heard, the outbox and
what was popped (`InOrder`) over a ring that has not been filled (`Growing`);
`Drained` says that a message is in the outbox only while the drain sends it,
unless a notification failed.

**PetEngineProofs.**  All six properties of `pet_engine`, for every table of
thresholds, every save and gaps of any length: `LeavesWhenDue`,
`LooksDoNotMatter`, `WokenInTime`, `WorkIsAlwaysThere`, `RewardedOnce` and
`StaysFrozen`.  `update()` is a loop, `Charge` in the model.  Each of its
segments is at least a tick and no longer than what is left (`AdvanceStep`), so
the recursion is well founded and `Charge` is the function its definition
describes (`ChargeExists`, `ChargeUnique`, `ChargeEquation`); what every segment
keeps, the whole update keeps (`ChargeInduction`).  `Worn` and `Brought` say what
n ticks leave of a pet as one sum, whatever the boundaries between the segments
were: the action in progress takes its ticks, the rest wears weight,
drunkenness and cooldowns down by saturating subtraction, which adds up
(`SaturatingTwice`).  Two looks are then two terms of one sum (`BroughtTwice`),
and the wake-up is no later than the least of the terms (`WakeNoLater`).  The
invariant `Inv` is short, since operations move stats and leave that bookkeeping
alone (`Still`): the pet is one `GameState` allows, countdown and phase agree
(`CountdownAgrees`), an action in progress has ticks left and Only pets cools
down no longer than Play (`ActionSound`), and the game on screen has its reward
due while the pet is not hibernating.

**PetLifeProofs.**  `TypeCorrect`, `ListsAreSafe`, `PetIsSafe`,
`RealmIsFaithful`.  `IInv` is the conjunction of type correctness, the counters,
the lists' flags against flash and the buffer being written (`ListsInv`), the
same for the pet (`StateInv`) and its name (`NameInv`), the history of departed
pets (`HistoryInv`) and `RealmIsHistory` itself.

**FriendsProofs.**  `FriendsAreOrdered`, `BoostsKeepDistance`,
`BattlesTallied`.  `ListsInv`: the list in RAM and the one in flash are ordered
and without duplicates, and a friend's record never predates the last boost
(`BoostInv`), which is what a reboot in between could break.  `NetInv`: the ring
of hashes is the tail of what was handled (`LastSeen`), and a result that was
sent is handled by its target, on its way to it, or its pair is excused.
`TallyInv`: the two tallies of a pair differ by the results on their way.
Two mini games are proved about here too, the parts of `GamesAreSound` in reach.
`LightsAlwaysSolvable`: a lamp's toggle meets either mask of `is_solvable` in
none or two lamps (`RowsOfCross`, `ColsOfCross`), so it keeps both parities
(`TwoFlips`), and the boards `open` mixes are solvable by the least number of
toggles that would not be (`MixesAreSolvable`).  `TokensCounted`: the cells empty
and the moves made add up to the same number throughout (`Filled`), so one cell
is left when the last move is made (`OneHole`), for any choice of the computer's
among the empty cells.

**InboxUiProofs.**  `InboxTellsTheTruth`.  `InboxIsTruthful` compares counts;
`EntryInv` tells entries apart by an id wherever `swap_remove` moves them,
`CursorInv` says that what was opened is no younger than its peer's read cursor,
so that each unread message is one the badge still owes (as long as there is a
cursor per peer), and `HashInv` that an acknowledgement's hash is stamped once,
into an entry for the peer it was sent to.
`ScreensSound`, of the screens, the text entry and the lock side by side.  Its
invariant says of every menu, in whatever order it was walked, that both cursors
are on rows which are no lines, that an edited row is one with a value and a
question is asked by the row under the cursor (`MenuOK`; the tables of rows are
gone through one by one, `TablesAreOK`, and a row's kind tells the rest,
`RowOK`); of the text entry, that its state is one of finitely many places and a
picker's cursor is in its table (`Places`).  `DraftInv` is why the naming prompt
takes no draft: on the game's screen an entry is open only if a tap led there or
it is the prompt itself, and while a pet is being named no egg hatches and no
name is due.  That a press acts on what is drawn then follows from two facts: a
view of the game is open on its screen only (`ViewInv`), and the two pages of the
menu, which are drawn before a question, have no row that asks one
(`PagesAreIdle`).

**MeshProofs.**  `OneResult`: a kind's pending slot holds the right to one more
result, and that right was paid for by a request on the air (`PaidFor`);
requests in the queue are later than those on the air, so none is counted twice.
`FloodsSound`: while the relay's ring has not wrapped, every badge has at most
two rights to send a packet, one as its source and one as its relay, and each
transmission used one up (`Unwrapped`); a copy in a queue may pass there, was
made there, and its path follows links through badges that noted the packet.
`ChannelsSound`: what was sent or passed on is in MSG_SEEN until it wraps
(`SeenInv`), so that neither an echo nor a copy reaches the app; the heights of a
view are sums over a prefix of its messages, which exist (`SumsExist`) and grow
(`SumsGrow`), so that the last message the window shows is the last that fits
(`WindowIsFull`); and the game's channel is in the listener's table from its
loading on (`GameInv`).
`MajorityDecides`: the median is the least value that most of the batch do not
exceed, it exists (`MedianExists`), and a majority of good samples has one on
either side of it, so that it is good itself (`MedianIsGood`).

**DeviceProofs.**  `SettingsReachFlash`: a value not in flash is announced or in
the persister's hand, and a stale value in its hand is announced again
(`NotForgotten`, `NotStale`); the same of the radio's parameters on their way to
the listener (`RadioFollows`).  `AlarmsStopAndAreKept`: an alarm has not rung
longer than the repeats already played allow (`RingEnds`), and a key that flash
does not hold as it is set is still to be written (`KeptInTime`).
`AlarmsRingOnTime`: the tick is aligned with the minutes of the clock, or the
clock was set since the last tick and has not been steady for a minute
(`TickInTime`).  `ScreenTellsTheStore`: `ScreenFollowsStore` speaks of quiet
states only, so `ScreenInv` says of every state what is known of each key, as
long as the store is not marked dirty, no mutation is under way and nothing was
cut: in a scan, the rows so far tell what the slots read so far hold of it;
outside, the cache tells what the store holds of it, or an edit is queued that
would still change the store (`Owed`).  A write takes that away, the mark after
it makes the store dirty, and the next scan brings it back.  It rests on what
`insert_sorted` does to the rows (`InsertedRows`, `FillKeeps`, `RowsAtPlaces`)
and on no key being both saved and not (`RowsSound`), without which an edit of
one row could leave another of the same key behind.
`DaysNeverLookEmpty`: an action property, so what is left is that a drawing of a
day with events draws one: the list's first row, clamped by the last visit's
scroll, is a row of this day (`ListTopInRange`), whatever the buttons made of
the scroll meanwhile (`CalNextTypes`).
`FlashStaysSound` puts four invariants together, each of a part that shares no
state with the others.  The bootloader (`DfuInv`, `GreenIsFlashed`): up to the
block a run has reached, the partition is the image that was checked, so that a
run which ends green has written all of it, and a new image finds no run under
way.  The drive (`DriveInv`, `DriveKeepsBlocks`): for every sector a write has
been through, the block holds what the host sent or the page still in the cache
does, and that page differs from flash in no other sector.  The reader of files
(`FatInv`, `FileReadsItsChain`): the cached cluster is the one the chain has at
the cached index, whichever seeks came before; the walk is a recursive function,
whose existence follows from the well-foundedness of the naturals
(`NthClusterIs`).  The contact store at boot (`BootStoreInv`,
`StoreStaysReadable`): the metadata names a version and a capacity only after
every slot that version cannot read was wiped, in the order of the writes, with
a loss of power between any two of them.

Assumptions a proof needed are named in the module that declares the constants,
and TLC evaluates them: that a marker for "nothing" is none of the values it
stands beside (`NoTime`, `None`), that the thresholds are of their unsigned types, what
the code divides by is not zero and the leaving thresholds of one, two and three
maxed stats do not increase (`ThresholdsSound`; both presets are so, and the
keys of `BORNPETS.CFG`, `thresholds.rs:472`, keep it so), that a saved pet is
one a badge in the same mode can have written (`InputsSound`; a change between
Classic and Casual, whose leaving thresholds differ, is not
covered), that the persister is none of the other tasks
of the store, that there is at least one slot, and that a list a save holds
(`SavesAssumption` of `Friends`) is one the badge can have written: bounded,
without duplicates and without itself, that a channel's text takes a number of
lines and the marker of a direct packet is a byte (`LinesOfMsg`, `DirectByte`), and that the
triangle of Black Hole has at least two rows: on one cell a game would be over
with no hole.  The number of peers is finite, and so is
that of event slots.

Only model-checked:

* Liveness (`Announced`, `StreamComplete`, `StreamEnds`, `ListsSettle`): the
  prover handles neither fairness nor ENABLED.
* What a recursive definition computes for every input: the value of a game of
  tic-tac-toe, the nim sum, the cascade of gems, and with them `GamesAreSound`,
  of which Lights Out's and Black Hole's parts are theorems.
* The five statements of section 4 and those no run checks, which are false.

## 6. Not modelled

`PROJECT.json` gives each component's status and reason.  In short:

* Drawing, fonts, the emoji table, sprites and wording: no state another part
  reads.  What is drawn is modelled where a press or a promise depends on it
  (`Ui`, `Calendar`, `ContactScreen`).
* Drivers of the panels, the radio chip, NFC, sensors, buzzer and LED: sequences
  against hardware whose behaviour is not in the repository, or outputs nobody
  reads back.  External power is held by guards that release on drop.
* Cryptography: packet encryption, and the signed channel of the stations.
* Parsing into data: SCSI answers, the directory scan, the configuration files
  and the bytes of `ALARMS.ICS`.
* The libraries below the key-value store (a write is atomic and may fail).
* The commands of the phone that answer from a value read once (device info,
  telemetry, key export), identity and bonds, which one task writes.
* `battle::simulate()`: its numbers are game balance; nothing but the result
  leaves it.
* The factory test, the desk simulator, and the bootloader's factory reset.

## 7. Plan

Done, in this order: 1 ContactStore with proofs, 2 MsgQueue with its abstract
FIFO and proofs, 3 BleSession, 4 PetEngine, 5 PetLife with proofs, 6 Friends and
BattlePicker, 7 Settings, 8 PmInbox, MeshRequests, MeshChannels, MeshFlood,
MeshClock, 9 Alarms and Calendar, 10 ContactScreen and ContactBoot, 11 the
mini-games, 12 Ui with TextEntry and Lock, 13 Dfu, UsbDrive and FatFile.

What is left that a model could still say something about: the station's
challenge and counter as a protocol of two parties, the directory scan against
files that change, and the power votes.

Theorems next: Nim and Born Jeweled, as far as their folds allow.  Out of reach:
what section 5 lists under liveness and under recursive definitions; the loop of
`PetEngine`, the walk of `FatFile` and the heights of `MeshChannels` were within
reach because their recursion descends in a number.
