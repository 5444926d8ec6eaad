---------------------------- MODULE ContactScreen ----------------------------
(* The Contacts screen (src/fw/mesh/contacts_screen.rs): a RAM cache of    *)
(* rows that a task of its own refills from the contact store and from the *)
(* adverts heard since boot, the list, popup and detail views that act on  *)
(* it, and the queue through which the popup's edits reach the store.  An  *)
(* edit changes the cached row at once and the store later, or never.      *)
(*                                                                         *)
(* Abstractions: ContactStore models the store write by write; here it is  *)
(* its slots, and a mutation is its slot write and then mark_dirty, with   *)
(* what other tasks do in between.  A row keeps its key, favourite flag,   *)
(* origin and time of hearing; last_advert_ts is the same for all, no two  *)
(* adverts are of the same second, and drawing is what rows it shows.      *)
EXTENDS Integers, Sequences, FiniteSets, SequencesExt

CONSTANTS
    ContactKeys,   \* public keys
    NodeType,      \* [ContactKeys -> NodeTypes]
    StoreSlots,    \* MAX_CONTACTS
    CacheCap,      \* CACHE_CAP
    ObsCap,        \* OBSERVATIONS_CAP
    DiscCap,       \* discovery CAP
    EditCap,       \* capacity of MUTATION_QUEUE
    VisibleRows,   \* VISIBLE_ROWS
    NoContact,     \* a free slot
    InitialStores, \* the stores the badge may boot with
    MaxHeard,      \* bound: adverts heard
    MaxChanges,    \* bound: mutations by other tasks
    MaxKeyPresses, \* bound: button presses
    MaxFailures    \* bound: failed flash operations

NodeTypes == {"chat", "repeater", "room", "sensor"}

ASSUME ContactScreenAssumption ==
    /\ NodeType \in [ContactKeys -> NodeTypes]
    /\ {StoreSlots, CacheCap, ObsCap, DiscCap, EditCap, VisibleRows} \subseteq Nat \ {0}
    /\ {MaxHeard, MaxChanges, MaxKeyPresses, MaxFailures} \subseteq Nat
    /\ IsFiniteSet(ContactKeys)
    /\ NoContact \notin [key : ContactKeys, fav : BOOLEAN]
    /\ InitialStores \subseteq [1 .. StoreSlots -> {NoContact} \cup [key : ContactKeys, fav : BOOLEAN]]

VARIABLES
    stored,    \* the store's slots
    marking,   \* what the mutation under way has written: "none", its "slot", or
               \* its slot with meta still to come; mark_dirty is next
    stale,     \* STORE_DIRTY
    nudged,    \* REBUILD_SIGNAL
    refresh,   \* refresh_cache_task: where it is, the next slot, the rows so far
    cache,     \* CACHED_CONTACTS
    heard,     \* OBSERVATIONS: the time each key was heard, 0 for not
    found,     \* the discovery cache, likewise
    edits,     \* MUTATION_QUEUE
    browser,   \* BROWSER
    astray,    \* history: keys whose edit or mark_dirty was lost since the last scan
    cut,       \* history: a saved contact fell out of the cache since the last scan
    tallies    \* bounds: adverts, changes, presses, failures so far

screenVars == <<stored, marking, stale, nudged, refresh, cache, heard, found,
                edits, browser, astray, cut, tallies>>
storeSide == <<stored, marking, stale>>
----------------------------------------------------------------------------
(* The rows and the cache. *)

Contacts == {stored[i] : i \in 1 .. StoreSlots} \ {NoContact}
Holding(k) == {i \in 1 .. StoreSlots : stored[i] # NoContact /\ stored[i].key = k}

FromContact(c) == [key |-> c.key, fav |-> c.fav, saved |-> TRUE, at |-> heard[c.key]]
FromDiscovery(k) == [key |-> k, fav |-> FALSE, saved |-> FALSE, at |-> found[k]]

ContactRow == [key : ContactKeys, fav : BOOLEAN, saved : BOOLEAN, at : Nat]

(* insert_sorted: latest heard first, behind rows as recent, and no more   *)
(* rows than the cache holds.                                              *)
InsertSorted(rows, e) ==
    LET newer == {i \in DOMAIN rows : rows[i].at >= e.at}
        all   == InsertAt(rows, Cardinality(newer) + 1, e)
    IN  IF Len(all) > CacheCap THEN Front(all) ELSE all

RowKeys(rows) == {rows[i].key : i \in DOMAIN rows}

(* The rows that are to come, one after the other: a discovered contact    *)
(* whose key is there already is skipped.                                  *)
Placed(rows, e) ==
    IF ~e.saved /\ e.key \in RowKeys(rows) THEN rows ELSE InsertSorted(rows, e)
Fill(rows, coming) ==
    LET after[n \in 0 .. Len(coming)] ==
            IF n = 0 THEN rows ELSE Placed(after[n - 1], coming[n])
    IN  after[Len(coming)]

(* The rows at some of the places, in their order. *)
RowsAt(rows, places) ==
    [n \in 1 .. Cardinality(places) |->
        rows[CHOOSE i \in places : Cardinality({j \in places : j <= i}) = n]]

(* Pass 2: the discovered contacts, in whatever order evictions left them. *)
Discovered == {FromDiscovery(k) : k \in {k \in ContactKeys : found[k] > 0}}
Merged(rows) == {Fill(rows, coming) : coming \in SetToSeqs(Discovered)}

(* refresh_cache_fast: the saved rows of the cache with their new times. *)
Carried ==
    LET saved == RowsAt(cache, {i \in DOMAIN cache : cache[i].saved})
    IN  [i \in DOMAIN saved |-> [saved[i] EXCEPT !.at = heard[saved[i].key]]]
Refreshed == Merged(Fill(<< >>, Carried))

SavedKeys(rows) == {rows[i].key : i \in {i \in DOMAIN rows : rows[i].saved}}
----------------------------------------------------------------------------
(* Adverts: log_advert notes the sender in both tables and wakes the task. *)

(* note_observed and discovery::note: a new key takes the place of the one *)
(* heard longest ago.                                                      *)
Noted(times, k, cap) ==
    LET known  == {j \in ContactKeys : times[j] > 0}
        oldest == {j \in known : \A i \in known : times[j] <= times[i]}
        gone   == IF k \in known \/ Cardinality(known) < cap THEN {} ELSE oldest
    IN  [j \in ContactKeys |-> IF j = k THEN tallies.heard + 1
                               ELSE IF j \in gone THEN 0 ELSE times[j]]

Hears(k) ==
    /\ tallies.heard < MaxHeard
    /\ tallies' = [tallies EXCEPT !.heard = @ + 1]
    /\ heard' = Noted(heard, k, ObsCap)
    /\ found' = Noted(found, k, DiscCap)
    /\ nudged' = TRUE
    /\ UNCHANGED <<storeSide, refresh, cache, edits, browser, astray, cut>>
----------------------------------------------------------------------------
(* The store.  Changed(i, c) is a mutation's write; every writer holds     *)
(* MUTATION_LOCK until it has marked the store dirty.                      *)

Writes(i, c) ==
    /\ stored' = [stored EXCEPT ![i] = c]
    /\ marking' = IF stored[i] # NoContact /\ c # NoContact /\ stored[i].key = c.key
                   THEN "slot" ELSE "meta"

(* Where an added contact goes: its own slot, a free one, or that of a      *)
(* contact that gives way, a favourite only when there is nothing else.    *)
Places(k) ==
    LET free  == {i \in 1 .. StoreSlots : stored[i] = NoContact}
        plain == {i \in 1 .. StoreSlots \ free : ~stored[i].fav}
    IN  IF Holding(k) # {} THEN Holding(k)
        ELSE IF free # {} THEN free ELSE IF plain # {} THEN plain ELSE 1 .. StoreSlots
Kept(i, k) == Holding(k) = {i} /\ stored[i].fav

(* Another task, the radio or the phone, adds, removes or flags a contact. *)
OtherTaskWrites(k) ==
    /\ marking = "none" /\ tallies.changes < MaxChanges
    /\ tallies' = [tallies EXCEPT !.changes = @ + 1]
    /\ \/ \E i \in Places(k) : Writes(i, [key |-> k, fav |-> Kept(i, k)])
       \/ \E i \in Holding(k) : Writes(i, NoContact)
       \/ \E i \in Holding(k) : Writes(i, [key |-> k, fav |-> ~stored[i].fav])
    /\ UNCHANGED <<stale, nudged, refresh, cache, heard, found, edits, browser, astray, cut>>

MarkDirty ==
    /\ marking # "none" /\ marking' = "none"
    /\ stale' = TRUE /\ nudged' = TRUE
    /\ UNCHANGED <<stored, refresh, cache, heard, found, edits, browser, astray, cut, tallies>>

Failure ==
    /\ tallies.failures < MaxFailures
    /\ tallies' = [tallies EXCEPT !.failures = @ + 1]

(* The write of meta fails behind the slot's: the mutation returns before  *)
(* mark_dirty and the screen is told nothing.                              *)
MarkLost ==
    /\ marking = "meta" /\ marking' = "none" /\ Failure
    /\ astray' = ContactKeys
    /\ UNCHANGED <<stored, stale, nudged, refresh, cache, heard, found, edits, browser, cut>>

(* mutation_persister_task: the edit at the head of the queue, when the    *)
(* lock is free.  One that changes nothing writes nothing; an Add of a     *)
(* contact no longer among the discovered, and any edit the store refuses, *)
(* is dropped.                                                             *)
Edit(e) ==
    \/ /\ e.kind = "add" /\ found[e.key] > 0
       /\ \E i \in Places(e.key) : Writes(i, [key |-> e.key, fav |-> Kept(i, e.key)])
       /\ UNCHANGED <<astray, tallies>>
    \/ /\ e.kind = "forget"
       /\ \E i \in Holding(e.key) : Writes(i, NoContact)
       /\ UNCHANGED <<astray, tallies>>
    \/ /\ e.kind \in {"save", "unsave"}
       /\ \E i \in Holding(e.key) :
             /\ stored[i].fav # (e.kind = "save")
             /\ Writes(i, [key |-> e.key, fav |-> (e.kind = "save")])
       /\ UNCHANGED <<astray, tallies>>
    \/ /\ \/ e.kind = "add" /\ Holding(e.key) # {} /\ found[e.key] > 0
          \/ e.kind # "add" /\ Holding(e.key) = {}
          \/ \E c \in Contacts : c.key = e.key /\ e.kind \in {"save", "unsave"}
                                 /\ c.fav = (e.kind = "save")
       /\ UNCHANGED <<stored, marking, astray, tallies>>
    \/ /\ e.kind = "add" /\ found[e.key] = 0
       /\ astray' = astray \cup {e.key} /\ UNCHANGED <<stored, marking, tallies>>
    \/ /\ Failure /\ astray' = astray \cup {e.key} /\ UNCHANGED <<stored, marking>>

Persists ==
    /\ edits # << >> /\ marking = "none"
    /\ Edit(Head(edits))
    /\ edits' = Tail(edits)
    /\ nudged' = TRUE
    /\ UNCHANGED <<stale, refresh, cache, heard, found, browser, cut>>
----------------------------------------------------------------------------
(* refresh_cache_task. *)

(* The signal wakes the task; more signals keep it waiting for a second    *)
(* without one.                                                            *)
Wakes ==
    /\ refresh.pc \in {"wait", "quiet"} /\ nudged /\ nudged' = FALSE
    /\ refresh' = [refresh EXCEPT !.pc = "quiet"]
    /\ UNCHANGED <<storeSide, cache, heard, found, edits, browser, astray, cut, tallies>>

(* STORE_DIRTY is swapped to false before the first slot is read.          *)
ScanStarts ==
    /\ refresh.pc = "quiet" /\ ~nudged /\ stale
    /\ refresh' = [pc |-> "scan", next |-> 1, rows |-> << >>]
    /\ stale' = FALSE /\ astray' = {} /\ cut' = FALSE
    /\ UNCHANGED <<stored, marking, nudged, cache, heard, found, edits, browser, tallies>>

(* The store was not written: the saved rows are kept. *)
FastRefresh ==
    /\ refresh.pc = "quiet" /\ ~nudged /\ ~stale
    /\ cache' \in Refreshed
    /\ cut' = (cut \/ ~(SavedKeys(cache) \subseteq SavedKeys(cache')))
    /\ refresh' = [refresh EXCEPT !.pc = "wait"]
    /\ UNCHANGED <<storeSide, nudged, heard, found, edits, browser, astray, tallies>>

(* A slot is read; one whose read fails counts as free. *)
ScanSlot ==
    /\ refresh.pc = "scan" /\ refresh.next <= StoreSlots
    /\ LET c == stored[refresh.next]
           rows == IF c = NoContact THEN refresh.rows
                   ELSE InsertSorted(refresh.rows, FromContact(c))
       IN  \/ /\ refresh' = [refresh EXCEPT !.next = @ + 1, !.rows = rows]
              /\ cut' = (cut \/ Len(rows) < Len(refresh.rows) + Cardinality({c} \ {NoContact}))
              /\ UNCHANGED tallies
           \/ /\ Failure /\ cut' = TRUE
              /\ refresh' = [refresh EXCEPT !.next = @ + 1]
    /\ UNCHANGED <<storeSide, nudged, cache, heard, found, edits, browser, astray>>

(* Mutated form of ScanEnds: the flag is cleared when the scan is over,    *)
(* with what was marked meanwhile.                                         *)
ScanEndsClean ==
    /\ refresh.pc = "scan" /\ refresh.next > StoreSlots
    /\ cache' \in Merged(refresh.rows) /\ stale' = FALSE
    /\ cut' = (cut \/ ~(SavedKeys(refresh.rows) \subseteq SavedKeys(cache')))
    /\ refresh' = [pc |-> "wait", next |-> 1, rows |-> << >>]
    /\ UNCHANGED <<stored, marking, nudged, heard, found, edits, browser, astray, tallies>>

ScanEnds ==
    /\ refresh.pc = "scan" /\ refresh.next > StoreSlots
    /\ cache' \in Merged(refresh.rows)
    /\ cut' = (cut \/ ~(SavedKeys(refresh.rows) \subseteq SavedKeys(cache')))
    /\ refresh' = [pc |-> "wait", next |-> 1, rows |-> << >>]
    /\ UNCHANGED <<storeSide, nudged, heard, found, edits, browser, astray, tallies>>
----------------------------------------------------------------------------
(* The screen: a cursor in the filtered list, a popup or a detail view of  *)
(* the row at an index, or the picker of filters.                          *)

FILTERS == <<"all", "favorites", "chat", "repeater", "room", "sensor">>
Matches(f, r) == f = "all" \/ (f = "favorites" /\ r.fav) \/ f = NodeType[r.key]
Filtered(rows, f) == RowsAt(rows, {i \in DOMAIN rows : Matches(f, rows[i])})
Listed == Filtered(cache, browser.filter)
RowAt(i) == IF i < Len(Listed) THEN {Listed[i + 1]} ELSE {}

PopupItems(r) ==
    IF ~r.saved
    THEN <<"add">> \o (IF NodeType[r.key] = "chat" THEN <<"pm">> ELSE << >>) \o <<"info", "cancel">>
    ELSE (IF NodeType[r.key] = "chat" THEN <<"pm">> ELSE << >>)
         \o <<"info", IF r.fav THEN "unsave" ELSE "save", "forget", "cancel">>

(* What is drawn: the rows of the window with their marks, "*" for a        *)
(* favourite and "+" for one not saved, and what lies over them.  An empty *)
(* list hides every view but the picker.                                   *)
Window ==
    LET last == IF browser.scroll + VisibleRows < Len(Listed)
                THEN browser.scroll + VisibleRows ELSE Len(Listed)
    IN  {Listed[i] : i \in browser.scroll + 1 .. last}
Mark(r) == IF r.fav THEN "*" ELSE IF r.saved THEN " " ELSE "+"
Drawn == {[key |-> r.key, mark |-> Mark(r)] : r \in Window}

Presses(mode) ==
    /\ browser.mode = mode
    /\ tallies.presses < MaxKeyPresses
    /\ tallies' = [tallies EXCEPT !.presses = @ + 1]
    /\ UNCHANGED <<storeSide, nudged, refresh, heard, found, cut>>
Browses(b) == browser' = b /\ UNCHANGED <<cache, edits, astray>>

ListUp ==
    /\ Presses("list") /\ browser.cursor > 0
    /\ LET to == browser.cursor - 1
       IN  Browses([browser EXCEPT !.cursor = to, !.scroll = IF to < @ THEN to ELSE @])

ListDown ==
    /\ Presses("list") /\ browser.cursor + 1 < Len(Listed)
    /\ LET to == browser.cursor + 1
       IN  Browses([browser EXCEPT !.cursor = to,
                      !.scroll = IF to >= @ + VisibleRows THEN to + 1 - VisibleRows ELSE @])

OpensPopup ==
    /\ Presses("list") /\ Listed # << >>
    /\ Browses([browser EXCEPT !.mode = "popup", !.target = browser.cursor, !.pos = 0])

(* Up past the first row. *)
OpensPicker ==
    /\ Presses("list") /\ browser.cursor = 0
    /\ Browses([browser EXCEPT !.mode = "filters",
                  !.pos = (CHOOSE i \in DOMAIN FILTERS : FILTERS[i] = browser.filter) - 1])

(* Up and Down in the popup and in the picker wrap around. *)
Wrap(pos, n) == {IF pos > 0 THEN pos - 1 ELSE IF n = 0 THEN 0 ELSE n - 1,
                 IF pos + 1 < n THEN pos + 1 ELSE 0}
Items == IF RowAt(browser.target) = {} THEN << >>
         ELSE PopupItems(CHOOSE r \in RowAt(browser.target) : TRUE)
PopupMoves ==
    /\ Presses("popup")
    /\ \E pos \in Wrap(browser.pos, Len(Items)) : Browses([browser EXCEPT !.pos = pos])
PickerMoves ==
    /\ Presses("filters")
    /\ \E pos \in Wrap(browser.pos, Len(FILTERS)) : Browses([browser EXCEPT !.pos = pos])
Picks ==
    /\ Presses("filters")
    /\ Browses([browser EXCEPT !.mode = "list", !.filter = FILTERS[browser.pos + 1],
                  !.cursor = 0, !.scroll = 0])

(* Cancel in the popup, the picker and the detail view. *)
Backs ==
    /\ \E mode \in {"popup", "filters", "detail"} : Presses(mode)
    /\ Browses([browser EXCEPT !.mode = "list"])

(* The item under the cursor.  An edit changes the row and is queued; one  *)
(* that finds the queue full is lost.  The detail view keeps the index.    *)
ShowsDetail ==
    /\ Presses("popup") /\ browser.pos < Len(Items) /\ Items[browser.pos + 1] = "info"
    /\ Browses([browser EXCEPT !.mode = "detail"])

LeavesPopup ==
    /\ Presses("popup")
    /\ browser.pos < Len(Items) => Items[browser.pos + 1] \in {"pm", "cancel"}
    /\ Browses([browser EXCEPT !.mode = "list"])

Edited(r, kind) ==
    CASE kind = "save" -> [r EXCEPT !.fav = TRUE]
      [] kind = "unsave" -> [r EXCEPT !.fav = FALSE]
      [] kind = "add" -> [r EXCEPT !.saved = TRUE]
RowsAfter(k, kind) ==
    IF kind = "forget" THEN RowsAt(cache, {i \in DOMAIN cache : cache[i].key # k})
    ELSE [i \in DOMAIN cache |-> IF cache[i].key = k THEN Edited(cache[i], kind) ELSE cache[i]]

(* Forget clamps the cursor to the shorter list. *)
AfterEdit(kind, n) ==
    LET cursor == IF kind # "forget" \/ browser.cursor < n THEN browser.cursor
                  ELSE IF n = 0 THEN 0 ELSE n - 1
    IN  [browser EXCEPT !.mode = "list", !.cursor = cursor,
           !.scroll = IF @ > cursor THEN cursor ELSE @]

ChoosesEdit ==
    /\ Presses("popup") /\ browser.pos < Len(Items)
    /\ LET kind == Items[browser.pos + 1]
           k == (CHOOSE r \in RowAt(browser.target) : TRUE).key
       IN  /\ kind \in {"save", "unsave", "forget", "add"}
           /\ cache' = RowsAfter(k, kind)
           /\ browser' = AfterEdit(kind, Len(Filtered(cache', browser.filter)))
           /\ IF Len(edits) < EditCap
              THEN edits' = Append(edits, [kind |-> kind, key |-> k]) /\ UNCHANGED astray
              ELSE astray' = astray \cup {k} /\ UNCHANGED edits

DetailNext ==
    /\ Presses("detail") /\ browser.target + 1 < Len(Listed)
    /\ Browses([browser EXCEPT !.target = @ + 1])

(* Fire in the detail view of a chat node opens the keyboard. *)
DetailWrites ==
    /\ Presses("detail")
    /\ \E r \in RowAt(browser.target) : NodeType[r.key] = "chat"
    /\ Browses([browser EXCEPT !.mode = "list"])
----------------------------------------------------------------------------
(* At boot the cache is empty and the task begins with a full scan. *)
ScreenInit ==
    /\ stored \in InitialStores
    /\ marking = "none" /\ stale = FALSE /\ nudged = FALSE
    /\ refresh = [pc |-> "scan", next |-> 1, rows |-> << >>]
    /\ cache = << >> /\ edits = << >>
    /\ heard = [k \in ContactKeys |-> 0] /\ found = heard
    /\ browser = [mode |-> "list", filter |-> "all", cursor |-> 0, scroll |-> 0,
                  target |-> 0, pos |-> 0]
    /\ astray = {} /\ cut = FALSE
    /\ tallies = [heard |-> 0, changes |-> 0, presses |-> 0, failures |-> 0]

Browsing ==
    \/ ListUp \/ ListDown \/ OpensPopup \/ OpensPicker \/ PopupMoves \/ PickerMoves
    \/ Picks \/ Backs \/ ShowsDetail \/ LeavesPopup \/ ChoosesEdit
    \/ DetailNext \/ DetailWrites

ScreenNext ==
    \/ \E k \in ContactKeys : Hears(k) \/ OtherTaskWrites(k)
    \/ MarkDirty \/ MarkLost \/ Persists
    \/ Wakes \/ ScanStarts \/ FastRefresh \/ ScanSlot \/ ScanEnds
    \/ Browsing

ScreenSpec == ScreenInit /\ [][ScreenNext]_screenVars
----------------------------------------------------------------------------
(* Once nothing is under way, no edit or mark was lost and no contact fell *)
(* out of the cache since its last scan, the screen tells what the store   *)
(* holds: every contact has a row, and no row drawn without a "+" is of a  *)
(* contact that is gone or shows the wrong favourite mark.  The scan reads *)
(* slot after slot while the radio, the phone and the popup write.         *)
AllSaidAndDone ==
    /\ refresh.pc = "wait" /\ ~nudged /\ marking = "none" /\ edits = << >>
    /\ astray = {} /\ ~cut

ScreenFollowsStore ==
    AllSaidAndDone =>
        /\ {c.key : c \in Contacts} \subseteq SavedKeys(cache)
        /\ \A d \in Drawn :
              /\ d.mark # "+" => \E c \in Contacts : c.key = d.key /\ c.fav = (d.mark = "*")
              /\ d.mark = "+" => Holding(d.key) = {}
=============================================================================
