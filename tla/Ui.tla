--------------------------------- MODULE Ui ---------------------------------
(* The badge's screens and where a press goes: the screen carousel and the *)
(* menu tree of src/menu.rs, the full-screen overlays, the text entry and  *)
(* the game's routing, against what lib.rs draws.  Drawing and dispatching *)
(* are two chains of early returns in two files, over flags that the menu, *)
(* the game, a care station and the render task set on their own.          *)
(*                                                                         *)
(* Abstractions: presses are those the lock let through (Lock).  A screen  *)
(* other than Main is whether it takes the press, and a menu value is      *)
(* whether its row is being edited; the values are in Settings and Alarms, *)
(* the messages in PmInbox and MeshChannels, the pet's menus in PetEngine. *)
(* A text entry is who opened it (TextEntry has its keys).  An alarm may   *)
(* ring at any press.  The PIN popup and the battle film are not drawn.    *)
EXTENDS TextEntry, Lock, FiniteSetsExt, SequencesExt

CONSTANTS
    EventRows,  \* event slots 1..31 of the Events menu
    Presets,    \* length of LORA_PRESETS
    AboutPages, \* ABOUT_PAGES
    MaxHatches, \* bound: eggs that hatch
    MaxPulls    \* bound: station taps that pull the owner to the game

ASSUME UiAssumption ==
    /\ {EventRows, Presets, AboutPages} \subseteq Nat \ {0}
    /\ {MaxHatches, MaxPulls} \subseteq Nat

VARIABLES
    active,   \* active_screen
    shown,    \* enabled[Game]; the other screens are always enabled
    gameOn,   \* game::settings::ENABLED
    menu,     \* Main's ScreenState
    eventSet, \* event slots that are set
    entry,    \* who opened TEXT_ENTRY: "node", "pet", "message", or "none"
    scan,     \* qwiic::ACTIVE
    realm,    \* realm_view::ACTIVE
    view,     \* the game's full-screen view that is ACTIVE
    egg,      \* an egg is hatching
    naming,   \* naming_pending
    pulled,   \* history: a station tapped while this entry was open
    replaced, \* history: an entry was replaced although no station tapped
    spent     \* bounds: eggs hatched, taps

uiVars == <<active, shown, gameOn, menu, eventSet, entry, scan, realm, view,
            egg, naming, pulled, replaced, spent>>
overlays == <<scan, realm, view>>
----------------------------------------------------------------------------
(* The carousel. *)
Screens == <<"Game", "Main", "Pm", "Channel", "Advert", "Watch", "Calendar", "Name", "Qr">>
Writers == {"Pm", "Channel", "Advert"}
Own == Writers \cup {"Watch", "Calendar"}

IndexOf(s) == CHOOSE i \in DOMAIN Screens : Screens[i] = s
Enabled(on) == {i \in DOMAIN Screens : Screens[i] = "Game" => on}

(* screen_left, screen_right: the nearest enabled screen that way, if any. *)
ToLeft(s, on) ==
    LET before == {i \in Enabled(on) : i < IndexOf(s)}
    IN  IF before = {} THEN s ELSE Screens[Max(before)]
ToRight(s, on) ==
    LET after == {i \in Enabled(on) : i > IndexOf(s)}
    IN  IF after = {} THEN s ELSE Screens[Min(after)]

SetActiveScreen(s, target, on) == IF IndexOf(target) \in Enabled(on) THEN target ELSE s

(* set_screen_enabled of the game's screen: nobody is left on it when off. *)
Reconciled(s, on) == IF s = "Game" /\ ~on THEN ToRight(s, on) ELSE s
----------------------------------------------------------------------------
(* The menu tree: rows of a kind and what they open, do or show. *)
Back == <<"back">>
Line == <<"line">>
Act == <<"action", "setting">>
Step == <<"step">>
Info == <<"info">>
To(m) == <<"menu", m>>
Do(a) == <<"action", a>>
Ask(a) == <<"ask", a>>
AskIf(a) == <<"ask_if", a>>

MAIN_ITEMS == <<To("bornagotchi"), To("settings"), Line, To("about")>>
BORNAGOTCHI_ITEMS == <<Back, Act, Do("game"), Step, Line, Ask("reset_pet"), Do("realm")>>
SETTINGS_ITEMS ==
    <<Back, Act, Do("scan"), To("ble"), To("lora"), To("meshcore"), To("sounds"), Step,
      Step, Step, Info, To("alarm"), To("events"), Line, Ask("factory_reset")>>
BLE_ITEMS == <<Back, Act, Act, Ask("clear_pairings")>>
ADVERTS_ITEMS == <<Back, Act, Act, Step, Act>>
LORA_MENU_ITEMS == <<Back, Act, Act, To("presets"), Step>>
MESHCORE_MENU_ITEMS ==
    <<Back, Do("name"), Do("qr"), AskIf("repeat"), To("adverts"), Act, Step, Step, Act, Line,
      Ask("reset_channels"), Ask("reset_contacts")>>
SOUNDS_ITEMS == <<Back, Step, Step, Step>>
ALARM_ITEMS == <<Back, Step, Step, To("days"), Step, Act>>
ALARM_DAYS_ITEMS == <<Back, Act, Act, Act, Act, Act, Act, Act>>
EVENTS_ITEMS ==
    <<Back, Do("quick_test"), Line>> \o [i \in 1 .. EventRows |-> <<"slot", i>>]
        \o <<Line, Do("clear_events")>>

Items(m) ==
    CASE m = "root"        -> MAIN_ITEMS
      [] m = "bornagotchi" -> BORNAGOTCHI_ITEMS
      [] m = "settings"    -> SETTINGS_ITEMS
      [] m = "ble"         -> BLE_ITEMS
      [] m = "adverts"     -> ADVERTS_ITEMS
      [] m = "lora"        -> LORA_MENU_ITEMS
      [] m = "meshcore"    -> MESHCORE_MENU_ITEMS
      [] m = "sounds"      -> SOUNDS_ITEMS
      [] m = "alarm"       -> ALARM_ITEMS
      [] m = "days"        -> ALARM_DAYS_ITEMS
      [] m = "events"      -> EVENTS_ITEMS
      [] OTHER             -> <<Back>>        \* the two pages: about, presets

NewMenu == [root |-> 1, sub |-> "root", pos |-> 1, editing |-> FALSE, page |-> 0, confirm |-> "none"]

Pos(m) == IF m.sub = "root" THEN m.root ELSE m.pos
Row(m) == Items(m.sub)[Pos(m)]
MoveTo(m, p) == IF m.sub = "root" THEN [m EXCEPT !.root = p] ELSE [m EXCEPT !.pos = p]

NavSkip(row) == row[1] = "line" \/ (row[1] = "slot" /\ row[2] \notin eventSet)
Selectable(items) == {i \in DOMAIN items : ~NavSkip(items[i])}

(* The next row that way, around the end; an edited row takes the key.     *)
MenuUp(m) ==
    LET rows == Selectable(Items(m.sub))
        above == {i \in rows : i < Pos(m)}
    IN  IF m.editing THEN m ELSE MoveTo(m, Max(IF above = {} THEN rows ELSE above))
MenuDown(m) ==
    LET rows == Selectable(Items(m.sub))
        below == {i \in rows : i > Pos(m)}
    IN  IF m.editing THEN m ELSE MoveTo(m, Min(IF below = {} THEN rows ELSE below))

(* A submenu is entered at its first row, the presets at page p: the one   *)
(* in use, or Presets for a custom setting.  about_page, left at 0 when    *)
(* About is left, and lora_page are one field: only one is ever in use.    *)
Enter(m, sub, p) ==
    [m EXCEPT !.sub = sub, !.pos = 1, !.page = IF sub = "presets" THEN p ELSE 0]

OnCancel(m) ==
    IF m.editing THEN [m EXCEPT !.editing = FALSE] ELSE [m EXCEPT !.sub = "root"]

(* fire(): asked is needs_confirm(), p the page of the preset in use.      *)
Fire(m, asked, p) ==
    LET row == Row(m) IN
    CASE m.editing                                   -> [m EXCEPT !.editing = FALSE]
      [] ~m.editing /\ row[1] = "menu"               -> Enter(m, row[2], p)
      [] ~m.editing /\ row[1] = "back"               -> [m EXCEPT !.sub = "root"]
      [] ~m.editing /\ row[1] = "step"               -> [m EXCEPT !.editing = TRUE]
      [] ~m.editing /\ (row[1] = "ask" \/ (row[1] = "ask_if" /\ asked))
                                                     -> [m EXCEPT !.confirm = row[2]]
      [] OTHER                                       -> m

(* What the fired row does outside the menu.                               *)
Does(m) == IF ~m.editing /\ Row(m)[1] = "action" THEN Row(m)[2] ELSE "nothing"
----------------------------------------------------------------------------
(* draw_graphics, and draw_screen_main on the Main screen. *)
DrawnOnMain ==
    CASE menu.sub = "about"     -> "about"
      [] menu.sub = "presets"   -> "presets"
      [] OTHER                  -> IF menu.confirm # "none" THEN "confirm" ELSE "menu"

Drawn ==
    CASE entry # "none"                                     -> "entry"
      [] entry = "none" /\ scan                             -> "scan"
      [] entry = "none" /\ ~scan /\ realm                   -> "realm"
      [] entry = "none" /\ ~scan /\ ~realm /\ view # "none" -> "view"
      [] OTHER -> IF active = "Main" THEN DrawnOnMain ELSE "screen"

(* dispatch_button's early returns; an alarm that rings comes before all.  *)
Focus ==
    CASE entry # "none"                                  -> "entry"
      [] entry = "none" /\ scan                          -> "scan"
      [] entry = "none" /\ ~scan /\ realm                -> "realm"
      [] entry = "none" /\ ~scan /\ ~realm /\ active = "Main" ->
             IF menu.confirm # "none" THEN "confirm"
             ELSE IF menu.sub \in {"presets", "about"} THEN menu.sub
             ELSE "menu"
      [] OTHER                                            -> "screen"
----------------------------------------------------------------------------
(* Presses. *)
(* text_entry::begin() takes the place of an entry that is open.           *)
Begin(kind) ==
    /\ entry' = kind /\ pulled' = FALSE
    /\ replaced' = (replaced \/ (entry # "none" /\ ~pulled))

(* A key may submit or cancel the entry.                                   *)
KeyOfEntry(closes) ==
    /\ entry' \in IF closes THEN {entry, "none"} ELSE {entry}
    /\ pulled' = (pulled /\ entry' # "none")

PressEntry(btn) ==
    /\ KeyOfEntry(btn \in Enters \cup {"Cancel"})
    /\ UNCHANGED <<active, shown, gameOn, menu, eventSet, overlays, replaced>>

PressScan ==
    /\ scan' = FALSE
    /\ UNCHANGED <<active, shown, gameOn, menu, eventSet, entry, realm, view, pulled, replaced>>

PressRealm(btn) ==
    /\ realm' = (btn \in {"Up", "Down"})
    /\ UNCHANGED <<active, shown, gameOn, menu, eventSet, entry, scan, view, pulled, replaced>>

(* The dialog: its action is another component's, or opens the choice of a *)
(* new pet on the game's screen.                                           *)
PressConfirm(btn) ==
    /\ menu' = IF btn \in Enters \cup {"Cancel"} THEN [menu EXCEPT !.confirm = "none"] ELSE menu
    /\ UNCHANGED <<active, shown, gameOn, eventSet, entry, overlays, pulled, replaced>>

PressPresets(btn) ==
    LET p == IF menu.page >= Presets THEN 0 ELSE menu.page IN
    /\ menu' = CASE btn \in {"Left", "Up"}    -> [menu EXCEPT !.page = (p + Presets - 1) % Presets]
                 [] btn \in {"Right", "Down"} ->
                        [menu EXCEPT !.page = IF @ >= Presets THEN 0 ELSE (p + 1) % Presets]
                 [] btn = "Cancel"            -> [menu EXCEPT !.sub = "root"]
                 [] OTHER                     -> menu
    /\ UNCHANGED <<active, shown, gameOn, eventSet, entry, overlays, pulled, replaced>>

PressAbout(btn) ==
    /\ menu' = CASE btn = "Left"                   -> [menu EXCEPT !.page = IF @ > 0 THEN @ - 1 ELSE @]
                 [] btn = "Right"                  ->
                        [menu EXCEPT !.page = IF @ < AboutPages - 1 THEN @ + 1 ELSE @]
                 [] btn \in Enters \cup {"Cancel"} -> [menu EXCEPT !.page = 0, !.sub = "root"]
                 [] OTHER                          -> menu
    /\ UNCHANGED <<active, shown, gameOn, eventSet, entry, overlays, pulled, replaced>>

(* The end of dispatch_button: the current screen's own menu, the carousel *)
(* and what the fired action asked for.  Only Main's menu has rows to move *)
(* between: the others are one row that does nothing.                      *)
PressMenu(btn) ==
    LET does == IF active = "Main" /\ btn \in Enters THEN Does(menu) ELSE "nothing"
        on == IF does = "game" THEN ~gameOn ELSE gameOn
        moved == CASE btn = "Left"   -> ToLeft(active, shown)
                   [] btn = "Right"  -> ToRight(active, shown)
                   [] does = "qr"    -> SetActiveScreen(active, "Qr", shown)
                   [] OTHER          -> active
    IN
    /\ menu' \in
           IF active # "Main" THEN {menu}
           ELSE CASE btn = "Up"       -> {MenuUp(menu)}
                  [] btn = "Down"     -> {MenuDown(menu)}
                  [] btn = "Cancel"   -> {OnCancel(menu)}
                  [] btn \in Enters   -> {Fire(menu, asked, p) : asked \in BOOLEAN, p \in 0 .. Presets}
                  [] OTHER            -> {menu}
    /\ gameOn' = on
    /\ shown' = on /\ active' = Reconciled(moved, on)
    /\ scan' = (scan \/ does = "scan") /\ realm' = (realm \/ does = "realm")
    /\ eventSet' \in CASE does = "quick_test"   -> {eventSet} \cup {eventSet \cup {i} : i \in 1 .. EventRows}
                       [] does = "clear_events" -> {{}}
                       [] OTHER                 -> {eventSet}
    /\ IF does = "name" THEN Begin("node") ELSE UNCHANGED <<entry, pulled, replaced>>
    /\ UNCHANGED view

(* A screen with input of its own keeps the press, perhaps to write a      *)
(* message, or lets it through.                                            *)
PressOwn(btn) ==
    /\ active \in Own
    /\ \/ active \in Writers /\ btn \in Enters /\ Begin("message")
       \/ UNCHANGED <<entry, pulled, replaced>>
    /\ UNCHANGED <<active, shown, gameOn, menu, eventSet, overlays>>

(* A ringing alarm takes the press; then the layers in their order.        *)
DispatchButton(btn) ==
    \/ UNCHANGED <<active, shown, gameOn, menu, eventSet, entry, overlays, pulled, replaced>>
    \/ CASE Focus = "entry"   -> PressEntry(btn)
         [] Focus = "scan"    -> PressScan
         [] Focus = "realm"   -> PressRealm(btn)
         [] Focus = "confirm" -> PressConfirm(btn)
         [] Focus = "presets" -> PressPresets(btn)
         [] Focus = "about"   -> PressAbout(btn)
         [] Focus = "menu"    -> PressMenu(btn)
         [] OTHER             -> PressOwn(btn) \/ PressMenu(btn)

(* game::input::dispatch: the views take every press; the rest of the game *)
(* takes it, perhaps opening a view, unless it moves to the next screen.   *)
(* Friends and battle close only from their list and after their result.   *)
ViewNames == {"traits", "health", "friends", "battle"}
(* confirm() of the choice of a pet: a new egg, whose pet has no name yet. *)
ConfirmPet == egg' = TRUE /\ naming' = FALSE /\ UNCHANGED view
GamePress(btn) ==
    /\ \/ view \in {"traits", "health"} /\ view' = "none" /\ UNCHANGED <<egg, naming>>
       \/ view \in {"friends", "battle"} /\ view' \in {view, "none"} /\ UNCHANGED <<egg, naming>>
       \/ /\ view = "none" /\ view' \in {"none"} \cup (IF btn \in Enters THEN ViewNames ELSE {})
          /\ UNCHANGED <<egg, naming>>
       \/ view = "none" /\ btn \in Enters /\ ConfirmPet
    /\ UNCHANGED <<active, shown, gameOn, menu, eventSet, entry, scan, realm, pulled, replaced>>
GameLetsPass(btn) == view = "none" /\ btn \in {"Left", "Right"}

(* handle_press: the last press of the hidden flush combination is kept    *)
(* from everyone; on its screen the game comes first.                      *)
Press(btn) ==
    /\ UNCHANGED spent
    /\ \/ btn = "Fire" /\ UNCHANGED uiVars
       \/ active = "Game" /\ entry = "none" /\ GamePress(btn)
       \/ /\ (active = "Game" /\ entry = "none" => GameLetsPass(btn)) /\ DispatchButton(btn)
          /\ UNCHANGED <<egg, naming>>

(* The keyboard types into the entry, lock or alarm notwithstanding.       *)
TypeKey ==
    /\ entry # "none" /\ KeyOfEntry(TRUE)
    /\ UNCHANGED <<active, shown, gameOn, menu, eventSet, overlays, egg, naming, replaced, spent>>
----------------------------------------------------------------------------
(* What changes the screens besides a press. *)

(* A station's bonus is shown on the game's screen.                        *)
StationPulls ==
    /\ spent.pulls < MaxPulls /\ spent' = [spent EXCEPT !.pulls = @ + 1]
    /\ active' = SetActiveScreen(active, "Game", shown)
    /\ pulled' = (entry # "none")
    /\ UNCHANGED <<shown, gameOn, menu, eventSet, entry, overlays, egg, naming, replaced>>

(* The pet that hatched has no name yet.                                   *)
EggHatches ==
    /\ spent.hatches < MaxHatches /\ spent' = [spent EXCEPT !.hatches = @ + 1]
    /\ egg /\ egg' = FALSE /\ naming' = TRUE
    /\ UNCHANGED <<active, shown, gameOn, menu, eventSet, entry, overlays, pulled, replaced>>

AskPetNameAnywhere ==
    /\ naming /\ naming' = FALSE
    /\ Begin("pet")
    /\ UNCHANGED <<active, shown, gameOn, menu, eventSet, overlays, egg, spent>>

(* render() of the game, only while its screen is the active one.          *)
AskPetName ==
    /\ active = "Game" /\ naming /\ naming' = FALSE
    /\ Begin("pet")
    /\ UNCHANGED <<active, shown, gameOn, menu, eventSet, overlays, egg, spent>>

(* A one-shot event is over. *)
EventEnds ==
    /\ \E i \in eventSet : eventSet' = eventSet \ {i}
    /\ UNCHANGED <<active, shown, gameOn, menu, entry, overlays, egg, naming, pulled, replaced, spent>>

(* Boot applies the stored flag to the game's screen before any button; a  *)
(* saved pet without a name is to get one.                                 *)
UiInit ==
    /\ gameOn \in BOOLEAN /\ shown = gameOn /\ active = Reconciled("Game", gameOn)
    /\ menu = NewMenu /\ eventSet \in SUBSET (1 .. EventRows)
    /\ entry = "none" /\ scan = FALSE /\ realm = FALSE /\ view = "none"
    /\ egg \in BOOLEAN /\ naming \in BOOLEAN /\ ~(egg /\ naming)
    /\ pulled = FALSE /\ replaced = FALSE
    /\ spent = [pulls |-> 0, hatches |-> 0]

UiNext ==
    \/ \E btn \in Buttons : Press(btn)
    \/ TypeKey
    \/ StationPulls
    \/ EggHatches
    \/ AskPetName
    \/ EventEnds

(* The screens, the keys typed into an entry and the lock, side by side.   *)
UiSpec ==
    /\ UiInit /\ TextInit /\ LockInit
    /\ [][ \/ UiNext /\ UNCHANGED <<typed, lockVars>>
           \/ TextNext /\ UNCHANGED <<uiVars, lockVars>>
           \/ LockNext /\ UNCHANGED <<uiVars, typed>> ]_<<uiVars, typed, lockVars>>
----------------------------------------------------------------------------
(* Off the game's screen the next press goes to the layer that is drawn on *)
(* top.  On it the game comes first, also under a scan or realm view that  *)
(* a station pulled the owner away from.                                   *)
FocusIsShown ==
    /\ active # "Game" => Drawn = Focus
    /\ view # "none" => active = "Game"

(* The game's screen is shown as its setting says, and nobody is on it     *)
(* while it is off: the carousel would never lead away from it and back.   *)
NeverStranded == shown = gameOn /\ (active = "Game" => gameOn)

(* The cursor of every menu and picker is on a row that exists: the code   *)
(* indexes with it.  An edited row has a value, and a dialog is about the  *)
(* row it was opened from.                                                 *)
RowsExist ==
    /\ Pos(menu) \in DOMAIN Items(menu.sub)
    /\ Row(menu) # Line
    /\ menu.editing => Row(menu) = Step
    /\ menu.confirm # "none" => Row(menu) \in {Ask(menu.confirm), AskIf(menu.confirm)}
    /\ menu.sub = "about" => menu.page < AboutPages
    /\ EntryIsInRange

(* A text somebody is writing is replaced by the prompt for the pet's name *)
(* only if a station tap took the writer to the game in the meantime.      *)
DraftIsKept == ~replaced

(* The screens are sound: a press acts on what is drawn, no screen or row  *)
(* is a dead end, no draft is lost to the game, the padlock tells of the   *)
(* lock.                                                                   *)
UiIsSound == FocusIsShown /\ NeverStranded /\ RowsExist /\ DraftIsKept /\ PadlockIsHonest
=============================================================================
