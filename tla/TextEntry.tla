------------------------------ MODULE TextEntry ------------------------------
(* Typing on the badge (src/text_entry.rs): five buttons walk a tree of    *)
(* letter groups, commands and pickers, and a keyboard on the expansion    *)
(* bus types into the same entry.                                          *)
(*                                                                         *)
(* Abstractions: a text is its length; the eight tables of three letters   *)
(* are one table "abc"; shift only chooses a character and is left out,    *)
(* alt is kept because it turns Enter into a character.  Who opens an      *)
(* entry, and where its keys come from, is in Ui.                          *)
EXTENDS Integers

CONSTANTS
    MaxText,     \* max_len of every entry
    SpecialSize, \* length of SPECIAL_CHARS
    NumberSize,  \* length of NUMBER_CHARS
    NoEntry      \* TEXT_ENTRY is None

ASSUME TextEntryAssumption ==
    /\ MaxText \in Nat /\ {SpecialSize, NumberSize} \subseteq Nat \ {0}

VARIABLE typed \* the entry, or NoEntry once it is closed

Buttons == {"Cancel", "Execute", "Up", "Down", "Left", "Right", "Fire"}
Enters == {"Execute", "Fire"}
ExtKeys == {"char", "backspace", "shift", "alt", "enter"}

TableSize == [abc |-> 3, yz |-> 2, space |-> 2, special |-> SpecialSize, number |-> NumberSize]

(* Where Cancel leads from a picker. *)
LeaveTo == [abc |-> "root", yz |-> "root", space |-> "commands",
            special |-> "commands", number |-> "more"]
Opposite == [Left |-> "Right", Up |-> "Down", Right |-> "Left"]

(* `at' is the InputState: a word, or the group of letters opened by a     *)
(* direction, or a table and the cursor in it.                             *)
At(s) == [state |-> s]
Letters(q) == [state |-> "letters", quadrant |-> q]
Picking(table, cursor) == [state |-> "pick", table |-> table, cursor |-> cursor]
Middle(table) == Picking(table, TableSize[table] \div 2)

NewEntry(confirm, prefill) ==
    [confirm |-> confirm, len |-> prefill, alt |-> FALSE, at |-> At("root")]

(* push_char: a full text swallows the character; alt is used up by one    *)
(* that fits.                                                              *)
PushChar(e) ==
    [e EXCEPT !.len = IF @ < MaxText THEN @ + 1 ELSE @,
              !.alt = @ /\ e.len >= MaxText,
              !.at = At("root")]
Backspace(e) == [e EXCEPT !.len = IF @ > 0 THEN @ - 1 ELSE 0, !.at = At("root")]

(* A submitted entry has run on_complete; a cancelled one has not.         *)
Submits(e, btn) ==
    /\ btn \in Enters
    /\ e.at = At("ask") \/ (e.at = At("root") /\ ~e.confirm)
Closes(e, btn) == Submits(e, btn) \/ (e.at = At("root") /\ btn = "Cancel")

FromRoot(e, btn) ==
    CASE btn \in DOMAIN Opposite -> Letters(btn)
      [] btn = "Down"            -> At("commands")
      [] OTHER                   -> At("ask")

FromLetters(e, btn) ==
    LET q == e.at.quadrant IN
    CASE btn \in {Opposite[q], "Cancel"}      -> At("root")
      [] btn \in Enters                       -> e.at
      [] <<q, btn>> = <<"Right", "Right">>    -> Middle("yz")
      [] OTHER                                -> Middle("abc")

FromCommands(e, btn) ==
    CASE btn \in {"Up", "Cancel"} -> At("root")
      [] btn = "Left"             -> Middle("special")
      [] btn = "Down"             -> Picking("space", 0)
      [] btn = "Right"            -> At("more")
      [] OTHER                    -> e.at

FromMore(e, btn) ==
    CASE btn \in {"Left", "Cancel"} -> At("commands")
      [] btn \in {"Up", "Down"}     -> At("root")
      [] btn = "Right"              -> Middle("number")
      [] OTHER                      -> e.at

FromPick(e, btn) ==
    LET p == e.at IN
    CASE btn = "Left" /\ p.cursor > 0                         -> [p EXCEPT !.cursor = @ - 1]
      [] btn = "Right" /\ p.cursor + 1 < TableSize[p.table]   -> [p EXCEPT !.cursor = @ + 1]
      [] btn = "Cancel"                                       -> At(LeaveTo[p.table])
      [] OTHER                                                -> p

(* dispatch() of a press that does not close the entry.                    *)
AfterButton(e, btn) ==
    CASE e.at.state = "root"     -> [e EXCEPT !.at = FromRoot(e, btn)]
      [] e.at.state = "ask"      -> [e EXCEPT !.at = At("root")]
      [] e.at.state = "letters"  -> [e EXCEPT !.at = FromLetters(e, btn)]
      [] e.at.state = "commands" -> [e EXCEPT !.at = FromCommands(e, btn)]
      [] e.at.state = "more"     -> [e EXCEPT !.at = FromMore(e, btn),
                                              !.len = IF btn = "Down" THEN 0 ELSE @]
      [] e.at.state = "pick" /\ btn \in Enters ->
             IF e.at = Picking("space", 1) THEN Backspace(e) ELSE PushChar(e)
      [] OTHER                   -> [e EXCEPT !.at = FromPick(e, btn)]

(* inject(): a plain Enter submits at once, whatever the entry's state.    *)
KeySubmits(e, key) == key = "enter" /\ ~e.alt
AfterKey(e, key) ==
    CASE key \in {"char", "enter"} -> PushChar(e)
      [] key = "backspace"         -> Backspace(e)
      [] key = "alt"               -> [e EXCEPT !.alt = ~@]
      [] OTHER                     -> e

TextInit == typed \in {NewEntry(c, n) : c \in BOOLEAN, n \in 0 .. MaxText}
TextNext ==
    /\ typed # NoEntry
    /\ \/ \E btn \in Buttons :
              typed' = IF Closes(typed, btn) THEN NoEntry ELSE AfterButton(typed, btn)
       \/ \E key \in ExtKeys :
              typed' = IF KeySubmits(typed, key) THEN NoEntry ELSE AfterKey(typed, key)

(* The pickers' cursors index their tables, and the text fits its buffer,  *)
(* wherever buttons and keyboard leave the entry.                          *)
EntryIsInRange ==
    typed # NoEntry =>
        /\ typed.len \in 0 .. MaxText
        /\ typed.at.state = "pick" => typed.at.cursor \in 0 .. TableSize[typed.at.table] - 1
=============================================================================
