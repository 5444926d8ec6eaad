------------------------------- MODULE Calendar -------------------------------
(***************************************************************************)
(* The event slots of the badge and the calendar screen that shows them:   *)
(* the import of ALARMS.ICS at boot (src/watch/mod.rs, src/watch/ics.rs),  *)
(* quick events and their clearing (src/watch/alarm.rs), and the views and *)
(* buttons of src/watch/calendar.rs.                                       *)
(*                                                                         *)
(* A date is a day number, a time of day an hour: an hour stands for the   *)
(* minutes in it.  Drawing fills in what a press left open, so it is an    *)
(* action; what it puts on the screen is the variable shown.               *)
(***************************************************************************)
EXTENDS Integers, Sequences, SequencesExt, FiniteSets

CONSTANTS
    NoHour,
    EventSlots,   \* 1..31 in the badge
    Files,        \* contents of ALARMS.ICS: sequences of [start, end, utc],
                  \* start and end [day, hour]
    HoursADay,    \* 24
    TzHours,      \* TIMEZONE_OFFSET
    HoursVisible, \* of the timeline, 6 in the badge
    MorningHour,  \* the hour an empty day opens at, 6 in the badge
    RowsVisible,  \* of the list, 7 in the badge
    WeekLength,   \* 7
    FirstDay, LatestDay, \* bound: days a cursor or a clock reaches
    AheadHours,   \* how far ahead a quick event is, 5 minutes in the badge
    MaxHours, MaxQuick, MaxButtons \* bounds: hours passing, quick events, presses

ASSUME CalendarConstants ==
    /\ EventSlots \subseteq Nat \ {0} /\ IsFiniteSet(EventSlots) /\ HoursVisible \in 1..HoursADay
    /\ {RowsVisible, WeekLength} \subseteq Nat \ {0} /\ FirstDay \in Int /\ LatestDay \in Int

VARIABLES
    now,    \* the wall clock in hours since day 0, or NoHour
    agenda, \* slot -> [on, day, start, end]
    view,   \* [mode, cursor, top, title, list]: MODE, CURSOR_*, DAY_VIEW_TOP_HOUR,
            \* DAY_VIEW_TITLE_SCROLL, DAY_LIST_SCROLL
    shown,  \* the slots whose events the last drawing put on the screen
    hoursPassed, quicks, buttons

calVars == <<now, agenda, view, shown, hoursPassed, quicks, buttons>>

Unset == NoHour \* the cursor and the top hour before the first drawing
NoEvent == [on |-> FALSE, day |-> FirstDay, start |-> 0, end |-> 0]
Passive == [mode |-> "Passive", cursor |-> Unset, top |-> Unset, title |-> 0, list |-> 0]

-----------------------------------------------------------------------------
(* Events. *)

(* shift_utc_to_local. *)
Local(t, utc) ==
    LET h == t.day * HoursADay + t.hour + (IF utc THEN TzHours ELSE 0)
    IN  [day |-> h \div HoursADay, hour |-> h % HoursADay]

(* import_alarms_from_fat12: one slot per event while there are slots; what *)
(* ends on another day ends at the end of the first.                        *)
ImportedEvent(e) ==
    LET from == Local(e.start, e.utc)  to == Local(e.end, e.utc)
    IN  [on |-> TRUE, day |-> from.day, start |-> from.hour,
         end |-> IF to.day = from.day THEN to.hour ELSE HoursADay - 1]
Import(file) ==
    [s \in EventSlots |-> IF s \in DOMAIN file THEN ImportedEvent(file[s]) ELSE NoEvent]

CalInit ==
    /\ now \in {NoHour, 0} /\ \E file \in Files : agenda = Import(file)
    /\ view = Passive /\ shown = {} /\ hoursPassed = 0 /\ quicks = 0 /\ buttons = 0

Today == IF now = NoHour THEN {} ELSE {now \div HoursADay}
HourNow == now % HoursADay

(* add_quick_event: the lowest slot that is off, its old end time and all.  *)
QuickEvent ==
    /\ quicks < MaxQuick /\ quicks' = quicks + 1
    /\ IF now = NoHour \/ \A s \in EventSlots : agenda[s].on THEN UNCHANGED agenda
       ELSE LET free == {s \in EventSlots : ~agenda[s].on}
                s == CHOOSE x \in free : \A y \in free : x <= y
            IN  agenda' = [agenda EXCEPT ![s] =
                   [on |-> TRUE, day |-> (now + AheadHours) \div HoursADay,
                    start |-> (now + AheadHours) % HoursADay, end |-> @.end]]
    /\ UNCHANGED <<now, view, shown, hoursPassed, buttons>>

ClearImported ==
    /\ \E s \in EventSlots : agenda[s].on
    /\ agenda' = [s \in EventSlots |-> [NoEvent EXCEPT !.start = agenda[s].start]]
    /\ UNCHANGED <<now, view, shown, hoursPassed, quicks, buttons>>

(* An hour passes, the events due in it ring and are off. *)
HourPasses ==
    /\ now # NoHour /\ hoursPassed < MaxHours /\ hoursPassed' = hoursPassed + 1
    /\ now' = now + 1
    /\ agenda' = [s \in EventSlots |->
          [agenda[s] EXCEPT !.on = @ /\ ~(agenda[s].day = now' \div HoursADay
                                          /\ agenda[s].start = now' % HoursADay)]]
    /\ UNCHANGED <<view, shown, quicks, buttons>>
(* The clock is set for the first time. *)
ClockComes == /\ now = NoHour /\ now' = 0
              /\ UNCHANGED <<agenda, view, shown, hoursPassed, quicks, buttons>>

-----------------------------------------------------------------------------
(* collect_sorted: by time, by slot among equals. *)
Earlier(s, t) == LET a == agenda[s]  b == agenda[t]
                    A == a.day * HoursADay + a.start  B == b.day * HoursADay + b.start
                IN  A < B \/ (A = B /\ s < t)
(* The n-th event has n - 1 before it. *)
EventsOn(days) ==
    LET events == {s \in EventSlots : agenda[s].on /\ agenda[s].day \in days}
    IN  [n \in 1 .. Cardinality(events) |->
            CHOOSE s \in events : Cardinality({t \in events : Earlier(t, s)}) = n - 1]

(* ensure_cursor: today, or the first event, or a date in the firmware.     *)
Cursor ==
    IF view.cursor # Unset THEN view.cursor
    ELSE IF Today # {} THEN CHOOSE d \in Today : TRUE
    ELSE LET all == EventsOn(FirstDay..LatestDay)
         IN  IF all # << >> THEN agenda[all[1]].day ELSE FirstDay

Clamped(x, lo, hi) == IF x < lo THEN lo ELSE IF x > hi THEN hi ELSE x
LastTop == HoursADay - HoursVisible
(* draw_day_detail: opens an hour above now or the day's first event. *)
TopHour ==
    LET evs == EventsOn({Cursor})
        anchor == IF Cursor \in Today THEN HourNow
                  ELSE IF evs # << >> THEN agenda[evs[1]].start ELSE MorningHour
    IN  IF view.top = Unset THEN Clamped(anchor - 1, 0, LastTop)
        ELSE Clamped(view.top, 0, LastTop)

(* The block of an event is drawn if start and end leave it in the window.  *)
Blocks == SelectSeq(EventsOn({Cursor}), LAMBDA s :
              ~(agenda[s].end < TopHour \/ agenda[s].start > TopHour + HoursVisible))

(* A plausible slip: the scroll is drawn as the buttons left it. *)
ListTopAsIs == view.list
(* draw_day_list: the scroll is brought back to where there are rows. *)
ListTop == LET n == Len(EventsOn({Cursor}))
           IN  Clamped(view.list, 0, IF n > RowsVisible THEN n - RowsVisible ELSE 0)
Rows == LET evs == EventsOn({Cursor})
        IN  SubSeq(evs, ListTop + 1, Clamped(ListTop + RowsVisible, 0, Len(evs)))

(* draw_grid: the month, and under it the first event of the cursor's day. *)
Footer == LET evs == EventsOn({Cursor}) IN IF evs = << >> THEN {} ELSE {evs[1]}

DrawCalendar ==
    /\ CASE view.mode = "Day" -> /\ view' = [view EXCEPT !.cursor = Cursor, !.top = TopHour]
                                 /\ shown' = ToSet(Blocks)
         [] view.mode = "List" -> /\ view' = [view EXCEPT !.cursor = Cursor, !.list = ListTop]
                                  /\ shown' = ToSet(Rows)
         [] OTHER -> /\ view' = [view EXCEPT !.cursor = Cursor] /\ shown' = Footer
    /\ UNCHANGED <<now, agenda, hoursPassed, quicks, buttons>>

-----------------------------------------------------------------------------
(* Buttons: a press the screen does not take goes on to the menu. *)

CursorMoved(by) == [view EXCEPT !.cursor = Clamped(view.cursor + by, FirstDay, LatestDay)]
ActivePress(btn) ==
    IF view.cursor = Unset THEN view
    ELSE CASE btn = "Up" -> CursorMoved(-WeekLength) [] btn = "Down" -> CursorMoved(WeekLength)
           [] btn = "Left" -> CursorMoved(-1) [] btn = "Right" -> CursorMoved(1)
           [] btn = "Fire" -> [view EXCEPT !.top = Unset, !.mode = "Day"]
           [] btn = "Cancel" -> [view EXCEPT !.mode = "Passive"]

TopOrZero == IF view.top = Unset THEN 0 ELSE view.top
DayPress(btn) ==
    CASE btn = "Up" -> [view EXCEPT !.top = Clamped(TopOrZero - 1, 0, HoursADay - 1)]
      [] btn = "Down" -> [view EXCEPT !.top = Clamped(TopOrZero + 1, 0, HoursADay - 1)]
      [] btn = "Left" -> [view EXCEPT !.title = Clamped(@ - 1, 0, 1)]
      [] btn = "Right" -> [view EXCEPT !.title = Clamped(@ + 1, 0, 1)]
      [] btn = "Fire" -> [view EXCEPT !.list = 0, !.mode = "List"]
      [] btn = "Cancel" -> [view EXCEPT !.title = 0, !.mode = "Active"]

ListPress(btn) ==
    CASE btn = "Up" -> [view EXCEPT !.list = Clamped(@ - 1, 0, Cardinality(EventSlots))]
      [] btn = "Down" -> [view EXCEPT !.list = Clamped(@ + 1, 0, Cardinality(EventSlots))]
      [] btn = "Cancel" -> [view EXCEPT !.mode = "Day"]
      [] OTHER -> view

CalendarPress(btn) ==
    /\ buttons < MaxButtons /\ buttons' = buttons + 1
    /\ view' = CASE view.mode = "List" -> ListPress(btn)
                 [] view.mode = "Day" -> DayPress(btn)
                 [] view.mode = "Active" -> ActivePress(btn)
                 [] OTHER -> IF btn = "Fire" THEN [view EXCEPT !.mode = "Active"] ELSE view
    /\ UNCHANGED <<now, agenda, shown, hoursPassed, quicks>>

CalNext ==
    \/ QuickEvent \/ ClearImported \/ HourPasses \/ ClockComes \/ DrawCalendar
    \/ \E btn \in {"Up", "Down", "Left", "Right", "Fire", "Cancel"} : CalendarPress(btn)

CalSpec == CalInit /\ [][CalNext]_calVars

-----------------------------------------------------------------------------
(* Properties. *)

(* However far the buttons ran, whichever events rang, were added or cleared *)
(* meanwhile and whichever day the cursor is on, a day with events never     *)
(* looks empty under the month or in its list, which clamps on drawing what  *)
(* the buttons leave open (calendar.rs:573-612, 900-906).                    *)
DaysAreShown ==
    [][ (DrawCalendar /\ view.mode # "Day" /\ EventsOn({Cursor}) # << >>)
            => shown' # {} ]_calVars

(* An event that begins in the hours the timeline shows is on it            *)
(* (calendar.rs:786-789, "Min 4 px tall so zero-duration events are still   *)
(* visible"; alarm.rs:332-335, "Defaults to the start time").               *)
TimelineShowsEvents ==
    [][ DrawCalendar /\ view.mode = "Day" =>
          \A s \in ToSet(EventsOn({Cursor})) :
              (agenda[s].start \in TopHour..(TopHour + HoursVisible - 1)) => s \in shown' ]_calVars
=============================================================================
