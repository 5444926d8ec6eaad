-------------------------------- MODULE Lock --------------------------------
(* The screen lock (src/fw/lock.rs) and the button task that feeds it      *)
(* (src/fw/button.rs): Cancel held for three seconds locks or unlocks, a   *)
(* locked badge swallows every other press, and a task of its own shows    *)
(* the padlock for a while after each touch.                               *)
(*                                                                         *)
(* The task reads the lock when it gets to run: a window's end and a poke  *)
(* may be pending together, and the window's end is polled first.          *)
VARIABLES
    keysLocked, \* LOCKED
    padlock,    \* OVERLAY
    poked,      \* POKE holds a signal
    showing     \* overlay_task waits for the window's end (else for a poke)

lockVars == <<keysLocked, padlock, poked, showing>>

LockInit == keysLocked = FALSE /\ padlock = FALSE /\ poked = FALSE /\ showing = FALSE

(* toggle() and poke() at the three-second mark. *)
HoldCancel ==
    /\ keysLocked' = ~keysLocked /\ poked' = TRUE
    /\ UNCHANGED <<padlock, showing>>

(* A short press is swallowed; unlocked it goes on to the screens.         *)
TouchLocked ==
    /\ keysLocked /\ poked' = TRUE
    /\ UNCHANGED <<keysLocked, padlock, showing>>

(* overlay_task takes the poke, asleep or in the middle of a window.       *)
TakePoke ==
    /\ poked /\ poked' = FALSE
    /\ padlock' = keysLocked /\ showing' = keysLocked
    /\ UNCHANGED keysLocked

WindowEnds ==
    /\ showing /\ showing' = FALSE /\ padlock' = FALSE
    /\ UNCHANGED <<keysLocked, poked>>

LockNext == HoldCancel \/ TouchLocked \/ TakePoke \/ WindowEnds

(* Once the task has seen the last touch, a padlock on the screen means a  *)
(* locked badge: a press that reaches the screens is never made under one. *)
PadlockIsHonest == (padlock /\ ~poked) => keysLocked
=============================================================================
