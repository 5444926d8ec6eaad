----------------------------- MODULE MCBattlePicker --------------------------
(* BattlePicker for TLC: badge a, whose owner picks, knows a stranger and b. *)
EXTENDS BattlePicker, TLC

CONSTANTS a, b, s, t

MCOutcomes == {[won |-> TRUE, hp |-> 100], [won |-> FALSE, hp |-> 0]}
MCHears == (a :> {}) @@ (b :> {})
MCSaves == (a :> {<<NewFriend(t, 0), NewFriend(b, 0)>>}) @@ (b :> {<<>>, <<NewFriend(a, 0)>>})
=============================================================================
