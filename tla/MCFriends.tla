----------------------------- MODULE MCFriends -----------------------------
(* The pet's company for TLC: the friends list and the mini games.  The    *)
(* owner of badge a fights; she knows a stranger and b, who does not know  *)
(* her yet, and hears a second stranger.  The parts share no variable: a   *)
(* behaviour is one of one part, the others resting in their initial       *)
(* states.                                                                 *)
EXTENDS Friends, Nim, TicTacToe, LightsOut, BornJeweled, BlackHole, TLC

CONSTANTS a, b, s, t

VARIABLE part

MCOutcomes == {[won |-> TRUE, hp |-> 100], [won |-> FALSE, hp |-> 0]}
MCHears == (a :> {s}) @@ (b :> {})
MCSaves == (a :> {<<NewFriend(t, 0), NewFriend(b, 0)>>}) @@ (b :> {<<>>})
MCRows == <<1, 3, 5, 7>>

CompanyInit ==
    /\ part \in {"friends", "nim", "tictactoe", "lightsout", "bornjeweled", "blackhole"}
    /\ Init /\ NimInit /\ TttInit /\ LightsInit /\ JewelsInit /\ TokensInit

CompanyNext ==
    /\ UNCHANGED part
    /\ \/ /\ part = "friends" /\ Next
          /\ UNCHANGED <<nimVars, ttt, lights, jewels, tokens>>
       \/ /\ part = "nim" /\ NimNext
          /\ UNCHANGED <<vars, ttt, lights, jewels, tokens>>
       \/ /\ part = "tictactoe" /\ TttNext
          /\ UNCHANGED <<vars, nimVars, lights, jewels, tokens>>
       \/ /\ part = "lightsout" /\ LightsNext
          /\ UNCHANGED <<vars, nimVars, ttt, jewels, tokens>>
       \/ /\ part = "bornjeweled" /\ JewelsNext
          /\ UNCHANGED <<vars, nimVars, ttt, lights, tokens>>
       \/ /\ part = "blackhole" /\ TokensNext
          /\ UNCHANGED <<vars, nimVars, ttt, lights, jewels>>

companyVars == <<vars, nimVars, ttt, lights, jewels, tokens, part>>
CompanySpec == CompanyInit /\ [][CompanyNext]_companyVars

(* The EI plays its strongest game without a mistake: on Hard it gives no  *)
(* won game of Nim away, on Impossible it loses no game of tic-tac-toe.    *)
OpponentsAreRight == NimIsSound /\ ImpossibleNeverLoses

(* The mini games are sound: the opponents are right, a puzzle of lamps    *)
(* can always be solved, gems leave no hole and are rewarded for the       *)
(* owner's moves, and every number is on the triangle once.                *)
GamesAreSound == OpponentsAreRight /\ AlwaysSolvable /\ PointsAreEarned /\ TokensAreCounted
=============================================================================
