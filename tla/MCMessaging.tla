---------------------------- MODULE MCMessaging ----------------------------
(* The parts of the messaging firmware for TLC.  They share no variable: a *)
(* behaviour is one of one part, the others resting in their initial       *)
(* states, and a run of their union checks every part at its own bounds.   *)
EXTENDS BleSession, PmInbox, MeshRequests, MeshChannels, MeshFlood, MeshClock, Ui, TLC

VARIABLE part

(* Three badges in reach of each other; b belongs to no region. *)
MCBadges == {"a", "b", "c"}
MCLinks == {{x, y} : x, y \in MCBadges}
MCRegion == ("a" :> "red") @@ ("b" :> NoRegion) @@ ("c" :> "blue")
MCTelemMode == ("a" :> 1) @@ ("b" :> 2) @@ ("c" :> 0)
MCFlagged == ("a" :> {"b"}) @@ ("b" :> {}) @@ ("c" :> {})
MCContacts == ("a" :> {"b", "c"}) @@ ("b" :> {"a"}) @@ ("c" :> {"a"})
MCRoutes == <<"a", "b">> :> << >>

(* The channels of a fresh badge; lines of each channel message. *)
MCDefaults == <<"public">>
MCLines == <<2, 2, 3, 2, 2>>

(* Seconds by which senders' clocks are wrong. *)
MCErrors == {-4, -1, 0, 3}

MessagingInit ==
    /\ part \in {"ble", "inbox", "requests", "channels", "flood", "clock", "ui", "lock", "typing"}
    /\ SessionInit /\ PmInit /\ ReqInit /\ ChanInit /\ FloodInit /\ ClockInit
    /\ UiInit /\ LockInit /\ TextInit
    /\ (part # "ui" => (gameOn /\ eventSet = {} /\ ~egg /\ ~naming))
    /\ (part # "typing" => typed = NewEntry(TRUE, 0))
    /\ (part # "ble" => present = {}) /\ (part # "requests" => clockSet = TRUE)

MessagingNext ==
    /\ UNCHANGED part
    /\ \/ /\ part = "ble" /\ SessionNext
          /\ UNCHANGED <<pmVars, reqVars, chanVars, floodVars, clockVars, uiVars, lockVars, typed>>
       \/ /\ part = "inbox" /\ PmNext
          /\ UNCHANGED <<vars, reqVars, chanVars, floodVars, clockVars, uiVars, lockVars, typed>>
       \/ /\ part = "requests" /\ ReqNext
          /\ UNCHANGED <<vars, pmVars, chanVars, floodVars, clockVars, uiVars, lockVars, typed>>
       \/ /\ part = "channels" /\ ChanNext
          /\ UNCHANGED <<vars, pmVars, reqVars, floodVars, clockVars, uiVars, lockVars, typed>>
       \/ /\ part = "flood" /\ FloodNext
          /\ UNCHANGED <<vars, pmVars, reqVars, chanVars, clockVars, uiVars, lockVars, typed>>
       \/ /\ part = "clock" /\ ClockNext
          /\ UNCHANGED <<vars, pmVars, reqVars, chanVars, floodVars, uiVars, lockVars, typed>>
       \/ /\ part = "ui" /\ UiNext
          /\ UNCHANGED <<vars, pmVars, reqVars, chanVars, floodVars, clockVars, lockVars, typed>>
       \/ /\ part = "lock" /\ LockNext
          /\ UNCHANGED <<vars, pmVars, reqVars, chanVars, floodVars, clockVars, uiVars, typed>>
       \/ /\ part = "typing" /\ TextNext
          /\ UNCHANGED <<vars, pmVars, reqVars, chanVars, floodVars, clockVars, uiVars, lockVars>>

messagingVars ==
    <<vars, pmVars, reqVars, chanVars, floodVars, clockVars, uiVars, lockVars, typed, part>>
MessagingSpec == MessagingInit /\ [][MessagingNext]_messagingVars
=============================================================================
