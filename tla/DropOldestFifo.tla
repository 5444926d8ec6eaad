--------------------------- MODULE DropOldestFifo ---------------------------
(***************************************************************************)
(* What msg_queue.rs promises of its indices, with no slot in sight: a     *)
(* FIFO of at most Cap messages that drops its oldest message to take a    *)
(* new one, and that a restart empties.  Messages are numbered in the      *)
(* order in which they were pushed.                                        *)
(***************************************************************************)
EXTENDS Naturals, Sequences

CONSTANT Cap        \* messages the queue can hold, at least one

VARIABLES queue,    \* the waiting messages, oldest first
          pushed    \* how many messages have been pushed since the start
fifoVars == <<queue, pushed>>

Init == queue = << >> /\ pushed = 0

\* The new message's number is always the next one.
Push == /\ pushed' = pushed + 1
        /\ queue' = Append(IF Len(queue) = Cap THEN Tail(queue) ELSE queue, pushed + 1)

Pop == /\ queue # << >>
       /\ queue' = Tail(queue)
       /\ UNCHANGED pushed

Restart == queue' = << >> /\ UNCHANGED pushed

Next == Push \/ Pop \/ Restart
Spec == Init /\ [][Next]_fifoVars
=============================================================================
