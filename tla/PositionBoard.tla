---------------------------- MODULE PositionBoard ----------------------------
(***************************************************************************)
(* What live tracking promises of a van's position: one board per van that *)
(* shows a number, 0 when it is empty.  Once a position is promised to its *)
(* driver, only newer ones go up on the board, and only positions at least *)
(* as new are shown to viewers.  The board may be wiped at any time.       *)
(***************************************************************************)
EXTENDS Naturals

CONSTANTS
    Vans,      \* van ids
    Viewers,   \* those who are shown positions
    Last       \* bound: the newest position there is

VARIABLES
    board,     \* what the board of a van says
    promised,  \* the positions promised to be on the board, or newer ones
    shown      \* what a viewer was last shown of a van

vars == <<board, promised, shown>>

Newest(v, p) == \A q \in promised[v] : q <= p

Init ==
    /\ board = [v \in Vans |-> 0]
    /\ promised = [v \in Vans |-> {}]
    /\ shown = [s \in Viewers |-> [v \in Vans |-> 0]]

\* A position goes up, newer than all that are promised.
Put(v, p) ==
    /\ p \notin promised[v] /\ Newest(v, p)
    /\ board' = [board EXCEPT ![v] = p]
    /\ UNCHANGED <<promised, shown>>

\* The board is wiped.
Wipe(v) ==
    /\ board' = [board EXCEPT ![v] = 0]
    /\ UNCHANGED <<promised, shown>>

\* A driver is told that a position has arrived.
Promise(v, p) ==
    /\ board[v] = 0 \/ p <= board[v]
    /\ promised' = [promised EXCEPT ![v] = @ \cup {p}]
    /\ UNCHANGED <<board, shown>>

\* A viewer is shown a position.
Show(s, v, p) ==
    /\ Newest(v, p)
    /\ shown' = [shown EXCEPT ![s][v] = p]
    /\ UNCHANGED <<board, promised>>

Next ==
    \E v \in Vans :
        \/ Wipe(v)
        \/ \E p \in 1 .. Last : Put(v, p) \/ Promise(v, p) \/ \E s \in Viewers : Show(s, v, p)

Spec == Init /\ [][Next]_vars
=============================================================================
