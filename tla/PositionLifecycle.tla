-------------------------- MODULE PositionLifecycle --------------------------
(***************************************************************************)
(* What PositionFacet and LiquidationFacet promise about the lives of      *)
(* positions, with nothing about money: ids are given out in order and     *)
(* never reused, a user has at most one open position in a market, and a   *)
(* position that has been retired stays so.  The code keeps the second     *)
(* promise by a pointer per user and market (userMarketPosition); here     *)
(* there is no pointer, opening looks at all positions.                    *)
(***************************************************************************)
EXTENDS Integers

CONSTANTS Users, Markets, NoUser, MaxPositions

VARIABLES
    book,       \* id -> [user, marketId, active]
    lastId      \* ids 1..lastId have been given out

lifecycleVars == <<book, lastId>>

Unopened(entry) == entry.user = NoUser /\ ~entry.active

Init ==
    /\ lastId = 0
    /\ \E m \in Markets :
          book = [id \in 1..MaxPositions |->
                    [user |-> NoUser, marketId |-> m, active |-> FALSE]]

Open(u, m) ==
    LET id == lastId + 1
    IN  /\ id <= MaxPositions
        /\ Unopened(book[id])
        /\ \A other \in 1..MaxPositions :
              ~(/\ book[other].active /\ book[other].user = u
                /\ book[other].marketId = m)
        /\ lastId' = id
        /\ book' = [book EXCEPT
                      ![id] = [user |-> u, marketId |-> m, active |-> TRUE]]

\* By its owner, a liquidator or the deleveraging keeper.
Retire(id) ==
    /\ book[id].active
    /\ book' = [book EXCEPT ![id].active = FALSE]
    /\ UNCHANGED lastId

Next ==
    \/ \E u \in Users, m \in Markets : Open(u, m)
    \/ \E id \in 1..MaxPositions : Retire(id)

Spec == Init /\ [][Next]_lifecycleVars
==============================================================================
