--------------------------- MODULE EventDelivery ----------------------------
(***************************************************************************)
(* What a reader of a growing log promises: every entry is handled at      *)
(* least once before the reader's mark passes it, whatever crashes or      *)
(* repetitions lie between, and the mark never goes back.  Entries above    *)
(* the mark are handled in any order and as often as one likes.            *)
(***************************************************************************)
EXTENDS Integers

CONSTANT First      \* entries below First never need handling

VARIABLES
    published,      \* entries 1..published exist
    delivered,      \* those handled
    acked           \* the mark

deliveryVars == <<published, delivered, acked>>

Init ==
    /\ published = First - 1
    /\ delivered = {}
    /\ acked = First - 1

Publish ==
    /\ published' = published + 1
    /\ UNCHANGED <<delivered, acked>>

Deliver(n) ==
    /\ acked < n /\ n <= published
    /\ delivered' = delivered \union {n}
    /\ UNCHANGED <<published, acked>>

Ack(n) ==
    /\ acked < n /\ n <= published
    /\ (acked + 1)..n \subseteq delivered
    /\ acked' = n
    /\ UNCHANGED <<published, delivered>>

Next ==
    \/ Publish
    \/ \E n \in First..published : Deliver(n) \/ Ack(n)

Spec == Init /\ [][Next]_deliveryVars
=============================================================================
