--------------------------- MODULE BlockDelivery ---------------------------
(***************************************************************************)
(* What the batcher's channel manager promises the driver, without         *)
(* channels, frames and transactions: L2 blocks are taken in order, each   *)
(* is held until L1 has it, and what L1 has stays there.  Module           *)
(* ChannelManager implements this specification.                           *)
(***************************************************************************)
EXTENDS Integers

CONSTANT MaxBlock       \* L2 blocks are 1..MaxBlock

VARIABLES
    open,               \* the manager is not closed
    first, last,        \* the blocks taken since the last reset, 0 if none
    held,               \* blocks the manager still has to do with
    delivered           \* blocks that are on L1 in a form derivation accepts

vars == <<open, first, last, held, delivered>>

Taken == IF last = 0 THEN {} ELSE first..last

Init == open = TRUE /\ first = 0 /\ last = 0 /\ held = {} /\ delivered = {}

\* The next block is taken.
Take(b) ==
    /\ open /\ last \in {0, b - 1}
    /\ first' = (IF last = 0 THEN b ELSE first) /\ last' = b
    /\ held' = held \cup {b}
    /\ UNCHANGED <<open, delivered>>

\* The manager works on what it has taken.  Blocks reach L1 and remain there; until the
\* manager is closed it lets go only of blocks that are on L1.  It may take up any of
\* them again: a channel that was confirmed too late is sent once more.
Work ==
    /\ held' \subseteq Taken
    /\ delivered \subseteq delivered' /\ delivered' \subseteq Taken
    /\ open => held \subseteq held' \cup delivered'
    /\ UNCHANGED <<open, first, last>>

\* The manager is closed and may drop what it has not begun to send.
Close ==
    /\ open /\ open' = FALSE
    /\ held' \subseteq held
    /\ UNCHANGED <<first, last, delivered>>

\* The manager starts afresh.
Reset ==
    /\ open' = TRUE /\ first' = 0 /\ last' = 0 /\ held' = {} /\ delivered' = {}

Next == (\E b \in 1..MaxBlock : Take(b)) \/ Work \/ Close \/ Reset

Spec == Init /\ [][Next]_vars
=============================================================================
