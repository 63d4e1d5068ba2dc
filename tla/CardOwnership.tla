--------------------------- MODULE CardOwnership ---------------------------
(***************************************************************************)
(* What ServerPilot promises about GPU cards, with no server, session or   *)
(* observation in sight: a card has at most one holder, it changes hands   *)
(* only by being free in between, one lease is granted cards at a time,    *)
(* and a lease that is over never holds a card again.  Ledger implements   *)
(* this specification.                                                     *)
(***************************************************************************)
CONSTANTS
  Cards,   \* physical GPU cards
  Leases,  \* lease identities, each issued at most once
  Free     \* the holder of a card nobody holds, not a lease

VARIABLES
  holder,  \* the lease that holds each card, or Free
  over     \* leases that have ended

vars == <<holder, over>>

HeldBy(h, l) == {c \in Cards : h[c] = l}

Init == /\ holder = [c \in Cards |-> Free]
        /\ over = {}

\* A lease that is not over takes cards nobody holds.  It may hand back some
\* of its own in the same step, never all of them for nothing.
Grant(l) ==
  /\ l \in Leases \ over
  /\ holder' \in [Cards -> Leases \union {Free}]
  /\ \A c \in Cards : holder'[c] # holder[c] =>
        \/ holder[c] = Free /\ holder'[c] = l
        \/ holder[c] = l /\ holder'[c] = Free
  /\ HeldBy(holder', l) # {}
  /\ UNCHANGED over

\* Cards go back to the pool, from any number of leases at once.  The leases
\* left with nothing are exactly the ones that end.
GiveBack ==
  /\ holder' \in [Cards -> Leases \union {Free}]
  /\ \A c \in Cards : holder'[c] # holder[c] => holder'[c] = Free
  /\ over' = over \union {l \in Leases : /\ HeldBy(holder, l) # {}
                                         /\ HeldBy(holder', l) = {}}

Next == GiveBack \/ \E l \in Leases : Grant(l)

Spec == Init /\ [][Next]_vars
=============================================================================
