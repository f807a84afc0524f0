------------------------------- MODULE Lease -------------------------------
(***************************************************************************)
(* What the consent manager promises to the rest of the agent: maintenance *)
(* is allowed under a lease that ends by the clock.  A new lease is no     *)
(* longer than the window and is written down; one that is written down is *)
(* resumed, never lengthened, unless the giver was seen withdrawing it.    *)
(***************************************************************************)
EXTENDS Integers

CONSTANT Window  \* the longest lease

VARIABLES
  now,      \* the clock
  until,    \* when the lease in force ends, or None
  giver,    \* who gave it: the helper ("entity"), the add-on option, nobody
  kept,     \* the end of the lease that survives a restart, or None
  seenOff   \* the helper was last seen off

leaseVars == <<now, until, giver, kept, seenOff>>

None == -1
Givers == {"entity", "option"}

LeaseInit ==
  /\ now = 0
  /\ until = None /\ giver = "nobody"
  /\ kept = None
  /\ seenOff = FALSE

\* the helper, once on, is no longer seen off; the option tells nothing of it
Hears(g) == seenOff' = (seenOff /\ g = "option")

\* a new lease: there was none, or the helper was switched on again
Grant(g) ==
  /\ kept = None \/ (g = "entity" /\ seenOff)
  /\ kept' \in now + 1 .. now + Window
  /\ until' = kept' /\ giver' = g
  /\ Hears(g)
  /\ UNCHANGED now

\* the lease on file, or less of it
Resume(g) ==
  /\ kept # None
  /\ g = "entity" => ~seenOff
  /\ kept' \in now + 1 .. kept
  /\ g = "option" => kept' = kept
  /\ until' = kept' /\ giver' = g
  /\ Hears(g)
  /\ UNCHANGED now

\* the lease of a helper still on is found to be over
FindOver ==
  /\ kept' \in 0 .. now
  /\ kept # None /\ ~seenOff => kept' <= kept
  /\ seenOff' = FALSE
  /\ UNCHANGED <<now, until, giver>>

\* the lease is given back: struck off the file, or left there by a failed
\* read, a restart or its own end
Withdraw ==
  /\ until' = None /\ giver' = "nobody"
  /\ \/ kept' = None /\ seenOff' \in {seenOff, TRUE}
     \/ kept' = kept /\ seenOff' \in {seenOff, FALSE}
  /\ UNCHANGED now

\* the clock moves, and ends the lease
Tick ==
  /\ now' = now + 1
  /\ IF until # None /\ until <= now'
     THEN until' = None /\ giver' = "nobody"
     ELSE UNCHANGED <<until, giver>>
  /\ UNCHANGED <<kept, seenOff>>

LeaseNext ==
  \/ \E g \in Givers : Grant(g) \/ Resume(g)
  \/ FindOver \/ Withdraw \/ Tick

LeaseSpec == LeaseInit /\ [][LeaseNext]_leaseVars

=============================================================================
