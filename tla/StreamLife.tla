----------------------------- MODULE StreamLife -----------------------------
(***************************************************************************)
(* The life of the socket of one tunnel stream, from the moment it is in   *)
(* the table: one task closes it, the close ends once, and whoever ends it *)
(* takes the stream out of the table, if close_all() did not before.       *)
(***************************************************************************)
VARIABLES
  sock,   \* "open", being closed by the pump or by another task, "closed"
  known   \* the table of the client has the stream

LifeInit == sock = "open" /\ known = TRUE

Ends ==
  /\ sock = "open"
  /\ sock' \in {"closing", "expiring"}
  /\ UNCHANGED known

CloseEnds ==
  /\ sock \in {"closing", "expiring"}
  /\ sock' = "closed"
  /\ known' = FALSE

Dropped ==
  /\ known
  /\ known' = FALSE
  /\ UNCHANGED sock

LifeNext == Ends \/ CloseEnds \/ Dropped

LifeSpec == LifeInit /\ [][LifeNext]_<<sock, known>>

=============================================================================
