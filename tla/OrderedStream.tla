--------------------------- MODULE OrderedStream ---------------------------
(***************************************************************************)
(* What a tunnel stream promises to the local socket: the frames of the    *)
(* server, whole, in order, each once, up to the close and none after it.  *)
(***************************************************************************)
EXTENDS Naturals, Sequences

CONSTANT NumFrames  \* how many frames the server has to send

VARIABLES
  delivered,  \* the numbers of the frames written to the socket
  open        \* nobody has closed the stream

Init == delivered = <<>> /\ open = TRUE

\* the next n frames
Following(n) == [i \in 1 .. n |-> Len(delivered) + i - 1]

Deliver ==
  /\ open
  /\ \E n \in 1 .. (NumFrames - Len(delivered)) :
       delivered' = delivered \o Following(n)
  /\ UNCHANGED open

Close ==
  /\ open
  /\ open' = FALSE
  /\ UNCHANGED delivered

Spec == Init /\ [][Deliver \/ Close]_<<delivered, open>>

=============================================================================
