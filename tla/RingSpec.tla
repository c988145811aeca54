------------------------------ MODULE RingSpec ------------------------------
(***************************************************************************)
(* What the ring of buffers promises: it is a sequence of buffers, never   *)
(* empty, that changes only by adding a buffer at the end and closing one, *)
(* and rubbing out a command makes it and everything else again what it    *)
(* was before the command, wherever that has stopped.                      *)
(***************************************************************************)
EXTENDS SequencesExt

VARIABLES
  order,   \* the buffers of the ring
  rest,    \* everything else that a user can see: what is edited, texts, files
  saved    \* what <<order, rest>> was before the commands that may be rubbed out

ringVars == <<order, rest, saved>>

Added == \E b \in {Last(order')} : order' = Append(order, b) /\ ~Contains(order, b)
Closed == \E i \in DOMAIN order : order' = RemoveAt(order, i) /\ order' # <<>>
Renewed == Len(order) = 1 /\ Len(order') = 1
Command ==
  /\ saved' # <<>> /\ saved' \in {saved, Append(saved, <<order, rest>>)}
  /\ order' = order \/ Added \/ Closed \/ Renewed
Rubbed ==
  /\ saved # <<>> /\ saved' = Front(saved)
  /\ order' = Last(saved)[1] /\ rest' = Last(saved)[2]
Accepted == saved' = <<>> /\ UNCHANGED <<order, rest>>
Restarted == saved' = <<>> /\ Len(order') = 1

RingInit == order # <<>> /\ saved = <<>>
RingNext == Command \/ Rubbed \/ Accepted \/ Restarted
RingIsRestored == RingInit /\ [][RingNext]_ringVars
=============================================================================
