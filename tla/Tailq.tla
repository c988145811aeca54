------------------------------- MODULE Tailq --------------------------------
(***************************************************************************)
(* Tail queues (list.h): a doubly linked list whose head looks like one of *)
(* its entries.  The first entry is the one after the head, the last one   *)
(* is the one before it.  An entry that is removed keeps its pointers.     *)
(***************************************************************************)
EXTENDS Integers, Sequences

CONSTANTS
  Entries,   \* addresses of entries
  Root,      \* the address of the head
  Null       \* the null pointer

ASSUME TailqAssumption == Root \notin Entries /\ Null \notin Entries /\ Null # Root

Nodes == Entries \cup {Root}
Links == [next : [Nodes -> Nodes \cup {Null}], prev : [Nodes -> Nodes \cup {Null}]]
EmptyTailq ==
  [next |-> [n \in Nodes |-> Null], prev |-> [n \in Nodes |-> IF n = Root THEN Root ELSE Null]]

InsertBefore(l, a, b) ==
  [next |-> [l.next EXCEPT ![b] = a, ![l.prev[a]] = b],
   prev |-> [l.prev EXCEPT ![b] = l.prev[a], ![a] = b]]
InsertTail(l, b) ==
  [next |-> [l.next EXCEPT ![b] = Null, ![l.prev[Root]] = b],
   prev |-> [l.prev EXCEPT ![b] = l.prev[Root], ![Root] = b]]
RemoveOneWay(l, b) == [l EXCEPT !.next = [@ EXCEPT ![l.prev[b]] = l.next[b]]]
RemoveEntry(l, b) ==
  [next |-> [l.next EXCEPT ![l.prev[b]] = l.next[b]],
   prev |-> [l.prev EXCEPT ![IF l.next[b] # Null THEN l.next[b] ELSE Root] = l.prev[b]]]

After(l, b) == l.next[b]
Before(l, b) == l.next[l.prev[l.prev[b]]]

(* teco_undo_ring_reinsert_action(): an entry goes back to where the       *)
(* pointers say that it has been.                                          *)
ReinsertAtTail(l, b) == InsertTail(l, b)
Reinsert(l, b) == IF l.next[b] # Null THEN InsertBefore(l, l.next[b], b) ELSE InsertTail(l, b)

-----------------------------------------------------------------------------
(* The sequence s is what the list is.                                     *)

NodeOf(s, i) == IF i = 0 THEN Root ELSE s[i]
NextOf(s, i) == IF i = Len(s) THEN Null ELSE s[i + 1]
Distinct(s) == \A i, j \in 1..Len(s) : s[i] = s[j] => i = j
IsList(l, s) ==
  /\ s \in Seq(Entries) /\ Distinct(s)
  /\ \A i \in 0..Len(s) : l.next[NodeOf(s, i)] = NextOf(s, i)
  /\ \A i \in 1..Len(s) : l.prev[s[i]] = NodeOf(s, i - 1)
  /\ l.prev[Root] = NodeOf(s, Len(s))
=============================================================================
