------------------------------- MODULE Queue -------------------------------
(***************************************************************************)
(* What Queue.c promises its callers: a FIFO of PCB pointers, written as a *)
(* sequence with the head of the linked list first.  These operators are   *)
(* the ones the kernel's handlers use on readyQueue and sleepQueue; the    *)
(* module LinkedQueue shows that the node-by-node code of Queue.c          *)
(* implements them.                                                        *)
(***************************************************************************)
EXTENDS Integers, Sequences, SequencesExt

\* isEmpty tests size = 0; in a sequence that is the empty sequence.
isEmpty(q) == q = <<>>

\* A new node goes behind the tail.
Enqueue_AtHead(q, data) == <<data>> \o q
Enqueue(q, data) == Append(q, data)

\* Dequeue drops the head node; on an empty queue it changes nothing.
Dequeue(q) == IF isEmpty(q) THEN q ELSE Tail(q)

\* The node at position i is spliced out, as the wake-up loop of the clock
\* handler does in place and remove_data does after its search.
UnlinkAt(q, i) == RemoveAt(q, i)

\* remove_data unlinks the first node that holds data, if there is one.
remove_data_NotFound(q, data) == q
remove_data(q, data) ==
  LET hits == {i \in DOMAIN q : q[i] = data}
  IN  IF hits = {}
      THEN q
      ELSE UnlinkAt(q, CHOOSE i \in hits : \A j \in hits : i <= j)

\* The data held by the nodes of q.
Members(q) == ToSet(q)

\* No two nodes of q hold the same data.
NoDuplicates(q) == \A i, j \in DOMAIN q : q[i] = q[j] => i = j
=============================================================================
