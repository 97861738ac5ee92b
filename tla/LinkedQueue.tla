---------------------------- MODULE LinkedQueue ----------------------------
(***************************************************************************)
(* One queue of Queue.c, node by node: the singly linked list, its head,   *)
(* tail and size, and the two loops that unlink from its middle:           *)
(* remove_data, and the wake-up loop of the clock handler, which splices   *)
(* nodes out of the list it walks without going through Queue.c.           *)
(* Module Queue holds the sequence operators the rest of the project uses  *)
(* in its place; the properties below say that they are the same.          *)
(***************************************************************************)
EXTENDS Integers, Sequences, FiniteSets

CONSTANTS
  Node,    \* heap blocks malloc(sizeof(QueueNode)) can return
  Data,    \* the PCB pointers that are queued
  NULL

ASSUME LinkedQueueAssumption == NULL \notin Node \cup Data

VARIABLES
  head, tail, size,   \* the Queue
  next, data,         \* the fields of every node
  allocated,          \* nodes that malloc has returned and nobody has freed
  loop,               \* "none", "remove" or "sweep": the loop that is running
  prev, current,      \* its two cursors
  find_data           \* what remove_data looks for

list    == <<head, tail, size, next, data, allocated>>
cursors == <<loop, prev, current, find_data>>
vars    == <<list, cursors>>

Fifo == INSTANCE Queue

\* initializeQueue.
Init ==
  /\ head = NULL /\ tail = NULL /\ size = 0
  /\ next = [n \in Node |-> NULL]
  /\ data = [n \in Node |-> NULL]
  /\ allocated = {}
  /\ loop = "none" /\ prev = NULL /\ current = NULL /\ find_data = NULL
-----------------------------------------------------------------------------
isEmpty == size = 0

\* makeNode clears the new node's link, and Enqueue hangs it behind the tail.
LinkedBehindTail_OldTailForgotten(n) == [next EXCEPT ![n] = NULL]
LinkedBehindTail(n) ==
  IF isEmpty THEN [next EXCEPT ![n] = NULL]
             ELSE [next EXCEPT ![n] = NULL, ![tail] = n]

Enqueue(d) ==
  /\ loop = "none"
  /\ \E n \in Node \ allocated :
       /\ allocated' = allocated \cup {n}
       /\ data' = [data EXCEPT ![n] = d]
       /\ next' = LinkedBehindTail(n)
       /\ head' = IF isEmpty THEN n ELSE head
       /\ tail' = n
       /\ size' = size + 1
  /\ UNCHANGED cursors

\* makeNode gets no memory: Enqueue returns, and its caller is not told.
EnqueueNoMemory ==
  /\ loop = "none"
  /\ allocated = Node
  /\ UNCHANGED vars

\* The head node is unlinked and freed.
DropHead ==
  /\ head' = next[head]
  /\ tail' = IF next[head] = NULL THEN NULL ELSE tail
  /\ size' = size - 1
  /\ allocated' = allocated \ {head}
  /\ UNCHANGED <<next, data>>

Dequeue ==
  /\ loop = "none"
  /\ ~isEmpty
  /\ DropHead
  /\ UNCHANGED cursors

\* remove_data finds its data at the head, or starts a search behind it.
remove_data(d) ==
  /\ loop = "none"
  /\ ~isEmpty
  /\ \/ /\ data[head] = d
        /\ DropHead
        /\ UNCHANGED cursors
     \/ /\ data[head] # d
        /\ loop' = "remove"
        /\ prev' = head
        /\ current' = next[head]
        /\ find_data' = d
        /\ UNCHANGED list

LeaveLoop ==
  /\ loop' = "none" /\ prev' = NULL /\ current' = NULL /\ find_data' = NULL

\* The node that has been unlinked is freed.
FreedAfterUnlink_Kept == allocated
FreedAfterUnlink == allocated \ {current}

\* One iteration of the search.
RemoveUnlink ==
  /\ loop = "remove"
  /\ current # NULL
  /\ data[current] = find_data
  /\ next' = [next EXCEPT ![prev] = next[current]]
  /\ tail' = IF current = tail THEN prev ELSE tail
  /\ size' = size - 1
  /\ allocated' = FreedAfterUnlink
  /\ LeaveLoop
  /\ UNCHANGED <<head, data>>

RemoveAdvance ==
  /\ loop = "remove"
  /\ current # NULL
  /\ data[current] # find_data
  /\ prev' = current
  /\ current' = next[current]
  /\ UNCHANGED <<list, loop, find_data>>

RemoveNotFound ==
  /\ loop = "remove"
  /\ current = NULL
  /\ LeaveLoop
  /\ UNCHANGED list
-----------------------------------------------------------------------------
\* HandleClockTrap walks the sleep queue.
SweepStart ==
  /\ loop = "none"
  /\ loop' = "sweep"
  /\ prev' = NULL
  /\ current' = head
  /\ UNCHANGED <<list, find_data>>

\* What it writes to tail when it unlinks a node whose successor is nxt.
SweptTail_Kept(nxt) == tail
SweptTail(nxt) == IF nxt = NULL THEN prev ELSE tail

\* The cursor behind current moves on only over a node that stays.
SweptPrev_AlwaysAdvances(due) == current
SweptPrev(due) == IF due THEN prev ELSE current

\* One iteration; whether the process is due is none of the queue's business.
\* The node that is unlinked is not freed.
SweepStep(due) ==
  /\ loop = "sweep"
  /\ current # NULL
  /\ IF due
     THEN /\ head' = IF prev = NULL THEN next[current] ELSE head
          /\ next' = IF prev = NULL THEN next
                     ELSE [next EXCEPT ![prev] = next[current]]
          /\ tail' = SweptTail(next[current])
          /\ size' = size - 1
          /\ UNCHANGED <<data, allocated>>
     ELSE UNCHANGED list
  /\ prev' = SweptPrev(due)
  /\ current' = next[current]
  /\ UNCHANGED <<loop, find_data>>

SweepEnd ==
  /\ loop = "sweep"
  /\ current = NULL
  /\ LeaveLoop
  /\ UNCHANGED list
-----------------------------------------------------------------------------
Next ==
  \/ \E d \in Data : Enqueue(d) \/ remove_data(d)
  \/ EnqueueNoMemory
  \/ Dequeue
  \/ RemoveUnlink \/ RemoveAdvance \/ RemoveNotFound
  \/ SweepStart \/ SweepEnd
  \/ \E due \in BOOLEAN : SweepStep(due)

Spec == Init /\ [][Next]_vars
-----------------------------------------------------------------------------
\* The nodes reached in size steps from the head, and the data in them.
Chain ==
  LET at[i \in 1..size] ==
        IF i = 1 THEN head
        ELSE IF at[i - 1] = NULL THEN NULL
        ELSE next[at[i - 1]]
  IN  [i \in 1..size |-> at[i]]
Contents == [i \in 1..size |-> IF Chain[i] = NULL THEN NULL ELSE data[Chain[i]]]

\* WellFormed: size counts the nodes of the list, which are distinct and
\* allocated, the last of them is the tail and ends the list, and an empty
\* queue has neither head nor tail.  Every step of every loop keeps it so.
WellFormed ==
  /\ \A i \in 1..size : Chain[i] \in allocated
  /\ \A i, j \in 1..size : Chain[i] = Chain[j] => i = j
  /\ size = 0 => head = NULL /\ tail = NULL
  /\ size > 0 => Chain[size] = tail /\ next[tail] = NULL

\* While a loop unlinks from the list it walks, its cursors stay neighbours in
\* that list.
CursorsInList ==
  loop # "none" =>
    /\ prev = NULL => current = head
    /\ prev # NULL => \E i \in 1..size : Chain[i] = prev /\ next[prev] = current

\* OperationsMeetQueue: each operation does to the contents what the operator
\* of the same name in module Queue does to a sequence, and a queue only
\* changes by the operation that was called.
Position(n) == CHOOSE i \in 1..size : Chain[i] = n
OperationsMeetQueue ==
  [][/\ \A d \in Data : Enqueue(d) => Contents' = Fifo!Enqueue(Contents, d)
     /\ Dequeue => Contents' = Fifo!Dequeue(Contents)
     /\ \A d \in Data : remove_data(d) /\ loop' = "none" =>
          Contents' = Fifo!remove_data(Contents, d)
     /\ loop = "remove" /\ loop' = "none" =>
          Contents' = Fifo!remove_data(Contents, find_data)
     /\ loop = "sweep" /\ SweepStep(TRUE) =>
          Contents' = Fifo!UnlinkAt(Contents, Position(current))
     /\ loop' # "none" /\ size' = size => Contents' = Contents]_vars

\* Nodes are lost, allocated and no longer in the queue, only when the wake-up
\* loop of the clock handler unlinks them: "free since we called malloc, also to
\* avoid memory leak" says Dequeue, and remove_data does likewise, but the loop
\* goes round both.
LostNodes == allocated \ {Chain[i] : i \in 1..size}
NodesLostOnlyBySweep == [][LostNodes' \subseteq LostNodes \/ SweepStep(TRUE)]_vars
-----------------------------------------------------------------------------
(* The inductive invariant.  WellFormed is not inductive alone: what a     *)
(* loop unlinks depends on where its cursors are.                          *)

TypeOK ==
  /\ size \in Nat
  /\ head \in Node \cup {NULL} /\ tail \in Node \cup {NULL}
  /\ next \in [Node -> Node \cup {NULL}] /\ data \in [Node -> Data \cup {NULL}]
  /\ allocated \subseteq Node /\ \A n \in allocated : data[n] \in Data
  /\ loop \in {"none", "remove", "sweep"}
  /\ prev \in Node \cup {NULL} /\ current \in Node \cup {NULL}
  /\ find_data \in Data \cup {NULL}

\* The nodes of the list in their order.
IsChain(c) ==
  /\ c \in [1..size -> allocated]
  /\ \A i, j \in 1..size : c[i] = c[j] => i = j
  /\ size = 0 => head = NULL /\ tail = NULL
  /\ size > 0 => c[1] = head /\ c[size] = tail /\ next[tail] = NULL
  /\ \A i \in 1..(size - 1) : next[c[i]] = c[i + 1]

\* The cursor behind is before the head, in the sweep, or on a node; and the
\* search has passed no node that holds what it looks for.
CursorsAt(c) ==
  loop # "none" =>
    /\ prev = NULL => loop = "sweep" /\ current = head
    /\ prev # NULL => \E k \in 1..size :
         /\ c[k] = prev /\ next[prev] = current
         /\ loop = "remove" => \A i \in 1..k : data[c[i]] # find_data

IInv == TypeOK /\ \E c \in [1..size -> allocated] : IsChain(c) /\ CursorsAt(c)
=============================================================================
