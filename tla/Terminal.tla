------------------------------ MODULE Terminal ------------------------------
(***************************************************************************)
(* The terminals: the calls TtyRead and TtyWrite and the two traps of the  *)
(* terminal hardware, over the array t_array, with the life of the         *)
(* processes that make the calls as far as t_array can tell.               *)
(*                                                                         *)
(* The kernel is not interrupted and none of the four handlers gives up    *)
(* the CPU, so each is one action.  Which process runs is left open.  A    *)
(* process is known by the heap block of its PCB, which is what            *)
(* waiting_process points to, and by its pid, which no other process has.  *)
(*                                                                         *)
(* The hardware is not part of the source.  It is taken to copy what it is *)
(* given by TtyTransmit, to finish transmissions in the order in which     *)
(* they began, with a trap for each, and to hold lines until TtyReceive    *)
(* takes them, one at a time.                                              *)
(***************************************************************************)
EXTENDS Integers, Sequences, FiniteSets

CONSTANTS
  Pcb,                \* heap blocks for the PCBs of programs
  Tty,                \* the terminals
  TERMINAL_MAX_LINE,
  Lens,               \* lengths of the buffers programs write
  HEAP_BLOCKS,        \* buffers of TERMINAL_MAX_LINE the kernel heap has room for
  MAX_PID,            \* bounds: processes made, transmissions under way on a
  MAX_TRANSMITS,      \*   terminal, lines typed on it
  MAX_LINES,
  NULL

ASSUME TerminalAssumption ==
  /\ TERMINAL_MAX_LINE \in Nat \ {0}
  /\ Lens \subseteq Nat \ {0}
  /\ HEAP_BLOCKS \in Nat
  /\ MAX_PID \in Nat \ {0} /\ MAX_TRANSMITS \in Nat /\ MAX_LINES \in Nat
  /\ NULL \notin Pcb \cup Nat

VARIABLES
  pstate,             \* "none", "live" or "zombie", for each block
  pid,                \* 0 in a block that is no process
  last_pid,           \* what helper_new_pid gave last
  waiting_process,    \* of each terminal
  messages,           \* of each terminal: the line in each buffer, or none
  blocks,             \* buffers allocated and not freed: messages of terminals
  transmitting,       \* hardware: the transmissions under way, oldest first
  lines,              \* hardware: the lines nobody has taken, oldest first
  typed,              \* hardware: how many lines have been typed
  delivered           \* the lines TtyRead has returned to a process

processes == <<pstate, pid, last_pid>>
input     == <<messages, lines, typed, delivered>>
vars      == <<processes, waiting_process, blocks, transmitting, input>>

Transmission == [pid : 1..MAX_PID, len : 1..TERMINAL_MAX_LINE]

\* TerminalSetup, and the first program.
Init ==
  /\ \E p \in Pcb :
       /\ pstate = [q \in Pcb |-> IF q = p THEN "live" ELSE "none"]
       /\ pid = [q \in Pcb |-> IF q = p THEN 1 ELSE 0]
  /\ last_pid = 1
  /\ waiting_process = [t \in Tty |-> NULL]
  /\ messages = [t \in Tty |-> <<>>]
  /\ blocks = 0
  /\ transmitting = [t \in Tty |-> <<>>]
  /\ lines = [t \in Tty |-> <<>>]
  /\ typed = [t \in Tty |-> 0]
  /\ delivered = [t \in Tty |-> {}]

Runs(p) == pstate[p] = "live"
-----------------------------------------------------------------------------
\* Processes come and go.  malloc may put a new PCB where an old one was.
spawn_proc ==
  /\ \E p \in Pcb : Runs(p)
  /\ last_pid < MAX_PID
  /\ \E new \in Pcb :
       /\ pstate[new] = "none"
       /\ pstate' = [pstate EXCEPT ![new] = "live"]
       /\ pid' = [pid EXCEPT ![new] = last_pid + 1]
  /\ last_pid' = last_pid + 1
  /\ UNCHANGED <<waiting_process, blocks, transmitting, input>>

KernelExit(p) ==
  /\ Runs(p)
  /\ pstate' = [pstate EXCEPT ![p] = "zombie"]
  /\ UNCHANGED <<pid, last_pid, waiting_process, blocks, transmitting, input>>

\* Somebody waits for it.  No terminal is asked whether it points here.
free_proc(p) ==
  /\ pstate[p] = "zombie"
  /\ \E q \in Pcb : Runs(q)
  /\ pstate' = [pstate EXCEPT ![p] = "none"]
  /\ pid' = [pid EXCEPT ![p] = 0]
  /\ UNCHANGED <<last_pid, waiting_process, blocks, transmitting, input>>
-----------------------------------------------------------------------------
\* The amounts in which TtyWrite hands a buffer to the hardware.
CopyAmount_WholeBuffer(bytes_left) == bytes_left
CopyAmount_WholeLines(bytes_left) == TERMINAL_MAX_LINE
CopyAmount(bytes_left) ==
  IF bytes_left > TERMINAL_MAX_LINE THEN TERMINAL_MAX_LINE ELSE bytes_left
Pieces(len) ==
  [i \in 1..((len + TERMINAL_MAX_LINE - 1) \div TERMINAL_MAX_LINE) |->
     CopyAmount(len - (i - 1) * TERMINAL_MAX_LINE)]

\* Whom t_array[t] remembers as waiting once p writes.
NewWaiting_FirstOnly(p, t) == IF waiting_process[t] = NULL THEN p ELSE waiting_process[t]
NewWaiting(p, t) == p

\* "Sorry but you are waiting for transit to finish!": TtyWrite returns ERROR,
\* and changes nothing.
Refused(p, t) == waiting_process[t] = p

\* A buffer longer than a line is copied through one of the kernel's own, which
\* is freed again.  TtyWrite returns its length at once.
NeedsBuffer(len) == len > TERMINAL_MAX_LINE
KernelTtyWrite(p, t, len) ==
  /\ Runs(p)
  /\ ~Refused(p, t)
  /\ NeedsBuffer(len) => blocks < HEAP_BLOCKS
  /\ Len(transmitting[t] \o Pieces(len)) <= MAX_TRANSMITS
  /\ waiting_process' = [waiting_process EXCEPT ![t] = NewWaiting(p, t)]
  /\ transmitting' =
       [transmitting EXCEPT ![t] =
          @ \o [i \in DOMAIN Pieces(len) |-> [pid |-> pid[p], len |-> Pieces(len)[i]]]]
  /\ UNCHANGED <<processes, blocks, input>>

\* No memory for it: ERROR, and the caller stays written down as waiting.
KernelTtyWriteNoBuffer(p, t) ==
  /\ Runs(p)
  /\ ~Refused(p, t)
  /\ blocks = HEAP_BLOCKS
  /\ waiting_process' = [waiting_process EXCEPT ![t] = NewWaiting(p, t)]
  /\ UNCHANGED <<processes, blocks, transmitting, input>>

\* The hardware has finished its oldest transmission: whoever is waiting is no
\* longer written down, and nobody is made ready.
AfterTransmit_StillWaiting(t) == waiting_process
AfterTransmit(t) == [waiting_process EXCEPT ![t] = NULL]
HandleTransmitTrap(t) ==
  /\ transmitting[t] # <<>>
  /\ transmitting' = [transmitting EXCEPT ![t] = Tail(@)]
  /\ waiting_process' = AfterTransmit(t)
  /\ UNCHANGED <<processes, blocks, input>>
-----------------------------------------------------------------------------
\* Somebody types a line.
TypeLine(t) ==
  /\ typed[t] < MAX_LINES
  /\ typed' = [typed EXCEPT ![t] = @ + 1]
  /\ lines' = [lines EXCEPT ![t] = Append(@, typed[t] + 1)]
  /\ UNCHANGED <<processes, waiting_process, messages, blocks, transmitting, delivered>>

\* TtyRead asks the hardware, not the terminal's messages, and returns without
\* a line when the hardware has none.
LinesAfterRead(t) == [lines EXCEPT ![t] = Tail(@)]
KernelTtyRead(p, t) ==
  /\ Runs(p)
  /\ lines[t] # <<>>
  /\ lines' = LinesAfterRead(t)
  /\ delivered' = [delivered EXCEPT ![t] = @ \cup {Head(lines[t])}]
  /\ UNCHANGED <<processes, waiting_process, messages, blocks, transmitting, typed>>

\* What the receive trap stores of a line: a byte of the buffer that it has
\* cleared after the line was in it.
CLEARED == 0
Stored(line) == CLEARED
StoredLines(t, n) == [i \in 1..n |-> Stored(lines[t][i])]

\* It stores them from the first entry of messages on; the buffers that were
\* there are not freed.
Overwrite(old, new) == new \o SubSeq(old, Len(new) + 1, Len(old))

\* The receive trap takes every line, and each costs a buffer.  Without a buffer
\* for a line it returns, with that line taken and the others left.
HandleReceiveTrap(t) ==
  /\ lines[t] # <<>>
  /\ LET room == HEAP_BLOCKS - blocks
     IN  IF Len(lines[t]) <= room
         THEN /\ blocks' = blocks + Len(lines[t])
              /\ messages' = [messages EXCEPT ![t] =
                                Overwrite(@, StoredLines(t, Len(lines[t])))]
              /\ lines' = [lines EXCEPT ![t] = <<>>]
         ELSE /\ blocks' = HEAP_BLOCKS
              /\ messages' = [messages EXCEPT ![t] =
                                Overwrite(@, Append(StoredLines(t, room), NULL))]
              /\ lines' = [lines EXCEPT ![t] = SubSeq(@, room + 2, Len(@))]
  /\ UNCHANGED <<processes, waiting_process, transmitting, typed, delivered>>
-----------------------------------------------------------------------------
TtyWrite(p, t) ==
  (\E len \in Lens : KernelTtyWrite(p, t, len)) \/ KernelTtyWriteNoBuffer(p, t)

Next ==
  \/ spawn_proc
  \/ \E p \in Pcb : KernelExit(p) \/ free_proc(p)
  \/ \E p \in Pcb, t \in Tty : TtyWrite(p, t) \/ KernelTtyRead(p, t)
  \/ \E t \in Tty : HandleTransmitTrap(t) \/ TypeLine(t) \/ HandleReceiveTrap(t)

\* The hardware finishes what it was given to transmit.
Fairness == \A t \in Tty : WF_vars(HandleTransmitTrap(t))

Spec     == Init /\ [][Next]_vars
FairSpec == Spec /\ Fairness
=============================================================================
