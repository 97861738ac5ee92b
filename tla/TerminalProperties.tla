------------------------- MODULE TerminalProperties -------------------------
(***************************************************************************)
(* What must hold of the terminals of module Terminal.                     *)
(***************************************************************************)
EXTENDS Terminal, SequencesExt

\* Type invariant: among other things no two processes have a pid in common and
\* the kernel heap is never overdrawn.
TypeOK ==
  /\ pstate \in [Pcb -> {"none", "live", "zombie"}]
  /\ pid \in [Pcb -> 0..MAX_PID]
  /\ last_pid \in 1..MAX_PID
  /\ \A p, q \in Pcb : pid[p] = pid[q] /\ pid[p] # 0 => p = q
  /\ waiting_process \in [Tty -> Pcb \cup {NULL}]
  /\ messages \in [Tty -> Seq({CLEARED, NULL} \cup 1..MAX_LINES)]
  /\ blocks \in 0..HEAP_BLOCKS
  /\ transmitting \in [Tty -> Seq(Transmission)]
  /\ lines \in [Tty -> Seq(1..MAX_LINES)]
  /\ typed \in [Tty -> 0..MAX_LINES]
  /\ delivered \in [Tty -> SUBSET (1..MAX_LINES)]
-----------------------------------------------------------------------------
\* Output is complete: what TtyWrite says it has written is what the hardware
\* was given, no byte more or less, also where the buffer is cut into lines.
Bytes(transmissions) ==
  LET sum[i \in 0..Len(transmissions)] ==
        IF i = 0 THEN 0 ELSE sum[i - 1] + transmissions[i].len
  IN  sum[Len(transmissions)]
WrittenWhole ==
  [][\A p \in Pcb, t \in Tty, len \in Lens :
       KernelTtyWrite(p, t, len) =>
         Bytes(transmitting'[t]) = Bytes(transmitting[t]) + len]_vars

\* A terminal has somebody waiting only while it transmits, and then the one
\* whose transmission began last, or the PCB that has taken its place since
\* it died.  That ends when the kernel heap is full: a TtyWrite that gets no
\* buffer has already put its caller down as waiting.
WaitingForTransmission ==
  blocks < HEAP_BLOCKS =>
    \A t \in Tty : LET p == waiting_process[t] IN p # NULL =>
      /\ transmitting[t] # <<>>
      /\ LET sender == Last(transmitting[t]).pid
         IN  \/ pid[p] = sender
             \/ \A q \in Pcb : pid[q] # sender

\* A process that is refused because it is waiting can write again in the end,
\* if there is something it can be waiting for.
RefusalEnds ==
  \A p \in Pcb, t \in Tty :
    Refused(p, t) /\ transmitting[t] # <<>> ~> ~Refused(p, t)
-----------------------------------------------------------------------------
(* The inductive invariant.  WaitingForTransmission is not inductive alone: *)
(* helper_new_pid must never give the pid of a transmission under way.      *)

\* Pids are given in order, to blocks that are processes; the process that began
\* a transmission had one that had been given before.
Pids ==
  /\ \A p \in Pcb : pid[p] <= last_pid /\ (pid[p] = 0 <=> pstate[p] = "none")
  /\ \A t \in Tty : \A i \in DOMAIN transmitting[t] : transmitting[t][i].pid <= last_pid

IInv == TypeOK /\ Pids /\ WaitingForTransmission
-----------------------------------------------------------------------------
\* "Store in our terminal struct ... This will get read later on by Ttyread"
\* (HandleReceiveTrap): a line that has been typed is still with the hardware, or
\* in the terminal's messages, or a program has got it.  The trap stores a byte
\* that it has just cleared, and TtyRead asks the hardware only.
LinesKept ==
  \A t \in Tty : 1..typed[t] \subseteq ToSet(lines[t]) \cup ToSet(messages[t]) \cup delivered[t]
=============================================================================
