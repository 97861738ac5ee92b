----------------------------- MODULE FrameTable -----------------------------
(***************************************************************************)
(* What the kernel owes whoever holds frames of physical memory: a frame   *)
(* gets from one holder to another only by being given back first.  This   *)
(* is abstract: Memory implements it with the page tables and kernel       *)
(* stacks of processes as holders, KernelHeap with the kernel's own heap   *)
(* among them.                                                             *)
(*                                                                         *)
(* A frame that is neither free nor held is lost.  A holder drops frames   *)
(* without giving them back only if it is one of the careless.             *)
(***************************************************************************)
EXTENDS TLAPS

CONSTANTS Frame, Holder, Careless
VARIABLES free, holds
vars == <<free, holds>>

\* Nobody holds a frame that somebody else holds or that is free.
Exclusive ==
  /\ \A h \in Holder : holds[h] \cap free = {}
  /\ \A g, h \in Holder : g # h => holds[g] \cap holds[h] = {}

Init ==
  /\ free \subseteq Frame
  /\ holds \in [Holder -> SUBSET Frame]
  /\ Exclusive

Gained(h)  == holds'[h] \ holds[h]
Dropped(h) == holds[h] \ holds'[h]

\* Holders gain what was free, and each of them something else; what they drop
\* is free from then on; nothing else becomes free.
Step ==
  /\ \A h \in Holder : Gained(h) \subseteq free \ free'
  /\ \A f \in free \ free' : \A g, h \in Holder :
       f \in Gained(g) /\ f \in Gained(h) => g = h
  /\ \A h \in Holder \ Careless : Dropped(h) \subseteq free'
  /\ \A f \in free' \ free : \E h \in Holder : f \in Dropped(h)

Spec == Init /\ [][Step]_vars
-----------------------------------------------------------------------------
\* Frames are held by one holder at a time, whoever the holders are and however
\* careless: what an implementation of this module inherits (find_frame and
\* frame_free, and the loops of Fork, Exec, Brk and SetKernelBrk around them).
THEOREM FramesAreExclusive == Spec => []Exclusive
<1>1. Init => Exclusive
  BY DEF Init
<1>2. Exclusive /\ [Step]_vars => Exclusive'
  <2> SUFFICES ASSUME Exclusive, Step PROVE Exclusive'
    BY DEF Exclusive, vars
  <2>1. ASSUME NEW h \in Holder, NEW f \in holds'[h], f \in free' PROVE FALSE
    <3>1. CASE f \in holds[h]
      <4>1. f \notin free
        BY <3>1 DEF Exclusive
      <4>2. PICK g \in Holder : f \in Dropped(g)
        BY <4>1, <2>1 DEF Step
      <4>3. QED
        BY <4>2, <3>1, <2>1 DEF Exclusive, Dropped
    <3>2. CASE f \notin holds[h]
      BY <3>2, <2>1 DEF Step, Gained
    <3>3. QED
      BY <3>1, <3>2
  <2>2. ASSUME NEW g \in Holder, NEW h \in Holder, g # h,
               NEW f \in holds'[g], f \in holds'[h]
        PROVE  FALSE
    <3>1. CASE f \in Gained(g) /\ f \in Gained(h)
      BY <3>1, <2>2 DEF Step
    <3>2. CASE f \in Gained(g) /\ f \notin Gained(h)
      BY <3>2, <2>2 DEF Step, Exclusive, Gained
    <3>3. CASE f \notin Gained(g) /\ f \in Gained(h)
      BY <3>3, <2>2 DEF Step, Exclusive, Gained
    <3>4. CASE f \notin Gained(g) /\ f \notin Gained(h)
      BY <3>4, <2>2 DEF Exclusive, Gained
    <3>5. QED
      BY <3>1, <3>2, <3>3, <3>4
  <2>3. QED
    BY <2>1, <2>2 DEF Exclusive
<1>3. QED
  BY <1>1, <1>2, PTL DEF Spec
=============================================================================
