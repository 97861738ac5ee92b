---------------------------- MODULE MemoryProofs ----------------------------
(***************************************************************************)
(* Proofs about module Memory, for any number of processes, pages and      *)
(* frames, any programs, and any breaks and faults.                        *)
(***************************************************************************)
EXTENDS MemoryProperties, FiniteSetTheorems, TLAPS

QF == INSTANCE QueueFacts
-----------------------------------------------------------------------------
(* What the loops and find_frame take.                                     *)

\* The assumptions on the constants, but for those that count.
LEMMA Constants ==
  /\ idle_process \in Pcb /\ init_process \in Pcb /\ idle_process # init_process
  /\ MAX_PT_LEN \in Nat /\ MAX_PT_LEN > 0 /\ frame_count \in Nat
  /\ Reserved \subseteq Frame
  /\ V1_KSTACK \in Reserved /\ V2_KSTACK \in Reserved /\ V1_KSTACK # V2_KSTACK
  /\ Programs \subseteq Layout
  /\ \A prog \in Programs :
       prog.text_pg1 + prog.t_npg <= prog.data_pg1 /\ prog.stack_npg > 0
  /\ Breaks \subseteq 1..(2 * MAX_PT_LEN)
  /\ Faults \subseteq (0..(2 * MAX_PT_LEN - 1)) \X BOOLEAN
  /\ NULL \notin Frame /\ NULL \notin Pcb /\ NULL \notin Programs
BY MemoryAssumption DEF Reserved

\* The frame that find_frame gives is one that was not taken.
LEMMA FindFrame ==
  ASSUME NEW taken, Frame \ taken # {}
  PROVE  find_frame(taken) \in Frame \ taken
<1> DEFINE Free == Frame \ taken
<1>1. Free \subseteq Nat /\ Free # {}
  BY Constants DEF Frame
<1> HIDE DEF Free
<1>2. \E f \in Free : \A g \in Free : f <= g
  BY <1>1, QF!LeastPosition
<1> QED
  BY <1>2 DEF find_frame, Free

\* The page a loop has come to is the lowest of those it has still to do.
LEMMA NextPage ==
  ASSUME todo \subseteq Page, todo # {}
  PROVE  vpn \in todo /\ \A w \in todo : vpn <= w
<1>1. todo \subseteq Nat
  BY Constants DEF Page
<1>2. \E v \in todo : \A w \in todo : v <= w
  BY <1>1, QF!LeastPosition
<1> QED
  BY <1>2 DEF vpn

\* Two different things are two.
LEMMA Pair ==
  ASSUME NEW a, NEW b, a # b
  PROVE  IsFiniteSet({a, b}) /\ Cardinality({a, b}) = 2
<1>1. IsFiniteSet({a}) /\ Cardinality({a}) = 1
  BY FS_Singleton
<1>2. b \notin {a} /\ {a} \cup {b} = {a, b}
  OBVIOUS
<1>3. /\ IsFiniteSet({a} \cup {b})
      /\ Cardinality({a} \cup {b}) = IF b \in {a} THEN Cardinality({a}) ELSE Cardinality({a}) + 1
  BY <1>1, FS_AddElement
<1>4. Cardinality({a} \cup {b}) = 1 + 1
  BY <1>1, <1>2, <1>3
<1> QED
  BY <1>2, <1>3, <1>4

\* A set of frames with two elements has another besides any given one.
LEMMA TwoFrames ==
  ASSUME NEW S \in SUBSET Frame, NEW n \in Nat, Cardinality(S) > n,
         NEW T, IsFiniteSet(T), Cardinality(T) <= n
  PROVE  S \ T # {}
<1> SUFFICES ASSUME S \subseteq T PROVE FALSE
  OBVIOUS
<1>1. Cardinality(S) <= Cardinality(T) /\ Cardinality(T) \in Nat
  BY FS_Subset, FS_CardinalityType
<1>2. IsFiniteSet(S) /\ Cardinality(S) \in Nat
  BY FS_Subset, FS_CardinalityType
<1> QED
  BY <1>1, <1>2
-----------------------------------------------------------------------------
(* Who owns what.                                                          *)

\* A process owns the frames in its table and in its kernel stack.
LEMMA OwnedDef ==
  ASSUME NEW p, NEW f
  PROVE  f \in Owned(p) <=>
           /\ f # NULL
           /\ (\E v \in Page : pt[p][v] = f) \/ (\E i \in KStack : kernel_stack_frames[p][i] = f)
BY DEF Owned, PageFrames, StackFrames

LEMMA OwnedDefNext ==
  ASSUME NEW p, NEW f
  PROVE  f \in Owned(p)' <=>
           /\ f # NULL
           /\ \/ \E v \in Page : pt'[p][v] = f
              \/ \E i \in KStack : kernel_stack_frames'[p][i] = f
BY DEF Owned, PageFrames, StackFrames

\* Under frame isolation what a process owns is in use and nobody else's.
LEMMA OwnedOnce ==
  ASSUME MappedOnce, HeldIsInUse
  PROVE  /\ \A p \in Pcb : Owned(p) \subseteq used
         /\ \A p, q \in Pcb : p # q => Owned(p) \cap Owned(q) = {}
         /\ \A p \in Pcb \ {idle_process} : Owned(p) \cap Reserved = {}
<1>1. ASSUME NEW p \in Pcb, NEW f \in Owned(p) PROVE f \in used
  BY <1>1, OwnedDef DEF HeldIsInUse
<1>2. ASSUME NEW p \in Pcb, NEW q \in Pcb, p # q, NEW f \in Owned(p), f \in Owned(q)
      PROVE  FALSE
  BY <1>2, OwnedDef DEF MappedOnce
<1>3. ASSUME NEW p \in Pcb \ {idle_process}, NEW f \in Owned(p), f \in Reserved
      PROVE  FALSE
  BY <1>3, OwnedDef DEF HeldIsInUse
<1> QED
  BY <1>1, <1>2, <1>3

\* Only p gains or loses frames.
OthersKeep(p) == \A q \in Pcb \ {p} : Owned(q)' = Owned(q)

\* What p gains was free and is marked; what p loses is unmarked.
Gains(p)  == /\ Owned(p) \subseteq Owned(p)'
             /\ (Owned(p)' \ Owned(p)) \cap used = {}
             /\ used' = used \cup (Owned(p)' \ Owned(p))
Returns(p) == /\ Owned(p)' \subseteq Owned(p)
              /\ used' = used \ (Owned(p) \ Owned(p)')

\* Whose places do not change keeps what it owns.
LEMMA PlacesKept ==
  ASSUME NEW p,
         \A q \in Pcb \ {p} : /\ \A v \in Page : pt'[q][v] = pt[q][v]
                              /\ \A i \in KStack :
                                   kernel_stack_frames'[q][i] = kernel_stack_frames[q][i]
  PROVE  OthersKeep(p)
<1> SUFFICES ASSUME NEW q \in Pcb \ {p}, NEW f
             PROVE  f \in Owned(q)' <=> f \in Owned(q)
  BY DEF OthersKeep
<1> QED
  BY OwnedDef, OwnedDefNext

\* Either is a step of the abstract frame table, and no frame is lost.
LEMMA HonestStep ==
  ASSUME MappedOnce, HeldIsInUse, used \subseteq Frame, used' \subseteq Frame,
         NEW p \in Pcb, OthersKeep(p), Gains(p) \/ (Returns(p) /\ p # idle_process)
  PROVE  FT!Step /\ Lost' \subseteq Lost
<1>1. Reserved \subseteq used /\ Reserved' = Reserved
  BY DEF HeldIsInUse, Reserved
<1>2. \A q \in Pcb : Owned(q) \subseteq used
  BY OwnedOnce
<1>3. FT!Step
  <2> DEFINE H == [q \in Pcb |-> Owned(q) \ Reserved]
             G == [q \in Pcb |-> Owned(q)' \ Reserved]
  <2>1. \A q \in Pcb \ {p} : G[q] = H[q]
    BY DEF OthersKeep
  <2>2. CASE Gains(p)
    <3>1. G[p] \ H[p] \subseteq used' \ used /\ H[p] \subseteq G[p] /\ used \subseteq used'
      BY <2>2 DEF Gains
    <3>2. \A f \in used' \ used : f \in Frame
      OBVIOUS
    <3> QED
      BY <1>1, <2>1, <3>1, <3>2 DEF FT!Step, FT!Gained, FT!Dropped
  <2>3. CASE Returns(p) /\ p # idle_process
    <3>1. G[p] \subseteq H[p] /\ H[p] \ G[p] = used \ used' /\ used' \subseteq used
      BY <1>2, <2>3, OwnedOnce DEF Returns
    <3> QED
      BY <1>1, <2>1, <3>1 DEF FT!Step, FT!Gained, FT!Dropped
  <2> QED
    BY <2>2, <2>3
<1>4. Lost' \subseteq Lost
  BY <1>1, <1>2 DEF Lost, HeldBySomebody, OthersKeep, Gains, Returns
<1> QED
  BY <1>3, <1>4
-----------------------------------------------------------------------------
(* The five ways to change tables and stacks.                              *)

\* Nothing but p's places changes: pages in the first case, stack in the second.
TableOnly(p) ==
  /\ UNCHANGED kernel_stack_frames
  /\ \A q \in Pcb \ {p} : \A v \in Page : pt'[q][v] = pt[q][v]
StackOnly(p) ==
  /\ UNCHANGED pt
  /\ \A q \in Pcb \ {p} : \A i \in KStack :
       kernel_stack_frames'[q][i] = kernel_stack_frames[q][i]

\* A frame is taken for a page that was not mapped.
LEMMA PageTaken ==
  ASSUME MappedOnce, HeldIsInUse, used \subseteq Frame, NULL \notin Frame,
         NEW p \in Pcb, NEW v0 \in Page, NEW f \in Frame \ used,
         TableOnly(p), pt[p][v0] = NULL, pt'[p][v0] = f,
         \A v \in Page \ {v0} : pt'[p][v] = pt[p][v],
         used' = used \cup {f}
  PROVE  MappedOnce' /\ HeldIsInUse' /\ OthersKeep(p) /\ Gains(p)
<1>1. /\ \A q \in Pcb : \A v \in Page :
           pt'[q][v] = IF q = p /\ v = v0 THEN f ELSE pt[q][v]
      /\ kernel_stack_frames' = kernel_stack_frames /\ Reserved' = Reserved
      /\ f # NULL /\ f \notin used /\ f \notin Reserved
  BY DEF TableOnly, HeldIsInUse, Reserved
<1>2. /\ \A q \in Pcb : \A v \in Page : pt[q][v] # f
      /\ \A q \in Pcb : \A i \in KStack : kernel_stack_frames[q][i] # f
  BY <1>1 DEF HeldIsInUse
<1>3. MappedOnce'
  BY <1>1, <1>2 DEF MappedOnce
<1>4. HeldIsInUse'
  BY <1>1, <1>2 DEF HeldIsInUse
<1>5. OthersKeep(p)
  BY <1>1, PlacesKept
<1>6. Owned(p)' = Owned(p) \cup {f} /\ f \notin Owned(p)
  BY <1>1, <1>2, OwnedDef, OwnedDefNext
<1> QED
  BY <1>1, <1>3, <1>4, <1>5, <1>6 DEF Gains

\* Two frames are taken for the kernel stack of a process that owned nothing.
LEMMA StackTaken ==
  ASSUME MappedOnce, HeldIsInUse, used \subseteq Frame, NULL \notin Frame,
         NEW p \in Pcb, NEW low \in Frame \ used, NEW high \in Frame \ used, low # high,
         StackOnly(p), Owned(p) = {}, p # idle_process,
         kernel_stack_frames'[p][0] = low, kernel_stack_frames'[p][1] = high,
         used' = used \cup {low, high}
  PROVE  MappedOnce' /\ HeldIsInUse' /\ OthersKeep(p) /\ Gains(p)
<1>1. /\ \A q \in Pcb : \A i \in KStack :
           kernel_stack_frames'[q][i] = IF q # p THEN kernel_stack_frames[q][i]
                                        ELSE IF i = 0 THEN low ELSE high
      /\ pt' = pt /\ Reserved' = Reserved
      /\ {low, high} \cap used = {} /\ NULL \notin {low, high}
      /\ {low, high} \cap Reserved = {} /\ 0 \in KStack /\ 1 \in KStack
  BY DEF StackOnly, HeldIsInUse, Reserved, KStack
<1>2. /\ \A q \in Pcb : \A v \in Page : pt[q][v] \notin {low, high}
      /\ \A q \in Pcb : \A i \in KStack : kernel_stack_frames[q][i] \notin {low, high}
  BY <1>1 DEF HeldIsInUse
<1>0. /\ \A v \in Page : pt[p][v] = NULL
      /\ \A i \in KStack : kernel_stack_frames[p][i] = NULL
  <2>1. \A f : f \notin Owned(p)
    OBVIOUS
  <2> QED
    BY <2>1, OwnedDef
<1>3. MappedOnce'
  BY <1>1, <1>2 DEF MappedOnce, KStack
<1>4. HeldIsInUse'
  BY <1>1, <1>2 DEF HeldIsInUse
<1>5. OthersKeep(p)
  BY <1>1, PlacesKept
<1>6. Owned(p)' = {low, high}
  BY <1>0, <1>1, <1>2, OwnedDefNext DEF KStack
<1> QED
  BY <1>1, <1>3, <1>4, <1>5, <1>6 DEF Gains

\* The frames of some pages are returned.
LEMMA PagesReturned ==
  ASSUME MappedOnce, HeldIsInUse, used \subseteq Frame, NULL \notin Frame,
         NEW p \in Pcb, NEW U, TableOnly(p),
         \A v \in Page : pt'[p][v] = IF v \in U THEN NULL ELSE pt[p][v],
         \A f \in used : f \in used' <=> \A v \in Page : v \in U => pt[p][v] # f,
         used' \subseteq used
  PROVE  MappedOnce' /\ HeldIsInUse' /\ OthersKeep(p) /\ Returns(p)
<1>1. /\ \A q \in Pcb : \A v \in Page :
           pt'[q][v] = IF q = p /\ v \in U THEN NULL ELSE pt[q][v]
      /\ kernel_stack_frames' = kernel_stack_frames /\ Reserved' = Reserved
  BY DEF TableOnly, Reserved
<1>2. MappedOnce'
  BY <1>1 DEF MappedOnce
<1>3. HeldIsInUse'
  <2>1. ASSUME NEW q \in Pcb, NEW v \in Page, pt'[q][v] # NULL
        PROVE  pt'[q][v] \in used' \ Reserved
    BY <1>1, <2>1 DEF HeldIsInUse, MappedOnce
  <2>2. ASSUME NEW q \in Pcb, NEW i \in KStack, kernel_stack_frames[q][i] # NULL
        PROVE  kernel_stack_frames[q][i] \in used'
    BY <2>2 DEF HeldIsInUse, MappedOnce
  <2>3. Reserved \subseteq used'
    <3>1. ASSUME NEW f \in Reserved, NEW v \in Page, pt[p][v] = f PROVE FALSE
      BY <3>1 DEF HeldIsInUse
    <3> QED
      BY <3>1 DEF HeldIsInUse
  <2> QED
    BY <1>1, <2>1, <2>2, <2>3 DEF HeldIsInUse
<1>4. OthersKeep(p)
  BY <1>1, PlacesKept
<1>5. Returns(p)
  <2>1. Owned(p)' \subseteq Owned(p)
    BY <1>1, OwnedDef, OwnedDefNext
  <2>2. ASSUME NEW f \in Owned(p), f \notin Owned(p)' PROVE f \notin used'
    BY <1>1, <2>2, OwnedDef, OwnedDefNext, OwnedOnce
  <2>3. ASSUME NEW f \in used, f \notin used' PROVE f \in Owned(p) \ Owned(p)'
    <3>1. PICK v \in Page : v \in U /\ pt[p][v] = f
      BY <2>3
    <3>2. f # NULL
      OBVIOUS
    <3>3. f \in Owned(p)
      BY <3>1, <3>2, OwnedDef
    <3>4. f \notin Owned(p)'
      BY <1>1, <3>1, <3>2, OwnedDefNext DEF MappedOnce
    <3> QED
      BY <3>3, <3>4
  <2> QED
    BY <2>1, <2>2, <2>3 DEF Returns
<1> QED
  BY <1>2, <1>3, <1>4, <1>5

\* All the frames of a process are returned.
LEMMA AllReturned ==
  ASSUME MappedOnce, HeldIsInUse, used \subseteq Frame,
         NEW p \in Pcb \ {idle_process}, used' = used \ Owned(p),
         \A q \in Pcb : \A v \in Page : pt'[q][v] = IF q = p THEN NULL ELSE pt[q][v],
         \A q \in Pcb : \A i \in KStack :
           kernel_stack_frames'[q][i] = IF q = p THEN NULL ELSE kernel_stack_frames[q][i]
  PROVE  MappedOnce' /\ HeldIsInUse' /\ OthersKeep(p) /\ Returns(p) /\ Owned(p)' = {}
<1>1. MappedOnce'
  BY DEF MappedOnce
<1>2. Owned(p)' = {}
  BY OwnedDefNext
<1>3. HeldIsInUse'
  <2>1. Reserved' = Reserved /\ Reserved \subseteq used'
    BY OwnedOnce DEF HeldIsInUse, Reserved
  <2>2. ASSUME NEW q \in Pcb, NEW v \in Page, pt'[q][v] # NULL
        PROVE  pt'[q][v] \in used' \ Reserved
    BY <2>2, OwnedDef DEF HeldIsInUse, MappedOnce
  <2>3. ASSUME NEW q \in Pcb, NEW i \in KStack, kernel_stack_frames'[q][i] # NULL
        PROVE  kernel_stack_frames'[q][i] \in used'
    BY <2>3, OwnedDef DEF HeldIsInUse, MappedOnce
  <2> QED
    BY <2>1, <2>2, <2>3 DEF HeldIsInUse
<1>4. OthersKeep(p)
  BY PlacesKept
<1> QED
  BY <1>1, <1>2, <1>3, <1>4 DEF Returns
-----------------------------------------------------------------------------
(* The loops that map pages.                                               *)

\* What a step may do to the frames.
Honest ==
  \/ UNCHANGED <<used, tables>>
  \/ mode' = "astray"
  \/ FT!Step /\ (Lost' \subseteq Lost \/ \E p \in Pcb : KernelForkNoStack(p))

\* A page that was not mapped gets a frame.
LEMMA MapPageFacts ==
  ASSUME IInv, mode \in {"fork", "load", "brk"}, todo # {},
         NEW p \in Pcb, MapPage(p), UNCHANGED kernel_stack_frames, pt[p][vpn] = NULL
  PROVE  /\ vpn \in todo /\ vpn \in Page /\ \A w \in todo : vpn <= w
         /\ used' \subseteq Frame /\ find_frame(used) \in Frame
         /\ pt' \in [Pcb -> [Page -> Frame \cup {NULL}]]
         /\ pt'[p][vpn] # NULL
         /\ \A v \in Page \ {vpn} : pt'[p][v] = pt[p][v]
         /\ \A q \in Pcb \ {p} : pt'[q] = pt[q]
         /\ MappedOnce' /\ HeldIsInUse' /\ OthersKeep(p) /\ Honest
<1> DEFINE f == find_frame(used)
<1>1. vpn \in todo /\ vpn \in Page /\ \A w \in todo : vpn <= w
  BY NextPage DEF IInv, TypeOK
<1>2. f \in Frame \ used /\ used \subseteq Frame /\ NULL \notin Frame
  <2>1. Frame \ used # {}
    BY DEF MapPage, Exhausted, IInv, TypeOK
  <2> QED
    BY <2>1, FindFrame, Constants DEF IInv, TypeOK
<1>3. MappedOnce /\ HeldIsInUse
  BY DEF IInv, FrameIsolation
<1>4. /\ pt \in [Pcb -> [Page -> Frame \cup {NULL}]]
      /\ pt' = [pt EXCEPT ![p][vpn] = f] /\ used' = used \cup {f}
  BY DEF IInv, TypeOK, MapPage
<1> HIDE DEF f
<1>5. /\ pt' \in [Pcb -> [Page -> Frame \cup {NULL}]]
      /\ pt'[p][vpn] = f
      /\ \A v \in Page \ {vpn} : pt'[p][v] = pt[p][v]
      /\ \A q \in Pcb \ {p} : pt'[q] = pt[q]
  BY <1>1, <1>2, <1>4
<1>6. TableOnly(p)
  BY <1>5 DEF TableOnly
<1>7. MappedOnce' /\ HeldIsInUse' /\ OthersKeep(p) /\ Gains(p)
  BY <1>1, <1>2, <1>3, <1>4, <1>5, <1>6, PageTaken
<1>8. FT!Step /\ Lost' \subseteq Lost
  BY <1>2, <1>3, <1>4, <1>7, HonestStep
<1> QED
  BY <1>1, <1>2, <1>4, <1>5, <1>7, <1>8 DEF f, Honest

LEMMA ForkCopyStep == IInv /\ ForkCopy => IInv' /\ Honest
<1> SUFFICES ASSUME IInv, ForkCopy PROVE IInv' /\ Honest
  OBVIOUS
<1>1. /\ mode = "fork" /\ mode' = "fork" /\ todo # {} /\ MapPage(child)
      /\ child \in Pcb /\ caller \in Pcb \ {idle_process} /\ caller # child
      /\ UNCHANGED <<kernel_stack_frames, pstate, breaks, ruined, caller, child, li, brk_vpn>>
      /\ todo' = todo \ {vpn}
  BY DEF ForkCopy, MapPage, IInv, TypeOK, ForkState
<1>2. vpn \in Page /\ vpn \in todo /\ pt[child][vpn] = NULL
  BY <1>1, NextPage DEF IInv, TypeOK, ForkState
<1>3. /\ \A w \in todo : vpn <= w
      /\ used' \subseteq Frame /\ find_frame(used) \in Frame
      /\ pt' \in [Pcb -> [Page -> Frame \cup {NULL}]]
      /\ pt'[child][vpn] # NULL
      /\ \A v \in Page \ {vpn} : pt'[child][v] = pt[child][v]
      /\ \A q \in Pcb \ {child} : pt'[q] = pt[q]
      /\ MappedOnce' /\ HeldIsInUse' /\ OthersKeep(child) /\ Honest
  BY <1>1, <1>2, MapPageFacts
<1>4. frames_used' = frames_used + 1 /\ frames_used <= vpn /\ frames_used \in Nat
      /\ first_frame_used' \in Frame \cup {0}
  BY <1>1, <1>2, <1>3 DEF ForkCopy, IInv, TypeOK, ForkState
<1>5. TypeOK'
  BY <1>1, <1>2, <1>3, <1>4, Constants DEF IInv, TypeOK, breaks, Page
<1>6. StackForAll'
  BY <1>1, <1>3 DEF IInv, FrameIsolation, StackForAll, OthersKeep
<1>7. ForkState'
  <2>1. ASSUME NEW v \in Page, v \in todo' PROVE frames_used' <= v
    BY <1>1, <1>2, <1>3, <1>4, <2>1, Constants DEF Page
  <2> QED
    BY <1>1, <1>2, <1>3, <2>1 DEF IInv, ForkState
<1>8. Images' /\ NoOverrun'
  BY <1>1 DEF IInv, Images, NoOverrun, breaks
<1>9. \A p \in Pcb : pstate[p] # "none" => pt'[p] = pt[p]
  BY <1>1, <1>3 DEF IInv, TypeOK
<1>10. GuardPage' /\ HeapMapped'
  BY <1>1, <1>9 DEF IInv, GuardPage, HeapMapped, breaks
<1> QED
  BY <1>1, <1>3, <1>5, <1>6, <1>7, <1>8, <1>10 DEF IInv, FrameIsolation, LoadState, BrkState

LEMMA LoadPageStep == IInv /\ LoadPage => IInv' /\ Honest
<1> SUFFICES ASSUME IInv, LoadPage PROVE IInv' /\ Honest
  OBVIOUS
<1>1. /\ mode = "load" /\ mode' = "load" /\ todo # {} /\ MapPage(caller)
      /\ caller \in Pcb \ {idle_process} /\ pstate[caller] = "live" /\ caller \in ruined
      /\ UNCHANGED <<kernel_stack_frames, pstate, breaks, ruined, caller, child, li, brk_vpn,
                     first_frame_used, frames_used>>
      /\ todo' = todo \ {vpn}
  BY DEF LoadPage, MapPage, IInv, TypeOK, LoadState
<1>2. vpn \in Page /\ vpn \in todo /\ pt[caller][vpn] = NULL
  BY <1>1, NextPage DEF IInv, TypeOK, LoadState
<1>3. /\ used' \subseteq Frame
      /\ pt' \in [Pcb -> [Page -> Frame \cup {NULL}]]
      /\ \A v \in Page \ {vpn} : pt'[caller][v] = pt[caller][v]
      /\ \A q \in Pcb \ {caller} : pt'[q] = pt[q]
      /\ MappedOnce' /\ HeldIsInUse' /\ OthersKeep(caller) /\ Honest
  BY <1>1, <1>2, MapPageFacts
<1>4. TypeOK'
  BY <1>1, <1>3 DEF IInv, TypeOK, breaks
<1>5. StackForAll'
  BY <1>1, <1>3 DEF IInv, FrameIsolation, StackForAll, OthersKeep
<1>6. LoadState'
  <2>1. ProgramPages(li)' = ProgramPages(li)
    BY <1>1 DEF ProgramPages, StackStart, DataEnd
  <2>2. vpn \in ProgramPages(li)
    BY <1>1, <1>2 DEF IInv, LoadState
  <2> QED
    BY <1>1, <1>2, <1>3, <2>1, <2>2 DEF IInv, LoadState
<1>7. Images' /\ NoOverrun'
  BY <1>1 DEF IInv, Images, NoOverrun, breaks
<1>8. GuardPage' /\ HeapMapped'
  BY <1>1, <1>3 DEF IInv, GuardPage, HeapMapped, breaks
<1> QED
  BY <1>1, <1>3, <1>4, <1>5, <1>6, <1>7, <1>8 DEF IInv, FrameIsolation, ForkState, BrkState

LEMMA BrkPageStep == IInv /\ BrkPage => IInv' /\ Honest
<1> SUFFICES ASSUME IInv, BrkPage PROVE IInv' /\ Honest
  OBVIOUS
<1>1. /\ mode = "brk" /\ mode' = "brk" /\ todo # {} /\ MapPage(caller)
      /\ caller \in Pcb \ {idle_process} /\ pstate[caller] = "live"
      /\ ~HitsStack(caller, brk_vpn)
      /\ UNCHANGED <<kernel_stack_frames, pstate, breaks, ruined, caller, child, li, brk_vpn,
                     first_frame_used, frames_used>>
      /\ todo' = todo \ {vpn}
  BY DEF BrkPage, MapPage, IInv, TypeOK, BrkState
<1>2. vpn \in Page /\ vpn \in todo /\ pt[caller][vpn] = NULL
      /\ vpn \in OldVpn(caller)..(brk_vpn - 1)
  BY <1>1, NextPage DEF IInv, TypeOK, BrkState
<1>3. /\ used' \subseteq Frame
      /\ pt' \in [Pcb -> [Page -> Frame \cup {NULL}]]
      /\ pt'[caller][vpn] # NULL
      /\ \A v \in Page \ {vpn} : pt'[caller][v] = pt[caller][v]
      /\ \A q \in Pcb \ {caller} : pt'[q] = pt[q]
      /\ MappedOnce' /\ HeldIsInUse' /\ OthersKeep(caller) /\ Honest
  BY <1>1, <1>2, MapPageFacts
<1>4. TypeOK'
  <2>1. todo' \subseteq Page
    BY <1>1 DEF IInv, TypeOK
  <2> QED
    BY <1>1, <1>3, <2>1 DEF IInv, TypeOK, breaks
<1>5. StackForAll'
  BY <1>1, <1>3 DEF IInv, FrameIsolation, StackForAll, OthersKeep
<1>6. OldVpn(caller)..(brk_vpn - 1) \subseteq Page
  BY <1>1, Constants DEF IInv, TypeOK, OldVpn, Page
<1>7. BrkState'
  <2>1. OldVpn(caller)' = OldVpn(caller) /\ HitsStack(caller, brk_vpn)' = HitsStack(caller, brk_vpn)
    BY <1>1 DEF OldVpn, HitsStack, breaks
  <2> QED
    BY <1>1, <1>2, <1>3, <1>6, <2>1 DEF IInv, BrkState
<1>8. Images' /\ NoOverrun'
  BY <1>1 DEF IInv, Images, NoOverrun, breaks
<1>9. GuardPage'
  <2>1. ASSUME NEW p \in Pcb \ (ruined \cup {idle_process}), pstate[p] # "none",
               user_stack_ptr[p] < MAX_PT_LEN
        PROVE  pt'[p][user_stack_ptr[p] - 1] = NULL
    <3>1. pt[p][user_stack_ptr[p] - 1] = NULL
      BY <2>1 DEF IInv, GuardPage
    <3>2. user_stack_ptr[p] - 1 \in Page
      BY <2>1, Constants DEF IInv, TypeOK, Images, Page
    <3>3. p = caller => user_stack_ptr[p] - 1 # vpn
      BY <1>1, <1>2, <3>2 DEF HitsStack, Page, IInv, TypeOK
    <3> QED
      BY <1>3, <3>1, <3>2, <3>3
  <2> QED
    BY <1>1, <2>1 DEF GuardPage, breaks
<1>10. HeapMapped'
  <2>1. ASSUME NEW p \in Pcb, NEW v, pt[p][v] # NULL,
               v \in 0..(user_heap_brk[p] - MAX_PT_LEN - 1)
        PROVE  pt'[p][v] # NULL
    <3>1. v \in Page
      BY <2>1, Constants DEF IInv, TypeOK, Page
    <3> QED
      BY <1>3, <2>1, <3>1
  <2> QED
    BY <1>1, <2>1 DEF IInv, HeapMapped, breaks
<1> QED
  BY <1>1, <1>3, <1>4, <1>5, <1>7, <1>8, <1>9, <1>10 DEF IInv, FrameIsolation, ForkState, LoadState
-----------------------------------------------------------------------------
(* Steps that leave frames, tables and stacks alone.                       *)

LEMMA FramesKept ==
  ASSUME FrameIsolation, mode # "astray", UNCHANGED <<used, tables>>
  PROVE  /\ MappedOnce' /\ HeldIsInUse' /\ Honest
         /\ \A p : Owned(p)' = Owned(p)
<1>1. \A p : Owned(p)' = Owned(p)
  BY DEF Owned, PageFrames, StackFrames, tables
<1> QED
  BY <1>1 DEF FrameIsolation, MappedOnce, HeldIsInUse, Honest, tables, Reserved

LEMMA ForkDoneStep == IInv /\ ForkDone => IInv' /\ Honest
<1> SUFFICES ASSUME IInv, ForkDone PROVE IInv' /\ Honest
  OBVIOUS
<1>1. /\ mode = "fork" /\ todo = {} /\ mode' = "user" /\ todo' = {}
      /\ child \in Pcb /\ caller \in Pcb \ {idle_process} /\ child # idle_process
      /\ pstate[caller] = "live" /\ pstate[child] = "none"
      /\ UNCHANGED <<used, tables>> /\ Return
      /\ pstate' = [pstate EXCEPT ![child] = "live"]
      /\ user_heap_brk' = [user_heap_brk EXCEPT ![child] = user_heap_brk[caller]]
      /\ user_stack_ptr' = [user_stack_ptr EXCEPT ![child] = user_stack_ptr[caller]]
      /\ ruined' = IF caller \in ruined THEN ruined \cup {child} ELSE ruined
  BY DEF ForkDone, Return, IInv, TypeOK, ForkState, Images
<1>2. MappedOnce' /\ HeldIsInUse' /\ Honest /\ \A p : Owned(p)' = Owned(p)
  BY <1>1, FramesKept DEF IInv
<1>3. TypeOK'
  BY <1>1, Constants DEF ForkDone, Return, IInv, TypeOK, tables
<1>4. StackForAll'
  BY <1>1, <1>2 DEF IInv, FrameIsolation, StackForAll, ForkState, TypeOK, tables
<1>5. Images'
  BY <1>1 DEF IInv, Images, TypeOK
<1>6. \A v \in Page : pt[child][v] # NULL <=> pt[caller][v] # NULL
  BY <1>1 DEF IInv, ForkState
<1>7. GuardPage'
  <2>1. ASSUME child \notin ruined', user_stack_ptr[caller] < MAX_PT_LEN
        PROVE  pt[child][user_stack_ptr[caller] - 1] = NULL
    <3>1. caller \in Pcb \ (ruined \cup {idle_process})
      BY <1>1, <2>1
    <3>2. user_stack_ptr[caller] - 1 \in Page
      <4>1. user_stack_ptr[caller] \in Nat /\ user_stack_ptr[caller] > 0
        BY <1>1, <3>1, Constants DEF IInv, TypeOK, Images
      <4> QED
        BY <2>1, <4>1, Constants DEF Page
    <3> QED
      BY <1>1, <1>6, <2>1, <3>1, <3>2 DEF IInv, GuardPage
  <2> QED
    BY <1>1, <2>1 DEF IInv, GuardPage, TypeOK, tables
<1>8. HeapMapped'
  <2>1. ASSUME child \notin ruined', user_heap_brk[caller] >= MAX_PT_LEN,
               NEW v \in 0..(user_heap_brk[caller] - MAX_PT_LEN - 1)
        PROVE  pt[child][v] # NULL
    <3>1. v \in Page
      BY <1>1, <2>1, Constants DEF IInv, TypeOK, Page
    <3> QED
      BY <1>1, <1>6, <2>1, <3>1 DEF IInv, HeapMapped
  <2> QED
    BY <1>1, <2>1 DEF IInv, HeapMapped, TypeOK, tables
<1> QED
  BY <1>1, <1>2, <1>3, <1>4, <1>5, <1>7, <1>8
     DEF IInv, FrameIsolation, ForkState, LoadState, BrkState, NoOverrun, Return

\* LoadProgram comes to an end, one way or another.
LEMMA LoadEndStep ==
  IInv /\ (LoadNoFrame \/ LoadReadFails \/ LoadDone) => IInv' /\ Honest
<1> SUFFICES ASSUME IInv, LoadNoFrame \/ LoadReadFails \/ LoadDone PROVE IInv' /\ Honest
  OBVIOUS
<1>1. /\ mode = "load" /\ mode' = "user" /\ todo' = {}
      /\ caller \in Pcb \ {idle_process} /\ pstate[caller] = "live" /\ caller \in ruined
      /\ UNCHANGED <<used, tables, pstate>> /\ Return
  BY DEF LoadNoFrame, LoadReadFails, LoadDone, Return, IInv, TypeOK, LoadState
<1>2. MappedOnce' /\ HeldIsInUse' /\ Honest /\ \A p : Owned(p)' = Owned(p)
  BY <1>1, FramesKept DEF IInv
<1>3. StackForAll'
  BY <1>1, <1>2 DEF IInv, FrameIsolation, StackForAll, tables
<1>4. CASE LoadNoFrame \/ LoadReadFails
  <2>1. UNCHANGED <<breaks, ruined>>
    BY <1>4 DEF LoadNoFrame, LoadReadFails
  <2>2. TypeOK'
    BY <1>1, <2>1, Constants DEF Return, IInv, TypeOK, tables, breaks
  <2>3. Images' /\ GuardPage' /\ HeapMapped'
    BY <1>1, <2>1 DEF IInv, Images, GuardPage, HeapMapped, tables, breaks
  <2> QED
    BY <1>1, <1>2, <1>3, <2>2, <2>3
       DEF IInv, FrameIsolation, ForkState, LoadState, BrkState, NoOverrun, Return
<1>5. CASE LoadDone
  <2> DEFINE sp == StackStart(li)
  <2>1. /\ todo = {} /\ ruined' = ruined \ {caller}
        /\ user_heap_brk' = [user_heap_brk EXCEPT ![caller] = DataEnd(li)]
        /\ user_stack_ptr' = [user_stack_ptr EXCEPT ![caller] = sp]
    BY <1>5 DEF LoadDone, LoadedStackPtr
  <2>2. /\ li.text_pg1 \in Nat /\ li.t_npg \in Nat /\ li.data_pg1 \in Nat
        /\ li.data_npg \in Nat /\ li.stack_npg \in Nat /\ li.stack_npg > 0
        /\ li.text_pg1 + li.t_npg <= li.data_pg1
        /\ li.stack_npg + li.data_pg1 + li.data_npg < MAX_PT_LEN
    BY <1>1, Constants DEF IInv, TypeOK, Layout, Fits
  <2>3. /\ sp \in 1..(MAX_PT_LEN - 1) /\ DataEnd(li) \in 0..(MAX_PT_LEN - 1)
        /\ DataEnd(li) < MAX_PT_LEN /\ sp - 1 \in Page
        /\ sp - 1 \notin ProgramPages(li)
    BY <2>2, Constants DEF StackStart, DataEnd, ProgramPages, Page
  <2> HIDE DEF sp
  <2>4. pt[caller][sp - 1] = NULL
    BY <1>1, <2>3 DEF IInv, LoadState
  <2>5. TypeOK'
    BY <1>1, <2>1, <2>3, Constants DEF Return, IInv, TypeOK, tables
  <2>6. Images'
    <3>1. \A p \in Pcb \ {caller} : user_stack_ptr'[p] = user_stack_ptr[p]
                                    /\ user_heap_brk'[p] = user_heap_brk[p]
      BY <2>1 DEF IInv, TypeOK
    <3>2. user_stack_ptr'[caller] = sp
      BY <1>1, <2>1 DEF IInv, TypeOK
    <3>3. sp < MAX_PT_LEN /\ sp > 0
      BY <2>3, Constants
    <3> QED
      BY <1>1, <2>1, <3>1, <3>2, <3>3, Constants DEF IInv, Images
  <2>7. GuardPage'
    BY <1>1, <2>1, <2>3, <2>4 DEF IInv, GuardPage, TypeOK, tables
  <2>8. HeapMapped'
    BY <1>1, <2>1, <2>3, Constants DEF IInv, HeapMapped, TypeOK, tables
  <2> QED
    BY <1>1, <1>2, <1>3, <2>5, <2>6, <2>7, <2>8
       DEF IInv, FrameIsolation, ForkState, LoadState, BrkState, NoOverrun, Return
<1> QED
  BY <1>4, <1>5

LEMMA BrkDoneStep == IInv /\ BrkDone => IInv' /\ Honest
<1> SUFFICES ASSUME IInv, BrkDone PROVE IInv' /\ Honest
  OBVIOUS
<1>1. /\ mode = "brk" /\ todo = {} /\ mode' = "user"
      /\ caller \in Pcb \ {idle_process} /\ pstate[caller] = "live"
      /\ UNCHANGED <<used, tables, pstate, user_stack_ptr, ruined>> /\ Return
      /\ user_heap_brk' = [user_heap_brk EXCEPT ![caller] = MAX_PT_LEN + brk_vpn]
  BY DEF BrkDone, Return, IInv, TypeOK, BrkState
<1>2. MappedOnce' /\ HeldIsInUse' /\ Honest /\ \A p : Owned(p)' = Owned(p)
  BY <1>1, FramesKept DEF IInv
<1>3. brk_vpn \in 0..MAX_PT_LEN /\ user_heap_brk \in [Pcb -> 0..(2 * MAX_PT_LEN)]
  BY DEF IInv, TypeOK
<1>4. TypeOK'
  BY <1>1, <1>3, Constants DEF Return, IInv, TypeOK, tables
<1>5. StackForAll'
  BY <1>1, <1>2 DEF IInv, FrameIsolation, StackForAll, tables
<1>6. Images' /\ GuardPage'
  BY <1>1, <1>3, Constants DEF IInv, Images, GuardPage, tables
<1>7. HeapMapped'
  <2>1. ASSUME NEW v \in 0..(brk_vpn - 1), caller \notin ruined PROVE pt[caller][v] # NULL
    <3>1. CASE v \in OldVpn(caller)..(brk_vpn - 1)
      BY <1>1, <3>1 DEF IInv, BrkState
    <3>2. CASE v < OldVpn(caller)
      <4>1. user_heap_brk[caller] >= MAX_PT_LEN
            /\ v \in 0..(user_heap_brk[caller] - MAX_PT_LEN - 1)
        BY <1>1, <1>3, <2>1, <3>2, Constants DEF OldVpn
      <4> QED
        BY <1>1, <2>1, <4>1 DEF IInv, HeapMapped
    <3>3. OldVpn(caller) \in Nat
      BY <1>1, <1>3, Constants DEF OldVpn
    <3> QED
      BY <1>3, <2>1, <3>1, <3>2, <3>3, Constants
  <2>2. user_heap_brk'[caller] - MAX_PT_LEN = brk_vpn
        /\ \A p \in Pcb \ {caller} : user_heap_brk'[p] = user_heap_brk[p]
    BY <1>1, <1>3, Constants
  <2> QED
    BY <1>1, <2>1, <2>2 DEF IInv, HeapMapped, tables
<1> QED
  BY <1>1, <1>2, <1>4, <1>5, <1>6, <1>7
     DEF IInv, FrameIsolation, ForkState, LoadState, BrkState, NoOverrun, Return

LEMMA KernelBrkGrowStep ==
  ASSUME IInv, NEW p \in Pcb, NEW new_brk \in Breaks, KernelBrkGrow(p, new_brk)
  PROVE  IInv' /\ Honest
<1> DEFINE new_vpn == new_brk - MAX_PT_LEN
<1>1. /\ mode = "user" /\ mode' = "brk" /\ pstate[p] = "live" /\ p # idle_process
      /\ new_brk >= MAX_PT_LEN /\ ~HitsStack(p, new_vpn)
      /\ caller' = p /\ brk_vpn' = new_vpn /\ todo' = GrowPages(p, new_vpn)
      /\ UNCHANGED <<used, tables, pstate, breaks, ruined, child, first_frame_used,
                     frames_used, li>>
  BY DEF KernelBrkGrow, Runs
<1>2. new_vpn \in 0..MAX_PT_LEN /\ OldVpn(p) \in Nat
  BY <1>1, Constants DEF IInv, TypeOK, OldVpn
<1> HIDE DEF new_vpn
<1>3. MappedOnce' /\ HeldIsInUse' /\ Honest /\ \A q : Owned(q)' = Owned(q)
  BY <1>1, FramesKept DEF IInv
<1>4. OldVpn(p)..(new_vpn - 1) \subseteq Page
  BY <1>2, Constants DEF Page
<1>5. TypeOK'
  BY <1>1, <1>2, <1>4 DEF IInv, TypeOK, tables, breaks, GrowPages
<1>6. StackForAll'
  BY <1>1, <1>3 DEF IInv, FrameIsolation, StackForAll, tables
<1>7. BrkState'
  <2>1. OldVpn(p)' = OldVpn(p) /\ HitsStack(p, new_vpn)' = HitsStack(p, new_vpn)
    BY <1>1 DEF OldVpn, HitsStack, breaks, new_vpn
  <2> QED
    BY <1>1, <2>1 DEF BrkState, GrowPages, tables
<1>8. Images' /\ GuardPage' /\ HeapMapped'
  BY <1>1 DEF IInv, Images, GuardPage, HeapMapped, tables, breaks
<1> QED
  BY <1>1, <1>3, <1>5, <1>6, <1>7, <1>8
     DEF IInv, FrameIsolation, ForkState, LoadState, NoOverrun

\* Exit, and the faults that are not served: the process makes no more calls.
LEMMA EndsStep ==
  ASSUME IInv, NEW p \in Pcb, Runs(p), NEW s \in {"zombie", "stuck"},
         pstate' = [pstate EXCEPT ![p] = s],
         user_stack_ptr' = user_stack_ptr
           \/ \E addr \in MAX_PT_LEN..(2 * MAX_PT_LEN) :
                user_stack_ptr' = [user_stack_ptr EXCEPT ![p] = addr],
         UNCHANGED <<used, tables, user_heap_brk, ruined, mode, locals>>
  PROVE  IInv' /\ Honest
<1>1. mode = "user" /\ pstate[p] = "live" /\ p # idle_process
  BY DEF Runs
<1>2. MappedOnce' /\ HeldIsInUse' /\ Honest /\ \A q : Owned(q)' = Owned(q)
  BY <1>1, FramesKept DEF IInv
<1>3. TypeOK'
  <2>1. user_stack_ptr' \in [Pcb -> 0..(2 * MAX_PT_LEN)]
    BY Constants DEF IInv, TypeOK
  <2>2. pstate' \in [Pcb -> {"none", "live", "zombie", "stuck"}]
    BY DEF IInv, TypeOK
  <2> QED
    BY <1>1, <2>1, <2>2 DEF IInv, TypeOK, tables, locals
<1>4. \A q \in Pcb \ {p} : pstate'[q] = pstate[q] /\ user_stack_ptr'[q] = user_stack_ptr[q]
  BY DEF IInv, TypeOK
<1>5. /\ pstate'[p] = s
      /\ user_stack_ptr'[p] = user_stack_ptr[p] \/ user_stack_ptr'[p] >= MAX_PT_LEN
  BY DEF IInv, TypeOK
<1>6. StackForAll'
  BY <1>1, <1>2, <1>4, <1>5 DEF IInv, FrameIsolation, StackForAll, tables
<1>7. Images'
  BY <1>1, <1>3, <1>4, <1>5, Constants DEF IInv, Images, TypeOK
<1>8. GuardPage'
  BY <1>1, <1>3, <1>4, <1>5, Constants DEF IInv, GuardPage, TypeOK, tables
<1>9. HeapMapped'
  BY <1>1, <1>4 DEF IInv, HeapMapped, tables
<1> QED
  BY <1>1, <1>2, <1>3, <1>6, <1>7, <1>8, <1>9
     DEF IInv, FrameIsolation, ForkState, LoadState, BrkState, NoOverrun, locals

LEMMA KernelExitStep == ASSUME IInv, NEW p \in Pcb, KernelExit(p) PROVE IInv' /\ Honest
BY EndsStep DEF KernelExit, breaks

LEMMA AbortStep ==
  ASSUME IInv, NEW p \in Pcb, HandleIllegalTrap(p) \/ HandleMathTrap(p)
  PROVE  IInv' /\ Honest
BY EndsStep DEF HandleIllegalTrap, HandleMathTrap, abort, breaks

\* A process that takes a fault has its stack pointer below region 1's end as
\* LoadProgram counts, and the fault that grows the stack is above.
LEMMA HandleMemoryTrapStep ==
  ASSUME IInv, NEW p \in Pcb, NEW fault \in Faults, HandleMemoryTrap(p, fault[1], fault[2])
  PROVE  IInv' /\ Honest
<1> DEFINE addr == fault[1]
           grows == /\ Above(addr, fault[2], MAX_PT_LEN)
                    /\ Above(addr, fault[2], user_heap_brk[p])
<1>1. /\ Runs(p) /\ abort(p) /\ UNCHANGED <<used, tables, user_heap_brk, ruined, locals>>
      /\ user_stack_ptr' = IF grows THEN [user_stack_ptr EXCEPT ![p] = addr] ELSE user_stack_ptr
      /\ mode' = IF grows /\ addr < user_stack_ptr[p] THEN "overrun" ELSE mode
  BY DEF HandleMemoryTrap
<1>2. addr \in 0..(2 * MAX_PT_LEN - 1)
  BY Constants
<1>3. grows => addr \in MAX_PT_LEN..(2 * MAX_PT_LEN)
  BY <1>2, Constants DEF Above
<1>4. user_stack_ptr[p] \in Nat /\ user_stack_ptr[p] < MAX_PT_LEN
  BY <1>1, Constants DEF Runs, IInv, Images, TypeOK
<1> HIDE DEF addr, grows
<1>5. mode' = mode
  BY <1>1, <1>2, <1>3, <1>4, Constants
<1> QED
  BY <1>1, <1>3, <1>5, EndsStep DEF abort
-----------------------------------------------------------------------------
(* Steps that unmap pages.                                                 *)

\* What UnmapPages does to frames and tables.
LEMMA UnmapPagesFacts ==
  ASSUME IInv, mode # "astray", NEW p \in Pcb \ {idle_process},
         NEW start \in Nat, NEW end \in 0..MAX_PT_LEN,
         UnmapPages(p, start, end), UNCHANGED kernel_stack_frames
  PROVE  /\ used' \subseteq Frame
         /\ pt' \in [Pcb -> [Page -> Frame \cup {NULL}]]
         /\ \A q \in Pcb \ {p} : pt'[q] = pt[q]
         /\ \A v \in Page : pt'[p][v] = IF v \in start..(end - 1) THEN NULL ELSE pt[p][v]
         /\ MappedOnce' /\ HeldIsInUse' /\ OthersKeep(p) /\ Honest
<1>1. /\ used \subseteq Frame /\ pt \in [Pcb -> [Page -> Frame \cup {NULL}]]
      /\ NULL \notin Frame /\ MappedOnce /\ HeldIsInUse
  BY Constants DEF IInv, TypeOK, FrameIsolation
<1>2. /\ used' = used \ {pt[p][v] : v \in start..(end - 1)}
      /\ pt' = [pt EXCEPT ![p] = [v \in Page |->
                                    IF v \in start..(end - 1) THEN NULL ELSE pt[p][v]]]
  BY DEF UnmapPages, Unmapped
<1>3. start..(end - 1) \subseteq Page
  BY Constants DEF Page
<1>4. /\ pt' \in [Pcb -> [Page -> Frame \cup {NULL}]]
      /\ \A q \in Pcb \ {p} : pt'[q] = pt[q]
      /\ \A v \in Page : pt'[p][v] = IF v \in start..(end - 1) THEN NULL ELSE pt[p][v]
  BY <1>1, <1>2
<1>5. TableOnly(p)
  BY <1>4 DEF TableOnly
<1>6. \A f \in used : f \in used' <=> \A v \in Page : v \in start..(end - 1) => pt[p][v] # f
  BY <1>2, <1>3
<1>7. MappedOnce' /\ HeldIsInUse' /\ OthersKeep(p) /\ Returns(p)
  BY <1>1, <1>2, <1>4, <1>5, <1>6, PagesReturned
<1>8. FT!Step /\ Lost' \subseteq Lost
  BY <1>1, <1>2, <1>7, HonestStep
<1> QED
  BY <1>1, <1>2, <1>4, <1>7, <1>8 DEF Honest

\* The page below the stack stays unmapped when pages are unmapped.
LEMMA GuardKept ==
  ASSUME IInv, NEW p \in Pcb,
         \A q \in Pcb \ {p} : pt'[q] = pt[q],
         \A v \in Page : pt'[p][v] \in {NULL, pt[p][v]},
         UNCHANGED <<pstate, user_stack_ptr>>, ruined \subseteq ruined'
  PROVE  GuardPage'
<1> SUFFICES ASSUME NEW q \in Pcb \ (ruined \cup {idle_process}), pstate[q] # "none",
                    user_stack_ptr[q] < MAX_PT_LEN
             PROVE  pt'[q][user_stack_ptr[q] - 1] = NULL
  BY DEF GuardPage
<1>1. pt[q][user_stack_ptr[q] - 1] = NULL
  BY DEF IInv, GuardPage
<1>2. user_stack_ptr[q] \in Nat /\ user_stack_ptr[q] > 0
  BY Constants DEF IInv, TypeOK, Images
<1>3. user_stack_ptr[q] - 1 \in Page
  BY <1>2, Constants DEF Page
<1> QED
  BY <1>1, <1>3

\* Exec throws the old image away, and loads a new one or not.
LEMMA ThrowAwayFacts ==
  ASSUME IInv, NEW p \in Pcb, Runs(p), ThrowAway(p),
         UNCHANGED <<kernel_stack_frames, pstate, breaks, child, first_frame_used,
                     frames_used, brk_vpn>>
  PROVE  /\ \A v \in Page : pt'[p][v] = NULL
         /\ used' \subseteq Frame /\ pt' \in [Pcb -> [Page -> Frame \cup {NULL}]]
         /\ ruined' = ruined \cup {p}
         /\ MappedOnce' /\ HeldIsInUse' /\ Honest
         /\ mode' # "fork" => StackForAll'
         /\ Images' /\ GuardPage' /\ HeapMapped'
<1>1. mode = "user" /\ pstate[p] = "live" /\ p \in Pcb \ {idle_process}
      /\ ruined' = ruined \cup {p} /\ UnmapPages(p, 0, MAX_PT_LEN)
  BY DEF Runs, ThrowAway, OldImageEnd
<1>2. /\ used' \subseteq Frame
      /\ pt' \in [Pcb -> [Page -> Frame \cup {NULL}]]
      /\ \A q \in Pcb \ {p} : pt'[q] = pt[q]
      /\ \A v \in Page : pt'[p][v] = IF v \in 0..(MAX_PT_LEN - 1) THEN NULL ELSE pt[p][v]
      /\ MappedOnce' /\ HeldIsInUse' /\ OthersKeep(p) /\ Honest
  <2>1. 0 \in Nat /\ MAX_PT_LEN \in 0..MAX_PT_LEN /\ mode # "astray"
    BY <1>1, Constants
  <2> QED
    BY <1>1, <2>1, UnmapPagesFacts
<1>3. \A v \in Page : pt'[p][v] = NULL
  BY <1>2 DEF Page
<1>4. mode' # "fork" => StackForAll'
  BY <1>1, <1>2 DEF IInv, FrameIsolation, StackForAll, OthersKeep
<1>5. Images'
  BY <1>1 DEF IInv, Images, breaks
<1>6. GuardPage'
  <2>1. ruined \subseteq ruined' /\ UNCHANGED <<pstate, user_stack_ptr>>
    BY <1>1 DEF breaks
  <2>2. \A v \in Page : pt'[p][v] \in {NULL, pt[p][v]}
    BY <1>2
  <2> QED
    BY <1>1, <1>2, <2>1, <2>2, GuardKept
<1>7. HeapMapped'
  BY <1>1, <1>2 DEF IInv, HeapMapped, breaks
<1> QED
  BY <1>1, <1>2, <1>3, <1>4, <1>5, <1>6, <1>7

LEMMA KernelExecRefusedStep ==
  ASSUME IInv, NEW p \in Pcb, KernelExecRefused(p) PROVE IInv' /\ Honest
<1>1. /\ Runs(p) /\ mode = "user" /\ ThrowAway(p)
      /\ UNCHANGED <<kernel_stack_frames, pstate, breaks, mode, locals>>
  BY DEF KernelExecRefused, Runs
<1>2. /\ used' \subseteq Frame /\ pt' \in [Pcb -> [Page -> Frame \cup {NULL}]]
      /\ ruined' = ruined \cup {p}
      /\ MappedOnce' /\ HeldIsInUse' /\ Honest /\ StackForAll'
      /\ Images' /\ GuardPage' /\ HeapMapped'
  BY <1>1, ThrowAwayFacts DEF locals
<1>3. TypeOK'
  BY <1>1, <1>2 DEF IInv, TypeOK, breaks, locals
<1> QED
  BY <1>1, <1>2, <1>3 DEF IInv, FrameIsolation, ForkState, LoadState, BrkState, NoOverrun, locals

LEMMA KernelExecStep ==
  ASSUME IInv, NEW p \in Pcb, NEW prog \in Programs, KernelExec(p, prog)
  PROVE  IInv' /\ Honest
<1>1. /\ Runs(p) /\ mode' = "load" /\ ThrowAway(p) /\ Fits(prog)
      /\ pstate[p] = "live" /\ p # idle_process
      /\ caller' = p /\ li' = prog /\ todo' = ProgramPages(prog)
      /\ UNCHANGED <<kernel_stack_frames, pstate, breaks, child, first_frame_used,
                     frames_used, brk_vpn>>
  BY DEF KernelExec, Runs
<1>2. /\ \A v \in Page : pt'[p][v] = NULL
      /\ used' \subseteq Frame /\ pt' \in [Pcb -> [Page -> Frame \cup {NULL}]]
      /\ ruined' = ruined \cup {p}
      /\ MappedOnce' /\ HeldIsInUse' /\ Honest /\ StackForAll'
      /\ Images' /\ GuardPage' /\ HeapMapped'
  BY <1>1, ThrowAwayFacts
<1>3. ProgramPages(prog) \subseteq Page
  <2>1. /\ prog.text_pg1 \in Nat /\ prog.t_npg \in Nat /\ prog.data_pg1 \in Nat
        /\ prog.data_npg \in Nat /\ prog.stack_npg \in Nat
        /\ prog.text_pg1 + prog.t_npg <= prog.data_pg1
        /\ prog.stack_npg + prog.data_pg1 + prog.data_npg < MAX_PT_LEN
    BY <1>1, Constants DEF Layout, Fits
  <2> QED
    BY <2>1, Constants DEF ProgramPages, StackStart, DataEnd, Page
<1>4. TypeOK'
  BY <1>1, <1>2, <1>3 DEF IInv, TypeOK, breaks, Fits
<1>5. LoadState'
  BY <1>1, <1>2 DEF LoadState
<1> QED
  BY <1>1, <1>2, <1>4, <1>5 DEF IInv, FrameIsolation, ForkState, BrkState, NoOverrun

LEMMA BrkNoFrameStep == IInv /\ BrkNoFrame => IInv' /\ Honest
<1> SUFFICES ASSUME IInv, BrkNoFrame PROVE IInv' /\ Honest
  OBVIOUS
<1>1. /\ mode = "brk" /\ mode' = "user" /\ todo # {} /\ Return
      /\ caller \in Pcb \ {idle_process} /\ pstate[caller] = "live"
      /\ UnmapPages(caller, OldVpn(caller), vpn)
      /\ UNCHANGED <<kernel_stack_frames, pstate, breaks, ruined>>
  BY DEF BrkNoFrame, Return, IInv, TypeOK, BrkState
<1>2. vpn \in Page /\ OldVpn(caller) \in Nat
      /\ user_heap_brk[caller] \in Nat
  BY <1>1, NextPage, Constants DEF IInv, TypeOK, OldVpn
<1>3. vpn \in 0..MAX_PT_LEN
  BY <1>2, Constants DEF Page
<1>4. /\ used' \subseteq Frame
      /\ pt' \in [Pcb -> [Page -> Frame \cup {NULL}]]
      /\ \A q \in Pcb \ {caller} : pt'[q] = pt[q]
      /\ \A v \in Page : pt'[caller][v] = IF v \in OldVpn(caller)..(vpn - 1) THEN NULL
                                          ELSE pt[caller][v]
      /\ MappedOnce' /\ HeldIsInUse' /\ OthersKeep(caller) /\ Honest
  BY <1>1, <1>2, <1>3, UnmapPagesFacts
<1>5. TypeOK'
  BY <1>1, <1>4, Constants DEF Return, IInv, TypeOK, breaks
<1>6. StackForAll'
  BY <1>1, <1>4 DEF IInv, FrameIsolation, StackForAll, OthersKeep
<1>7. Images'
  BY <1>1 DEF IInv, Images, breaks
<1>8. GuardPage'
  <2>1. ruined \subseteq ruined' /\ UNCHANGED <<pstate, user_stack_ptr>>
    BY <1>1 DEF breaks
  <2>2. \A v \in Page : pt'[caller][v] \in {NULL, pt[caller][v]}
    BY <1>4
  <2> QED
    BY <1>1, <1>4, <2>1, <2>2, GuardKept
<1>9. HeapMapped'
  <2>1. ASSUME caller \notin ruined, user_heap_brk[caller] >= MAX_PT_LEN,
               NEW v \in 0..(user_heap_brk[caller] - MAX_PT_LEN - 1)
        PROVE  pt'[caller][v] # NULL
    <3>1. v \in Page
      BY <1>1, Constants DEF IInv, TypeOK, Page
    <3>2. v < OldVpn(caller)
      BY <1>2, <2>1, Constants DEF OldVpn
    <3> QED
      BY <1>1, <1>2, <1>3, <1>4, <2>1, <3>1, <3>2 DEF IInv, HeapMapped
  <2> QED
    BY <1>1, <1>4, <2>1 DEF IInv, HeapMapped, breaks
<1> QED
  BY <1>1, <1>4, <1>5, <1>6, <1>7, <1>8, <1>9
     DEF IInv, FrameIsolation, ForkState, LoadState, BrkState, NoOverrun, Return

LEMMA KernelBrkShrinkStep ==
  ASSUME IInv, NEW p \in Pcb, NEW new_brk \in Breaks, KernelBrkShrink(p, new_brk)
  PROVE  IInv' /\ Honest
<1> DEFINE new_vpn == new_brk - MAX_PT_LEN
<1>1. /\ mode = "user" /\ p \in Pcb \ {idle_process} /\ pstate[p] = "live"
      /\ new_brk >= MAX_PT_LEN /\ new_vpn < OldVpn(p)
      /\ UnmapPages(p, new_vpn, OldVpn(p))
      /\ user_heap_brk' = [user_heap_brk EXCEPT ![p] = new_brk]
      /\ UNCHANGED <<kernel_stack_frames, pstate, user_stack_ptr, ruined, mode, locals>>
  BY DEF KernelBrkShrink, Runs
<1>2. /\ new_vpn \in Nat /\ new_brk \in 0..(2 * MAX_PT_LEN)
      /\ user_heap_brk[p] \in 0..(2 * MAX_PT_LEN)
  BY <1>1, Constants DEF IInv, TypeOK
<1>3. OldVpn(p) \in 0..MAX_PT_LEN /\ OldVpn(p) = user_heap_brk[p] - MAX_PT_LEN
      /\ user_heap_brk[p] >= MAX_PT_LEN
  BY <1>1, <1>2, Constants DEF OldVpn
<1>4. /\ used' \subseteq Frame
      /\ pt' \in [Pcb -> [Page -> Frame \cup {NULL}]]
      /\ \A q \in Pcb \ {p} : pt'[q] = pt[q]
      /\ \A v \in Page : pt'[p][v] = IF v \in new_vpn..(OldVpn(p) - 1) THEN NULL
                                     ELSE pt[p][v]
      /\ MappedOnce' /\ HeldIsInUse' /\ OthersKeep(p) /\ Honest
  BY <1>1, <1>2, <1>3, UnmapPagesFacts
<1>5. TypeOK'
  <2>1. user_heap_brk' \in [Pcb -> 0..(2 * MAX_PT_LEN)]
    BY <1>1, <1>2 DEF IInv, TypeOK
  <2> QED
    BY <1>1, <1>4, <2>1 DEF IInv, TypeOK, locals
<1>6. StackForAll'
  BY <1>1, <1>4 DEF IInv, FrameIsolation, StackForAll, OthersKeep
<1>7. Images'
  BY <1>1 DEF IInv, Images, TypeOK
<1>8. GuardPage'
  <2>1. ruined \subseteq ruined' /\ UNCHANGED <<pstate, user_stack_ptr>>
    BY <1>1
  <2>2. \A v \in Page : pt'[p][v] \in {NULL, pt[p][v]}
    BY <1>4
  <2> QED
    BY <1>1, <1>4, <2>1, <2>2, GuardKept
<1>9. HeapMapped'
  <2>1. ASSUME p \notin ruined, NEW v \in 0..(new_vpn - 1) PROVE pt'[p][v] # NULL
    <3>1. v \in Page /\ v \in 0..(user_heap_brk[p] - MAX_PT_LEN - 1)
      BY <1>1, <1>2, <1>3, Constants DEF Page
    <3>2. v \notin new_vpn..(OldVpn(p) - 1)
      BY <1>2
    <3> QED
      BY <1>1, <1>3, <1>4, <2>1, <3>1, <3>2 DEF IInv, HeapMapped
  <2>2. user_heap_brk'[p] - MAX_PT_LEN = new_vpn
        /\ \A q \in Pcb \ {p} : user_heap_brk'[q] = user_heap_brk[q]
    BY <1>1 DEF IInv, TypeOK
  <2> QED
    BY <1>1, <1>4, <2>1, <2>2 DEF IInv, HeapMapped
<1> QED
  BY <1>1, <1>4, <1>5, <1>6, <1>7, <1>8, <1>9
     DEF IInv, FrameIsolation, ForkState, LoadState, BrkState, NoOverrun, locals
-----------------------------------------------------------------------------
(* Processes that come and go.                                             *)

\* free_proc, whatever has been done to the frames before.
LEMMA FreeProcTables ==
  ASSUME IInv, NEW p \in Pcb \ {idle_process}, NEW taken \in SUBSET Frame, free_proc(p, taken)
  PROVE  /\ used' \subseteq Frame
         /\ pt' \in [Pcb -> [Page -> Frame \cup {NULL}]]
         /\ kernel_stack_frames' \in [Pcb -> [KStack -> Frame \cup {NULL}]]
         /\ pstate' \in [Pcb -> {"none", "live", "zombie", "stuck"}]
         /\ user_heap_brk' \in [Pcb -> 0..(2 * MAX_PT_LEN)]
         /\ user_stack_ptr' \in [Pcb -> 0..(2 * MAX_PT_LEN)]
         /\ ruined' \subseteq Pcb
         /\ \A q \in Pcb : \A v \in Page : pt'[q][v] = IF q = p THEN NULL ELSE pt[q][v]
         /\ \A q \in Pcb : \A i \in KStack :
              kernel_stack_frames'[q][i] = IF q = p THEN NULL ELSE kernel_stack_frames[q][i]
         /\ pstate'[p] = "none" /\ \A q \in Pcb \ {p} : pstate'[q] = pstate[q]
         /\ Images' /\ GuardPage' /\ HeapMapped'
<1>1. /\ used' = taken \ FreedFrames(p)
      /\ pt' = [pt EXCEPT ![p] = NoPages]
      /\ kernel_stack_frames' = [kernel_stack_frames EXCEPT ![p] = NoStack]
      /\ pstate' = [pstate EXCEPT ![p] = "none"]
      /\ user_heap_brk' = [user_heap_brk EXCEPT ![p] = 0]
      /\ user_stack_ptr' = [user_stack_ptr EXCEPT ![p] = 0]
      /\ ruined' = ruined \ {p}
  BY DEF free_proc
<1>2. /\ pt \in [Pcb -> [Page -> Frame \cup {NULL}]]
      /\ kernel_stack_frames \in [Pcb -> [KStack -> Frame \cup {NULL}]]
      /\ pstate \in [Pcb -> {"none", "live", "zombie", "stuck"}]
      /\ user_heap_brk \in [Pcb -> 0..(2 * MAX_PT_LEN)]
      /\ user_stack_ptr \in [Pcb -> 0..(2 * MAX_PT_LEN)] /\ ruined \subseteq Pcb
      /\ MAX_PT_LEN \in Nat /\ MAX_PT_LEN > 0 /\ idle_process \in Pcb
  BY Constants DEF IInv, TypeOK
<1>3. /\ used' \subseteq Frame
      /\ pstate' \in [Pcb -> {"none", "live", "zombie", "stuck"}]
      /\ user_heap_brk' \in [Pcb -> 0..(2 * MAX_PT_LEN)]
      /\ user_stack_ptr' \in [Pcb -> 0..(2 * MAX_PT_LEN)]
      /\ ruined' \subseteq Pcb
  BY <1>1, <1>2
<1>4. /\ pt' \in [Pcb -> [Page -> Frame \cup {NULL}]]
      /\ pt'[p] = NoPages /\ \A q \in Pcb \ {p} : pt'[q] = pt[q]
  <2>1. NoPages \in [Page -> Frame \cup {NULL}]
    BY DEF NoPages
  <2> QED
    BY <1>1, <1>2, <2>1
<1>5. /\ kernel_stack_frames' \in [Pcb -> [KStack -> Frame \cup {NULL}]]
      /\ kernel_stack_frames'[p] = NoStack
      /\ \A q \in Pcb \ {p} : kernel_stack_frames'[q] = kernel_stack_frames[q]
  <2>1. NoStack \in [KStack -> Frame \cup {NULL}]
    BY DEF NoStack
  <2> QED
    BY <1>1, <1>2, <2>1
<1>6. /\ \A q \in Pcb : \A v \in Page : pt'[q][v] = IF q = p THEN NULL ELSE pt[q][v]
      /\ \A q \in Pcb : \A i \in KStack :
           kernel_stack_frames'[q][i] = IF q = p THEN NULL ELSE kernel_stack_frames[q][i]
  BY <1>4, <1>5 DEF NoPages, NoStack
<1>7. /\ pstate'[p] = "none" /\ user_heap_brk'[p] = 0
      /\ \A q \in Pcb \ {p} : /\ pstate'[q] = pstate[q]
                              /\ user_heap_brk'[q] = user_heap_brk[q]
                              /\ user_stack_ptr'[q] = user_stack_ptr[q]
  BY <1>1, <1>2
<1>8. Images'
  BY <1>1, <1>2, <1>7 DEF IInv, Images
<1>9. GuardPage' /\ HeapMapped'
  BY <1>1, <1>2, <1>4, <1>7 DEF IInv, GuardPage, HeapMapped
<1> QED
  BY <1>3, <1>4, <1>5, <1>6, <1>7, <1>8, <1>9

LEMMA FreeProcFrames ==
  ASSUME IInv, mode # "astray", mode' # "fork", NEW p \in Pcb \ {idle_process},
         NEW taken \in SUBSET Frame, free_proc(p, taken),
         taken \ Owned(p) = used \ Owned(p), mode = "fork" => p = child
  PROVE  MappedOnce' /\ HeldIsInUse' /\ StackForAll' /\ Honest
<1>1. MappedOnce /\ HeldIsInUse /\ StackForAll /\ used \subseteq Frame
  BY DEF IInv, FrameIsolation, TypeOK
<1>2. used' = used \ Owned(p)
  BY DEF free_proc, FreedFrames
<1>3. /\ used' \subseteq Frame
      /\ \A q \in Pcb : \A v \in Page : pt'[q][v] = IF q = p THEN NULL ELSE pt[q][v]
      /\ \A q \in Pcb : \A i \in KStack :
           kernel_stack_frames'[q][i] = IF q = p THEN NULL ELSE kernel_stack_frames[q][i]
      /\ pstate'[p] = "none" /\ \A q \in Pcb \ {p} : pstate'[q] = pstate[q]
  BY FreeProcTables
<1>4. MappedOnce' /\ HeldIsInUse' /\ OthersKeep(p) /\ Returns(p) /\ Owned(p)' = {}
  BY <1>1, <1>2, <1>3, AllReturned
<1>5. FT!Step /\ Lost' \subseteq Lost
  BY <1>1, <1>3, <1>4, HonestStep
<1>6. StackForAll'
  BY <1>1, <1>3, <1>4 DEF StackForAll, OthersKeep
<1> QED
  BY <1>4, <1>5, <1>6 DEF Honest

LEMMA KernelWaitStep ==
  ASSUME IInv, NEW p \in Pcb, NEW zombie \in Pcb, KernelWait(p, zombie)
  PROVE  IInv' /\ Honest
<1>1. /\ mode = "user" /\ UNCHANGED <<mode, locals>>
      /\ zombie \in Pcb \ {idle_process} /\ free_proc(zombie, used)
  BY DEF KernelWait, Runs, IInv, Images
<1>2. used \in SUBSET Frame
  BY DEF IInv, TypeOK
<1>3. MappedOnce' /\ HeldIsInUse' /\ StackForAll' /\ Honest
  BY <1>1, <1>2, FreeProcFrames
<1>4. TypeOK' /\ Images' /\ GuardPage' /\ HeapMapped'
  BY <1>1, <1>2, FreeProcTables DEF IInv, TypeOK, locals
<1> QED
  BY <1>1, <1>3, <1>4 DEF IInv, FrameIsolation, ForkState, LoadState, BrkState, NoOverrun, locals

\* The rollback frees frames of others, and the kernel has gone astray, or it
\* frees no frame that free_proc would not.
LEMMA ForkNoFrameStep == IInv /\ ForkNoFrame => IInv' /\ Honest
<1> SUFFICES ASSUME IInv, ForkNoFrame PROVE IInv' /\ Honest
  OBVIOUS
<1> DEFINE rolled == rollback_frames(first_frame_used, frames_used)
<1>1. /\ mode = "fork" /\ child \in Pcb \ {idle_process} /\ pstate[child] = "none"
      /\ free_proc(child, used \ rolled)
      /\ IF rolled \subseteq Owned(child) THEN Return ELSE mode' = "astray" /\ UNCHANGED locals
  BY DEF ForkNoFrame, IInv, TypeOK, Images
<1>2. used \ rolled \in SUBSET Frame
  BY DEF IInv, TypeOK
<1> HIDE DEF rolled
<1>3. /\ used' \subseteq Frame
      /\ pt' \in [Pcb -> [Page -> Frame \cup {NULL}]]
      /\ kernel_stack_frames' \in [Pcb -> [KStack -> Frame \cup {NULL}]]
      /\ pstate' \in [Pcb -> {"none", "live", "zombie", "stuck"}]
      /\ user_heap_brk' \in [Pcb -> 0..(2 * MAX_PT_LEN)]
      /\ user_stack_ptr' \in [Pcb -> 0..(2 * MAX_PT_LEN)]
      /\ ruined' \subseteq Pcb
      /\ Images' /\ GuardPage' /\ HeapMapped'
  BY <1>1, <1>2, FreeProcTables
<1>4. CASE rolled \subseteq Owned(child)
  <2>1. mode' = "user" /\ Return
    BY <1>1, <1>4 DEF Return
  <2>2. TypeOK'
    BY <1>3, <2>1, Constants DEF Return, IInv, TypeOK
  <2>3. (used \ rolled) \ Owned(child) = used \ Owned(child)
    BY <1>4
  <2>4. MappedOnce' /\ HeldIsInUse' /\ StackForAll' /\ Honest
    BY <1>1, <1>2, <2>1, <2>3, FreeProcFrames
  <2> QED
    BY <1>3, <2>1, <2>2, <2>4
       DEF IInv, FrameIsolation, ForkState, LoadState, BrkState, NoOverrun, Return
<1>5. CASE ~(rolled \subseteq Owned(child))
  <2>1. mode' = "astray" /\ UNCHANGED locals
    BY <1>1, <1>5
  <2>2. TypeOK'
    BY <1>3, <2>1 DEF IInv, TypeOK, locals
  <2> QED
    BY <1>3, <2>1, <2>2
       DEF IInv, FrameIsolation, ForkState, LoadState, BrkState, NoOverrun, Honest
<1> QED
  BY <1>4, <1>5

\* The free frames can be counted.
LEMMA FreeCounted ==
  ASSUME NEW taken
  PROVE  IsFiniteSet(Frame \ taken) /\ Cardinality(Frame \ taken) \in Nat
<1>1. IsFiniteSet(Frame)
  <2>1. 0 \in Int /\ frame_count - 1 \in Int
    BY Constants
  <2> QED
    BY <2>1, FS_Interval DEF Frame
<1>2. IsFiniteSet(Frame \ taken)
  BY <1>1, FS_Subset
<1> QED
  BY <1>2, FS_CardinalityType

LEMMA KernelForkStep ==
  ASSUME IInv, NEW p \in Pcb, NEW new \in Pcb, KernelFork(p, new)
  PROVE  IInv' /\ Honest
<1> DEFINE low == find_frame(used)
           high == find_frame(used \cup {low})
<1>1. /\ mode = "user" /\ mode' = "fork" /\ pstate[p] = "live" /\ p # idle_process
      /\ pstate[new] = "none" /\ new # idle_process /\ new # p
      /\ used' = used \cup {low, high}
      /\ kernel_stack_frames' =
           [kernel_stack_frames EXCEPT ![new] =
              [i \in KStack |-> IF i = 0 THEN low ELSE high]]
      /\ caller' = p /\ child' = new /\ todo' = {v \in Page : pt[p][v] # NULL}
      /\ UNCHANGED <<pt, pstate, breaks, ruined, first_frame_used, frames_used, li, brk_vpn>>
      /\ Cardinality(Frame \ used) > 1
  <2>1. Cardinality(Frame \ used) \in Nat
    BY FreeCounted
  <2> QED
    BY <2>1 DEF KernelFork, Runs, IInv, Images
<1>2. /\ low \in Frame \ used /\ high \in Frame \ used /\ low # high
  <2>1. Frame \ used # {}
    <3>1. Cardinality({}) = 0
      BY FS_EmptySet
    <3>2. Cardinality(Frame \ used) > 1
      BY <1>1
    <3> HIDE DEF low, high
    <3> QED
      BY <3>1, <3>2
  <2>2. low \in Frame \ used
    BY <2>1, FindFrame
  <2>3. (Frame \ used) \ {low} # {}
    <3>1. Cardinality({low}) = 1 /\ IsFiniteSet({low})
      BY FS_Singleton
    <3> QED
      BY <1>1, <3>1, TwoFrames
  <2>4. high \in Frame \ (used \cup {low})
    <3>1. Frame \ (used \cup {low}) # {}
      BY <2>3
    <3> QED
      BY <3>1, FindFrame
  <2> QED
    BY <2>2, <2>4
<1> HIDE DEF low, high
<1>3. /\ used \subseteq Frame /\ NULL \notin Frame /\ MappedOnce /\ HeldIsInUse /\ StackForAll
      /\ kernel_stack_frames \in [Pcb -> [KStack -> Frame \cup {NULL}]]
      /\ Owned(new) = {}
  BY <1>1, Constants DEF IInv, TypeOK, FrameIsolation, StackForAll
<1>4. /\ kernel_stack_frames' \in [Pcb -> [KStack -> Frame \cup {NULL}]]
      /\ kernel_stack_frames'[new][0] = low /\ kernel_stack_frames'[new][1] = high
      /\ \A q \in Pcb \ {new} : kernel_stack_frames'[q] = kernel_stack_frames[q]
  BY <1>1, <1>2, <1>3 DEF KStack
<1>5. StackOnly(new)
  BY <1>1, <1>4 DEF StackOnly
<1>6. MappedOnce' /\ HeldIsInUse' /\ OthersKeep(new) /\ Gains(new)
  BY <1>1, <1>2, <1>3, <1>4, <1>5, StackTaken
<1>7. used' \subseteq Frame
  BY <1>1, <1>2, <1>3
<1>8. Honest
  BY <1>3, <1>6, <1>7, HonestStep DEF Honest
<1>9. TypeOK'
  BY <1>1, <1>4, <1>7 DEF IInv, TypeOK, breaks
<1>10. StackForAll'
  BY <1>1, <1>3, <1>4, <1>6 DEF StackForAll, OthersKeep
<1>11. ForkState'
  <2>1. \A v \in Page : pt[new][v] = NULL
    <3>1. \A f : f \notin Owned(new)
      BY <1>3
    <3> QED
      BY <3>1, OwnedDef
  <2>2. \A i \in KStack : kernel_stack_frames'[new][i] # NULL
    BY <1>2, <1>3, <1>4 DEF KStack
  <2>3. frames_used = 0
    BY <1>1 DEF IInv, ForkState
  <2> QED
    BY <1>1, <2>1, <2>2, <2>3, Constants DEF ForkState, Page
<1>12. Images' /\ GuardPage' /\ HeapMapped'
  BY <1>1 DEF IInv, Images, GuardPage, HeapMapped, breaks
<1> QED
  BY <1>1, <1>6, <1>8, <1>9, <1>10, <1>11, <1>12
     DEF IInv, FrameIsolation, LoadState, BrkState, NoOverrun
\* The frames that are left are lost; nobody gains or drops one.
LEMMA KernelForkNoStackStep ==
  ASSUME IInv, NEW p \in Pcb, KernelForkNoStack(p) PROVE IInv' /\ Honest
<1>1. /\ mode = "user" /\ used' = Frame
      /\ UNCHANGED <<tables, pstate, breaks, ruined, mode, locals>>
  BY DEF KernelForkNoStack, Runs
<1>2. MappedOnce /\ HeldIsInUse /\ StackForAll /\ used \subseteq Frame
  BY <1>1 DEF IInv, TypeOK, FrameIsolation
<1>3. \A q : Owned(q)' = Owned(q)
  BY <1>1 DEF Owned, PageFrames, StackFrames, tables
<1>4. MappedOnce'
  BY <1>1, <1>2 DEF MappedOnce, tables
<1>5. HeldIsInUse'
  BY <1>1, <1>2 DEF HeldIsInUse, tables, Reserved
<1>6. StackForAll'
  BY <1>1, <1>2, <1>3 DEF StackForAll, tables
<1>7. FT!Step
  <2>1. \A q \in Pcb : [r \in Pcb |-> Owned(r)' \ Reserved'][q] = [r \in Pcb |-> Owned(r) \ Reserved][q]
    BY <1>3 DEF Reserved
  <2> QED
    BY <1>1, <2>1 DEF FT!Step, FT!Gained, FT!Dropped
<1>8. Honest
  BY <1>7 DEF Honest
<1>9. TypeOK'
  BY <1>1 DEF IInv, TypeOK, tables, breaks, locals
<1>10. Images' /\ GuardPage' /\ HeapMapped'
  BY <1>1 DEF IInv, Images, GuardPage, HeapMapped, tables, breaks
<1> QED
  BY <1>1, <1>4, <1>5, <1>6, <1>8, <1>9, <1>10
     DEF IInv, FrameIsolation, ForkState, LoadState, BrkState, NoOverrun, locals
-----------------------------------------------------------------------------
(* The invariant.                                                          *)

\* A program that fits maps pages of region 1 only.
LEMMA ProgramInRegion ==
  ASSUME NEW prog \in Programs, Fits(prog)
  PROVE  ProgramPages(prog) \subseteq Page
<1>1. /\ prog.text_pg1 \in Nat /\ prog.t_npg \in Nat /\ prog.data_pg1 \in Nat
      /\ prog.data_npg \in Nat /\ prog.stack_npg \in Nat
      /\ prog.text_pg1 + prog.t_npg <= prog.data_pg1
      /\ prog.stack_npg + prog.data_pg1 + prog.data_npg < MAX_PT_LEN
  BY Constants DEF Layout, Fits
<1> QED
  BY <1>1, Constants DEF ProgramPages, StackStart, DataEnd, Page

\* KernelStart takes three frames, and there are three to take.
LEMMA BootFrames ==
  LET idle_pfn == find_frame(Reserved)
      low      == find_frame(Reserved \cup {idle_pfn})
      high     == find_frame(Reserved \cup {idle_pfn, low})
  IN  /\ {idle_pfn, low, high} \subseteq Frame \ Reserved
      /\ idle_pfn # low /\ idle_pfn # high /\ low # high
<1> DEFINE idle_pfn == find_frame(Reserved)
           low      == find_frame(Reserved \cup {idle_pfn})
           high     == find_frame(Reserved \cup {idle_pfn, low})
<1>1. Cardinality(Frame \ Reserved) \in Nat /\ Cardinality(Frame \ Reserved) > 2
      /\ Frame \ Reserved \in SUBSET Frame
  <2> HIDE DEF idle_pfn, low, high
  <2>1. Cardinality(Frame \ Reserved) \in Nat
    BY FreeCounted
  <2>2. Cardinality(Frame \ Reserved) >= 3
    BY MemoryAssumption
  <2> QED
    BY <2>1, <2>2
<1>2. idle_pfn \in Frame \ Reserved
  <2>1. Frame \ Reserved # {}
    BY <1>1, FS_EmptySet
  <2> QED
    BY <2>1, FindFrame
<1>3. low \in Frame \ (Reserved \cup {idle_pfn})
  <2>1. Cardinality({idle_pfn}) = 1 /\ IsFiniteSet({idle_pfn})
    BY FS_Singleton
  <2>2. (Frame \ Reserved) \ {idle_pfn} # {}
    BY <1>1, <2>1, TwoFrames
  <2>3. Frame \ (Reserved \cup {idle_pfn}) # {}
    BY <2>2
  <2> QED
    BY <2>3, FindFrame
<1>4. high \in Frame \ (Reserved \cup {idle_pfn, low})
  <2>1. Cardinality({idle_pfn, low}) = 2 /\ IsFiniteSet({idle_pfn, low})
    <3>1. low # idle_pfn
      BY <1>3
    <3> HIDE DEF low, idle_pfn
    <3> QED
      BY <3>1, Pair
  <2>2. (Frame \ Reserved) \ {idle_pfn, low} # {}
    BY <1>1, <2>1, TwoFrames
  <2>3. Frame \ (Reserved \cup {idle_pfn, low}) # {}
    BY <2>2
  <2> QED
    BY <2>3, FindFrame
<1> HIDE DEF idle_pfn, low, high
<1>5. /\ {idle_pfn, low, high} \subseteq Frame \ Reserved
      /\ idle_pfn # low /\ idle_pfn # high /\ low # high
  BY <1>2, <1>3, <1>4
<1> QED
  BY <1>5 DEF idle_pfn, low, high

LEMMA InitIInv == Init => IInv
<1> SUFFICES ASSUME Init PROVE IInv
  OBVIOUS
<1> DEFINE idle_pfn == find_frame(Reserved)
           low      == find_frame(Reserved \cup {idle_pfn})
           high     == find_frame(Reserved \cup {idle_pfn, low})
<1>0. /\ idle_pfn \in Frame \ Reserved /\ low \in Frame \ Reserved /\ high \in Frame \ Reserved
      /\ idle_pfn # low /\ idle_pfn # high /\ low # high
  BY BootFrames
<1>1. /\ used = Reserved \cup {idle_pfn, low, high}
      /\ pt = [p \in Pcb |-> IF p = idle_process
                             THEN [NoPages EXCEPT ![MAX_PT_LEN - 1] = idle_pfn]
                             ELSE NoPages]
      /\ kernel_stack_frames =
           [p \in Pcb |->
              CASE p = idle_process -> [i \in KStack |-> IF i = 0 THEN V1_KSTACK
                                                                  ELSE V2_KSTACK]
                [] p = init_process -> [i \in KStack |-> IF i = 0 THEN low ELSE high]
                [] OTHER            -> NoStack]
  BY DEF Init
<1> HIDE DEF idle_pfn, low, high
<1>2. /\ pstate = [p \in Pcb |-> IF p \in {idle_process, init_process} THEN "live" ELSE "none"]
      /\ user_heap_brk = [p \in Pcb |-> 0] /\ user_stack_ptr = [p \in Pcb |-> 0]
      /\ ruined = {init_process} /\ mode = "load" /\ caller = init_process
      /\ first_frame_used = 0 /\ frames_used = 0
      /\ li \in Programs /\ Fits(li) /\ todo = ProgramPages(li) /\ brk_vpn = 0
  BY DEF Init
<1>3. \A p \in Pcb : \A v \in Page :
        pt[p][v] = IF p = idle_process /\ v = MAX_PT_LEN - 1 THEN idle_pfn ELSE NULL
  BY <1>1, Constants DEF NoPages, Page
<1>4. /\ \A i \in KStack :
           /\ kernel_stack_frames[idle_process][i] = IF i = 0 THEN V1_KSTACK ELSE V2_KSTACK
           /\ kernel_stack_frames[init_process][i] = IF i = 0 THEN low ELSE high
      /\ \A p \in Pcb \ {idle_process, init_process} : \A i \in KStack :
           kernel_stack_frames[p][i] = NULL
  BY <1>1, Constants DEF NoStack
<1>5. /\ NULL \notin Frame /\ V1_KSTACK \in Reserved /\ V2_KSTACK \in Reserved
      /\ V1_KSTACK # V2_KSTACK /\ Reserved \subseteq Frame /\ idle_process # init_process
  BY Constants
<1>6. TypeOK
  <2>1. used \subseteq Frame
    BY <1>0, <1>1, <1>5
  <2>2. pt \in [Pcb -> [Page -> Frame \cup {NULL}]]
    BY <1>0, <1>1 DEF NoPages
  <2>3. kernel_stack_frames \in [Pcb -> [KStack -> Frame \cup {NULL}]]
    BY <1>0, <1>1, <1>5 DEF NoStack
  <2>4. todo \subseteq Page
    BY <1>2, ProgramInRegion
  <2> QED
    BY <1>2, <2>1, <2>2, <2>3, <2>4, Constants DEF TypeOK
<1>7. MappedOnce
  BY <1>0, <1>3, <1>4, <1>5 DEF MappedOnce, KStack
<1>8. HeldIsInUse
  BY <1>0, <1>1, <1>3, <1>4, <1>5 DEF HeldIsInUse, KStack
<1>9. StackForAll
  <2>1. ASSUME NEW p \in Pcb \ {idle_process, init_process}, NEW f PROVE f \notin Owned(p)
    BY <1>3, <1>4, OwnedDef
  <2>2. \A p \in {idle_process, init_process} : \A i \in KStack : kernel_stack_frames[p][i] # NULL
    BY <1>0, <1>4, <1>5, Constants
  <2>3. \A p \in Pcb \ {idle_process, init_process} : Owned(p) = {}
    BY <2>1
  <2> QED
    BY <1>2, <2>2, <2>3 DEF StackForAll
<1>10. Images /\ ForkState /\ BrkState /\ NoOverrun
  BY <1>2, Constants DEF Images, ForkState, BrkState, NoOverrun
<1>11. LoadState
  BY <1>2, <1>3, Constants DEF LoadState
<1>12. GuardPage /\ HeapMapped
  BY <1>2, Constants DEF GuardPage, HeapMapped
<1> QED
  BY <1>6, <1>7, <1>8, <1>9, <1>10, <1>11, <1>12 DEF IInv, FrameIsolation

\* Every step of the kernel keeps the invariant and deals honestly with frames.
LEMMA NextIInv == IInv /\ [Next]_vars => IInv' /\ Honest
<1> SUFFICES ASSUME IInv, [Next]_vars PROVE IInv' /\ Honest
  OBVIOUS
<1>1. CASE ForkStep
  BY <1>1, ForkCopyStep, ForkNoFrameStep, ForkDoneStep DEF ForkStep
<1>2. CASE LoadStep
  BY <1>2, LoadPageStep, LoadEndStep DEF LoadStep
<1>3. CASE BrkStep
  BY <1>3, BrkPageStep, BrkNoFrameStep, BrkDoneStep DEF BrkStep
<1>4. ASSUME NEW p \in Pcb, Syscall(p) PROVE IInv' /\ Honest
  BY <1>4, KernelForkStep, KernelForkNoStackStep, KernelExitStep, KernelWaitStep,
     KernelExecStep, KernelExecRefusedStep, KernelBrkGrowStep, KernelBrkShrinkStep
     DEF Syscall
<1>5. ASSUME NEW p \in Pcb, HandleIllegalTrap(p) \/ HandleMathTrap(p) PROVE IInv' /\ Honest
  BY <1>5, AbortStep
<1>6. ASSUME NEW p \in Pcb, NEW fault \in Faults, HandleMemoryTrap(p, fault[1], fault[2])
      PROVE  IInv' /\ Honest
  BY <1>6, HandleMemoryTrapStep
<1>7. CASE UNCHANGED vars
  <2>1. /\ UNCHANGED <<used, pt, kernel_stack_frames, pstate, user_heap_brk, user_stack_ptr>>
        /\ UNCHANGED <<ruined, mode, caller, todo, child, first_frame_used, frames_used>>
        /\ UNCHANGED <<li, brk_vpn, used, tables>>
    BY <1>7 DEF vars, tables, breaks, locals
  <2>2. \A p : Owned(p)' = Owned(p)
    BY <2>1 DEF Owned, PageFrames, StackFrames
  <2>3. TypeOK' /\ Images' /\ NoOverrun' /\ GuardPage' /\ HeapMapped'
    BY <2>1 DEF IInv, TypeOK, Images, NoOverrun, GuardPage, HeapMapped
  <2>4. FrameIsolation'
    BY <2>1, <2>2 DEF IInv, FrameIsolation, MappedOnce, HeldIsInUse, StackForAll, Reserved
  <2>5. ForkState' /\ LoadState' /\ BrkState'
    BY <2>1 DEF IInv, ForkState, LoadState, BrkState, ProgramPages, StackStart, DataEnd,
                HitsStack, OldVpn
  <2> QED
    BY <2>1, <2>3, <2>4, <2>5 DEF IInv, Honest
<1> QED
  BY <1>1, <1>2, <1>3, <1>4, <1>5, <1>6, <1>7 DEF Next
-----------------------------------------------------------------------------
(* What follows.                                                           *)

\* In every state the code can reach, the loops have done what they were to do
\* so far, the tables hold what Fork, Exec and Brk put there, and no frame is
\* mapped twice.
THEOREM Invariance == Spec => []IInv
<1>1. Init => IInv
  BY InitIInv
<1>2. IInv /\ [Next]_vars => IInv'
  BY NextIInv
<1> QED
  BY <1>1, <1>2, PTL DEF Spec

\* Tables map pages to frames, breaks stay within the two regions, and a loop
\* of Fork, LoadProgram or KernelBrk never leaves region 1.
THEOREM TypeCorrect == Spec => []TypeOK
<1>1. IInv => TypeOK
  BY DEF IInv
<1> QED
  BY <1>1, Invariance, PTL

\* No process can reach the memory of another, or of the kernel, whatever calls
\* are made and wherever find_frame runs out, until rollback_frames goes astray.
THEOREM FramesAreIsolated == Spec => []FrameIsolation
<1>1. IInv => FrameIsolation
  BY DEF IInv
<1> QED
  BY <1>1, Invariance, PTL

\* HandleMemoryTrap never writes beyond a page table.
THEOREM NeverOverruns == Spec => []NoOverrun
<1>1. IInv => NoOverrun
  BY DEF IInv
<1> QED
  BY <1>1, Invariance, PTL

\* KernelBrk and Fork leave the page below the stack unmapped.
THEOREM GuardPageStays == Spec => []GuardPage
<1>1. IInv => GuardPage
  BY DEF IInv
<1> QED
  BY <1>1, Invariance, PTL

\* A process has all the heap that KernelBrk said it has, in a forked child too.
THEOREM HeapIsMapped == Spec => []HeapMapped
<1>1. IInv => HeapMapped
  BY DEF IInv
<1> QED
  BY <1>1, Invariance, PTL

\* No call but a Fork that gets half a kernel stack leaves a frame marked that
\* nobody has.
THEOREM OnlyForkLosesFrames == Spec => FramesLostOnlyByFork
<1> DEFINE NoLoss == \/ Lost' \subseteq Lost
                     \/ mode' = "astray"
                     \/ \E p \in Pcb : KernelForkNoStack(p)
<1>1. IInv /\ [Next]_vars => [NoLoss]_<<used, tables>>
  <2> SUFFICES ASSUME IInv, [Next]_vars PROVE NoLoss \/ UNCHANGED <<used, tables>>
    OBVIOUS
  <2>1. Honest
    BY NextIInv
  <2> QED
    BY <2>1 DEF Honest
<1> QED
  BY <1>1, Invariance, PTL DEF Spec, FramesLostOnlyByFork

\* Page tables and kernel stacks implement the frame table: a frame goes from
\* one process to another only by way of frame_free.
THEOREM ImplementsTheFrameTable == Spec => ImplementsFrameTable
<1> DEFINE Fair == FT!Step \/ mode' = "astray"
<1>1. Init => FT!Init
  <2> SUFFICES ASSUME Init PROVE FT!Init
    OBVIOUS
  <2>1. MappedOnce /\ HeldIsInUse /\ used \subseteq Frame
    BY InitIInv DEF Init, IInv, FrameIsolation, TypeOK
  <2>2. /\ \A p \in Pcb : Owned(p) \subseteq used
        /\ \A p, q \in Pcb : p # q => Owned(p) \cap Owned(q) = {}
    BY <2>1, OwnedOnce
  <2>3. [p \in Pcb |-> Owned(p) \ Reserved] \in [Pcb -> SUBSET Frame]
    BY <2>1, <2>2
  <2> QED
    BY <2>2, <2>3 DEF FT!Init, FT!Exclusive
<1>2. IInv /\ [Next]_vars => [Fair]_<<used, tables>>
  <2> SUFFICES ASSUME IInv, [Next]_vars PROVE Fair \/ UNCHANGED <<used, tables>>
    OBVIOUS
  <2>1. Honest
    BY NextIInv
  <2> QED
    BY <2>1 DEF Honest
<1>3. FT!Init /\ [][Fair]_<<used, tables>> => ImplementsFrameTable
  BY DEF ImplementsFrameTable
<1> HIDE DEF Fair
<1>4. Spec => Init /\ [][Fair]_<<used, tables>>
  BY <1>2, Invariance, PTL DEF Spec
<1> QED
  BY <1>1, <1>3, <1>4
=============================================================================
