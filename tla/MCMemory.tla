------------------------------ MODULE MCMemory ------------------------------
EXTENDS MemoryProperties

\* Programs of one text and one stack page, without data and with as much data
\* as LoadProgram accepts.
MCPrograms ==
  {[text_pg1 |-> 0, t_npg |-> 1, data_pg1 |-> 1, data_npg |-> n, stack_npg |-> 1] :
     n \in {0, 3}}

\* The start of region 1, two pages up, and where the stack begins, which Brk
\* refuses.
MCBreaks == {MAX_PT_LEN, MAX_PT_LEN + 2, 2 * MAX_PT_LEN - 1}

\* The first address of region 1, and one in the page below the stack.
MCFaults == {<<MAX_PT_LEN, FALSE>>, <<2 * MAX_PT_LEN - 2, TRUE>>}

\* A small program, and one of more pages than the number of the first frame that
\* a process gets.
MCLongPrograms ==
  {[text_pg1 |-> 0, t_npg |-> 1, data_pg1 |-> 1, data_npg |-> n, stack_npg |-> 1] :
     n \in {0, 10}}
=============================================================================
