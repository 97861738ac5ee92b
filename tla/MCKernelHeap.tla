---------------------------- MODULE MCKernelHeap ----------------------------
EXTENDS KernelHeapProperties

\* The start of the heap and the unit below it, both ends of a page in the
\* middle, and the last page below the stack and the first address behind it.
MCRequests == {heap_start - 1, heap_start, heap_start + PAGESIZE,
               heap_start + PAGESIZE + 1, heap_start + 2 * PAGESIZE + 1,
               heap_end_limit - 1, heap_end_limit, heap_end_limit + PAGESIZE}
=============================================================================
