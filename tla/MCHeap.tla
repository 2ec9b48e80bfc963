------------------------------- MODULE MCHeap -------------------------------
(* 244 bytes from an unaligned start: up to four blocks.  Requests that    *)
(* split, leave a surplus too small to split, need rounding, need more     *)
(* than there is, overflow the product of heap_calloc (65533), and wrap    *)
(* when rounded: 65533 at once, 32767 as heap_calloc's product.            *)
EXTENDS Heap
MCRequests == {20, 44, 72, 32767, 65533}
=============================================================================
