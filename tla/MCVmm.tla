------------------------------- MODULE MCVmm -------------------------------
(* Six frames of four bytes from address 4: the bitmap's, boot's two       *)
(* tables, and three to lend: a directory, a table and a page, or two      *)
(* directories and a table.  Four regions of five pages: the first, a      *)
(* user's, the kernel's, and an upper one boot maps nothing in.  As in the *)
(* build, boot's identity pages are over its own tables and the next       *)
(* frame, which will be lent.                                              *)
EXTENDS Vmm
MCHeapFrames == {4, 5}
MCCallerPages == {<<1, 0>>, <<1, 1>>, <<2, 4>>, <<3, 0>>}
=============================================================================
