----------------------------- MODULE MCEncrypt -----------------------------
(* The process's memory scaled down: 2-byte pages, one page of program    *)
(* (read-write, read-only or the guard) and two of heap, 2-byte chunks    *)
(* and MAXLEN two chunks, so a call spans chunks and pages, a chunk can   *)
(* straddle a page boundary, and a range can run into pages that a lazy   *)
(* sbrk left unmapped.  One or two pages are free, so kalloc runs out     *)
(* part way through a two-page uvmalloc or a fault, or does not.  Lengths *)
(* cover both rejected edges; sbrk moves by a byte or a page either way,  *)
(* so the break leaves page boundaries, by two pages, and by an amount    *)
(* that wraps below 0 or runs past TRAPFRAME.  memstat writes into a heap *)
(* page, where it may fault, and then into the program page.             *)
EXTENDS Encrypt

MCLens == 0 .. MAXLEN + 1

MCSbrkArgs == {-7, -2, -1, 1, 3}

MCFreeInit == {1, 2}

MCMemstatArgs == {<<2, 0>>}
=============================================================================
