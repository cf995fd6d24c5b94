------------------------------- MODULE MCHeap -------------------------------
(* Values for Heap. Three levels of tables over a heap of eight pages, so  *)
(* that neighbouring blocks need new tables; pages of two units, so that a *)
(* request takes one page or two.                                          *)
EXTENDS Heap

MCSpans == <<8, 4, 2>>

=============================================================================
