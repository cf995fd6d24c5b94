------------------------------- MODULE MCPmm -------------------------------
(* Model values for Pmm. Memory: pages of 4 bytes, the last usable byte is *)
(* 23 (an e820 entry of 24 bytes), so pages 0..5 exist, page 5 is never    *)
(* scanned, page 0 was reserved at boot and page 2 is a hole. Three pages  *)
(* (1, 3, 4) can be handed out, fewer than the CPUs may want.              *)
EXTENDS Pmm

MCBootFree == {1, 3, 4, 5}
MCNoPage == -1

=============================================================================
