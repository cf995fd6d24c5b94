--------------------------- MODULE PageAllocator ---------------------------
(***************************************************************************)
(* What the physical memory manager promises its callers, whatever CPU     *)
(* they run on: a page handed out is managed memory that nobody else       *)
(* holds, a page can be given back once, and the only thing that ends the  *)
(* service is a request made when every managed page is out.               *)
(*                                                                         *)
(* The last clause is how the code behaves, not how one would wish it to   *)
(* behave: pmm_alloc_page (src/kernel/src/mm/pmm.c:213) returns NULL with  *)
(* pmm_mutex still taken, so the first failed request is also the last     *)
(* request of any kind to be served.                                       *)
(***************************************************************************)

CONSTANTS
    Proc,       \* the contexts that call the allocator
    Managed     \* the pages it can hand out

VARIABLES
    held,       \* held[p]: the pages p was given and has not given back
    dead        \* TRUE once a request has failed

vars == <<held, dead>>

Out == UNION {held[p] : p \in Proc}

Init ==
    /\ held = [p \in Proc |-> {}]
    /\ dead = FALSE

\* p receives a managed page nobody holds.
Allocate(p) ==
    /\ ~dead
    /\ \E page \in Managed \ Out :
          held' = [held EXCEPT ![p] = @ \cup {page}]
    /\ UNCHANGED dead

\* A page that is out comes back, from whoever holds it.
Return ==
    /\ ~dead
    /\ \E page \in Out :
          held' = [p \in Proc |-> held[p] \ {page}]
    /\ UNCHANGED dead

\* A request fails: there is nothing left, and nothing will happen again.
Fail ==
    /\ ~dead
    /\ Managed \subseteq Out
    /\ dead' = TRUE
    /\ UNCHANGED held

Next ==
    \/ \E p \in Proc : Allocate(p)
    \/ Return
    \/ Fail

Spec == Init /\ [][Next]_vars

=============================================================================
