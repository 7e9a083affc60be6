--------------------------- MODULE MCPagedClient ----------------------------
(* PagedClient on a small pool: three blocks of which two exist at start,  *)
(* chains of up to two blocks, two threads, two requests.                  *)
EXTENDS PagedClient, TLC

Symmetry == Permutations(Thread) \union Permutations(Req)

=============================================================================
