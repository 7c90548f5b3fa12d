------------------------- MODULE MC_BlockchainState -------------------------
(***************************************************************************)
(* A small header universe for TLC.  Two branches leave genesis g:         *)
(*                                                                         *)
(*        g(1) -- a1(1) -- a2(1)          cumulative work: a1 2, a2 3      *)
(*          \                                                              *)
(*           b1(2) -- b2(1)               cumulative work: b1 3, b2 4      *)
(*                                                                         *)
(* and o names the zero hash as parent (the mutated header of test S3).    *)
(* a2 and b1 tie on cumulative work, a fork off an inner node (b1 after    *)
(* a1) is appended to the tips, and b2 overtakes the a-branch.             *)
(***************************************************************************)
EXTENDS BlockchainState, TLC

CONSTANTS g, a1, a2, b1, b2, o, zero

MCHeader == {g, a1, a2, b1, b2, o}

MCPrev == (g :> zero) @@ (a1 :> g) @@ (a2 :> a1) @@ (b1 :> g) @@ (b2 :> b1)
            @@ (o :> zero)

MCHeaderWork == (g :> 1) @@ (a1 :> 1) @@ (a2 :> 1) @@ (b1 :> 2) @@ (b2 :> 1)
                  @@ (o :> 1)

=============================================================================
