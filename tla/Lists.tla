-------------------------------- MODULE Lists --------------------------------
(***************************************************************************)
(* Entries leave the arrays of rvgpu-renderer in loops that walk over the  *)
(* array and close the gaps behind them.                                   *)
(***************************************************************************)
EXTENDS Naturals, Sequences

(* The list t without its places P, the others in their order.              *)
Without(t, P) ==
  LET kept[i \in 0 .. Len(t)] ==
        IF i = 0 THEN << >>
        ELSE IF i \in P THEN kept[i - 1] ELSE Append(kept[i - 1], t[i])
  IN kept[Len(t)]
==============================================================================
