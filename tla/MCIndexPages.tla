---------------------------- MODULE MCIndexPages ----------------------------
(* Model-checking instances of IndexPages. *)
EXTENDS IndexPages, TLC

Symmetry == Permutations(Requests)

(***************************************************************************)
(* What the future and the properties depend on.  A time at which a board  *)
(* was read counts by the number of pages there were then, and MaxRequest  *)
(* earlier; the time of a list RPC by the posts there were; the beginning  *)
(* of a walk by the posts it owes its reader; of an expired record only    *)
(* that it is of no use; and the newest record ever seen by nothing.       *)
(***************************************************************************)
Pages(at) == <<PageCount(count[at]), IF at < MaxRequest THEN 0 ELSE PageCount(count[at - MaxRequest])>>

Owed(w) == IF w.begun < Staleness THEN 0 ELSE count[w.begun - Staleness]

View ==
  << clock,
     {<<t, count[t]>> : t \in {u \in Times : clock - Staleness <= u /\ u <= clock}},
     [n \in Names |->
        IF Live(brdCache[n]) THEN <<Pages(brdCache[n].at), brdCache[n].expire>> ELSE None],
     pc, started,
     [r \in Requests |-> IF board[r] = None THEN None ELSE Pages(board[r])],
     [p \in DOMAIN mc |->
        IF mc[p] = None THEN None
        ELSE <<mc[p].page, Pages(mc[p].at), count[mc[p].listed], mc[p].expire>>],
     [r \in Requests |->
        IF walk[r] = None THEN None
        ELSE <<walk[r].want, walk[r].older, walk[r].ended, Owed(walk[r]), Pages(walk[r].link)>>],
     seen >>
=============================================================================
