------------------------------ MODULE Finders -------------------------------
(* richcontent/rich_content.go: Find's choice among what its finders report. *)
EXTENDS Integers, FiniteSets, SequencesExt

\* A find is its first and its last position in the line.
\* RichContentByBeginThenLongest
Before(q, r) == q[1] < r[1] \/ (q[1] = r[1] /\ r[2] < q[2])

\* Sorted: the n-th has n - 1 before it.
InOrder(finds) ==
  [n \in 1 .. Cardinality(finds) |->
     CHOOSE r \in finds : Cardinality({q \in finds : Before(q, r)}) = n - 1]

\* Mutant: what begins inside of another find is kept.
FilteredByBegin(finds) ==
  LET Keep(kept, r) == IF kept = <<>> \/ Last(kept)[1] < r[1] THEN Append(kept, r) ELSE kept
  IN FoldLeft(Keep, <<>>, InOrder(finds))

\* Find: what overlaps a find that begins before it, or is longer, is dropped.
Filtered(finds) ==
  LET Keep(kept, r) == IF kept = <<>> \/ Last(kept)[2] < r[1] THEN Append(kept, r) ELSE kept
  IN FoldLeft(Keep, <<>>, InOrder(finds))

=============================================================================
