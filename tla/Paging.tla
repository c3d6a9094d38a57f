------------------------------- MODULE Paging -------------------------------
(* paging.go: how many pages a list has, and where a page begins. *)
EXTENDS Integers

CONSTANT PerPage   \* EntryPerPage

ASSUME PagingAssumption == PerPage \in Nat \ {0}

\* Mutant: a page that is not full does not count.
PageCountFull(n) == IF n \div PerPage = 0 THEN 1 ELSE n \div PerPage

\* NewPaging: the page that is not full counts, and there is always a page.
PageCount(n) ==
  LET pages == n \div PerPage + (IF n % PerPage > 0 THEN 1 ELSE 0)
  IN IF pages = 0 THEN 1 ELSE pages

\* SetPageNo, and Cursor after it: the entries before the page.
IsPage(page, n) == 1 <= page /\ page <= PageCount(n)
Cursor(page) == (page - 1) * PerPage

=============================================================================
