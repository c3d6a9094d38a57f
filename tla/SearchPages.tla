---------------------------- MODULE SearchPages -----------------------------
(***************************************************************************)
(* The search listing of a board: handleBbsSearch (pttweb.go) and          *)
(* generateBbsSearch (cached_ops.go), while matching posts keep coming in. *)
(*                                                                         *)
(* Unlike the listing of a board (module IndexPages), search pages are     *)
(* counted from the newest match, so what is on a page moves as matches    *)
(* arrive, and a page is made of one RPC, which returns entries and their  *)
(* total together.  A match is its position among the matches; matches are *)
(* only added, at the end.  A page object is determined by its number and  *)
(* the total it was made from.  Entries stay in memcached for a time that  *)
(* depends on the first request; here they leave at any time.              *)
(***************************************************************************)
EXTENDS Paging

CONSTANTS Readers,
          MaxTotal,   \* bound on the number of matches
          None        \* no entry, no reader's walk

ASSUME SearchAssumption == MaxTotal \in Nat /\ None \notin Nat

VARIABLES total,  \* the matches there are
          mc,     \* mc[p]: the total that memcached's entry for page p is of, or None
          walk,   \* walk[r]: the walk of reader r through the search, or None
          seen    \* seen[r]: the matches it has seen

vars == <<total, mc, walk, seen>>

MaxPage == PageCount(MaxTotal)

\* A walk is [want, first, last, ordered, quiet, ended]: the page wanted next;
\* the total of the first page and of the page before; whether no page was
\* older than the one before it; whether none was of another total; and
\* whether it has ended.

Init ==
  /\ total \in 0 .. MaxTotal
  /\ mc = [p \in 1 .. MaxPage |-> None]
  /\ walk = [r \in Readers |-> None]
  /\ seen = [r \in Readers |-> {}]

-----------------------------------------------------------------------------
(* generateBbsSearch *)

\* pttSearch.Search(ref, preds, -EntryPerPage*page, EntryPerPage): an offset
\* before the first match means the first match, so that the page of the
\* oldest matches is full as well.
Found(page, n) ==
  LET start == IF n - PerPage * page < 0 THEN 0 ELSE n - PerPage * page
  IN {i \in 1 .. n : start < i /\ i <= start + PerPage}

\* Mutant: the entries of the last page are not cut.
ShownUncut(page, n) == IF page > PageCount(n) THEN {} ELSE Found(page, n)

\* Mutant: the newest entries of the last page are kept, not the oldest.
ShownNewest(page, n) ==
  IF page > PageCount(n) THEN {}
  ELSE IF page = PageCount(n) THEN {i \in Found(page, n) : i > PerPage - (n % PerPage)}
  ELSE Found(page, n)

\* The entries on the page.  Of those of the last page the first n % PerPage
\* stay: articles[:n].
Shown(page, n) ==
  IF page > PageCount(n) THEN {}
  ELSE IF page = PageCount(n) THEN {i \in Found(page, n) : i <= (n % PerPage)}
  ELSE Found(page, n)

\* PrevPage, the link to older matches.
HasPrev(page, n) == page < PageCount(n)

-----------------------------------------------------------------------------
(* Readers, from the newest matches to the oldest *)

Walking(r) == walk[r] # None /\ ~walk[r].ended

Begin(r) ==
  /\ ~Walking(r)
  /\ walk' = [walk EXCEPT ![r] = [want |-> 1, first |-> 0, last |-> 0,
                                  ordered |-> TRUE, quiet |-> TRUE, ended |-> FALSE]]
  /\ seen' = [seen EXCEPT ![r] = {}]
  /\ UNCHANGED <<total, mc>>

\* A page of a total n is shown, and the reader goes on to the older page; a
\* page that is not valid, or has no such link, ends the walk.
Show(r, n) ==
  LET w == walk[r] IN
  /\ Walking(r)
  /\ seen' = [seen EXCEPT ![r] = @ \cup Shown(w.want, n)]
  /\ walk' = [walk EXCEPT ![r] =
       [want    |-> IF HasPrev(w.want, n) THEN w.want + 1 ELSE w.want,
        first   |-> IF w.want = 1 THEN n ELSE w.first,
        last    |-> n,
        ordered |-> w.ordered /\ (w.want = 1 \/ w.last <= n),
        quiet   |-> w.quiet /\ (w.want = 1 \/ w.last = n),
        ended   |-> ~HasPrev(w.want, n)]]

\* cacheMgr.Get finds the page.
Hit(r) ==
  /\ walk[r] # None /\ mc[walk[r].want] # None
  /\ Show(r, mc[walk[r].want])
  /\ UNCHANGED <<total, mc>>

\* The page is generated; storing it may fail.  A page that is not valid is
\* stored too.
Generate(r) ==
  /\ walk[r] # None
  /\ Show(r, total)
  /\ mc' \in {mc, [mc EXCEPT ![walk[r].want] = total]}
  /\ UNCHANGED total

-----------------------------------------------------------------------------

Arrive ==
  /\ total < MaxTotal
  /\ total' = total + 1
  /\ UNCHANGED <<mc, walk, seen>>

Evict(p) ==
  /\ mc[p] # None
  /\ mc' = [mc EXCEPT ![p] = None]
  /\ UNCHANGED <<total, walk, seen>>

Next ==
  \/ \E r \in Readers : Begin(r) \/ Hit(r) \/ Generate(r)
  \/ \E p \in DOMAIN mc : Evict(p)
  \/ Arrive

Spec == Init /\ [][Next]_vars

-----------------------------------------------------------------------------
(* Properties *)

Finished(r) == walk[r] # None /\ ~Walking(r)

\* A reader that walks from the newest page to the last one, and is never
\* shown a page that was made before the one it has come from, has seen every
\* match there was when its first page was made, although the pages move under
\* it; unless the matches fill their last page (see LastPageDropsOnlyExtras).
\* A walk that meets an older page in the cache may skip matches.
OrderedWalksMissNothing ==
  \A r \in Readers : Finished(r) /\ walk[r].ordered =>
    \/ walk[r].last % PerPage = 0
    \/ 1 .. walk[r].first \subseteq seen[r]

\* A reader whose pages are all of one total sees no match on two of them:
\* the entries that the last page shares with the page before are cut.
NothingTwice ==
  \A r \in Readers :
    LET w == walk[r] IN
    Walking(r) /\ w.quiet /\ w.want > 1 =>
      Shown(w.want, w.last) \cap seen[r] = {}

\* "We may get extra entries for last page" (cached_ops.go:130): what is cut
\* from the last page was extra, so a walk through pages of one total has seen
\* every match.
LastPageDropsOnlyExtras ==
  \A r \in Readers : Finished(r) /\ walk[r].quiet => seen[r] = 1 .. walk[r].first

=============================================================================
