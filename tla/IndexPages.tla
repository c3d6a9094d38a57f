----------------------------- MODULE IndexPages -----------------------------
(***************************************************************************)
(* The listing of a board, page by page: handleBbs (pttweb.go), the board  *)
(* cache, the page cache, NewPaging (paging.go) and generateBbsIndex       *)
(* (cached_ops.go), while posts keep coming in.                            *)
(*                                                                         *)
(* A listing is put together from two snapshots taken at different times:  *)
(* the number of posts is that of the board record (module BoardCache),    *)
(* the posts are what the list RPC finds.  The result is then kept in      *)
(* memcached, under a key that names the board and the page only, for a    *)
(* time that depends on how the first request asked.                       *)
(*                                                                         *)
(* Readers follow the links from page to page, the way people and crawlers *)
(* do.  A post is its position in the board; posts are only added, at the  *)
(* end.  cacheMgr.Get is taken by its contract (module SingleFlight): the  *)
(* answer is a live entry, or an object generated during the call.         *)
(***************************************************************************)
EXTENDS BoardCache, Paging

CONSTANTS TheBoard,        \* the board that is read
          LastPageTimeout, \* BbsIndexLastPageCacheTimeout
          PageTimeout,     \* BbsIndexCacheTimeout
          FirstPosts,      \* the posts there are at time 0
          MaxPosts,        \* bound on the number of posts
          MaxBurst         \* bound on the posts that arrive in one unit of time

ASSUME IndexPagesAssumption ==
  /\ TheBoard \in Names
  /\ LastPageTimeout \in Nat \ {0} /\ PageTimeout \in Nat /\ LastPageTimeout <= PageTimeout
  /\ FirstPosts \in 0 .. MaxPosts /\ MaxPosts \in Nat /\ MaxBurst \in Nat

VARIABLES count,   \* count[t]: the number of posts at time t
          mc,      \* mc[p]: memcached's entry for page p, or None; external
          walk,    \* walk[r]: how reader r goes through the board, or None
          seen     \* seen[r]: the posts it has seen on its walk

vars == <<boardVars, count, mc, walk, seen>>

MaxPage == PageCount(MaxPosts)

\* The page numbers of requests: 0 for none, and one that never exists.
PageNumbers == 0 .. MaxPage + 1

\* A page is [page, at, listed, expire]: its number, the times of the board
\* record and of the list RPC it is made from, and until when it is cached.
\*
\* A walk is [want, older, begun, link, ended]: the page that is wanted next
\* (0 for the last one), whether it follows PrevPage rather than NextPage, when
\* it began, how old a board record the link it follows was made from, and
\* whether it has ended ("no", "finished", "lost"), with the page that has no
\* further link or with a 404.

Init ==
  /\ BoardInit
  /\ count = [t \in Times |-> FirstPosts]
  /\ mc = [p \in PageNumbers |-> None]
  /\ walk = [r \in Requests |-> None]
  /\ seen = [r \in Requests |-> {}]

-----------------------------------------------------------------------------
(* Readers *)

\* A walk begins at "index1.html" towards newer posts, or at the last page
\* towards older ones.
Begin(r) ==
  /\ walk[r] = None
  /\ \E older \in BOOLEAN :
       walk' = [walk EXCEPT ![r] = [want |-> IF older THEN 0 ELSE 1, older |-> older,
                                    begun |-> clock, link |-> 0, ended |-> "no"]]
  /\ Lookup(r, TheBoard)
  /\ UNCHANGED <<count, mc, seen>>

Walking(r) == walk[r] # None /\ walk[r].ended = "no"

\* getBoardByName for the next page, or again after an error.
AskBoard(r) ==
  /\ Walking(r)
  /\ Lookup(r, TheBoard)
  /\ UNCHANGED <<count, mc, walk, seen>>

FetchBoard(r) ==
  /\ Read(r) \/ Fail(r) \/ Set(r)
  /\ UNCHANGED <<count, mc, walk, seen>>

-----------------------------------------------------------------------------
(* cacheMgr.Get and generateBbsIndex *)

\* GetArticleList(ref, cursor, EntryPerPage) on a board of n posts.
Listed(page, n) == {i \in 1 .. n : Cursor(page) < i /\ i <= Cursor(page) + PerPage}

\* Mutant: HasNext compares with <=.
HasLinkOneMore(older, o) ==
  IF older THEN o.page > 1 ELSE o.page <= PageCount(count[o.at])

\* PrevPage and NextPage: whether the object has the link that is followed.
HasLink(older, o) ==
  IF older THEN o.page > 1 ELSE o.page < PageCount(count[o.at])

Link(older, o) == IF older THEN o.page - 1 ELSE o.page + 1

\* The request is answered with the page: the reader follows its link.
Show(r, o) ==
  /\ pc[r] = "answered" /\ Leave(r)
  /\ seen' = [seen EXCEPT ![r] = @ \cup Listed(o.page, count[o.listed])]
  /\ walk' = IF HasLink(walk[r].older, o)
             THEN [walk EXCEPT ![r].want = Link(walk[r].older, o), ![r].link = o.at]
             ELSE [walk EXCEPT ![r].ended = "finished"]

\* The entry is still there.
Hit(r) ==
  /\ Walking(r)
  /\ mc[walk[r].want] # None
  /\ Show(r, mc[walk[r].want])
  /\ UNCHANGED <<count, mc>>

\* Page 0 stands for the last one.
PageNumber(r) == IF walk[r].want = 0 THEN PageCount(count[board[r]]) ELSE walk[r].want

\* How handleBbs chooses the timeout: "index.html" has no number, but the
\* last page can also be asked for as "index0.html".
Timeouts(want) == IF want = 0 THEN {LastPageTimeout, PageTimeout} ELSE {PageTimeout}

\* What generateBbsIndex makes of the request: the posts there are now, but
\* the number of pages and thus the links of the board record at hand.
Generated(r, timeout) ==
  [page |-> PageNumber(r), at |-> board[r], listed |-> clock, expire |-> clock + timeout]

\* A miss, an eviction or a memcached error: the page is generated.  Storing
\* it may fail, which is only logged.
Generate(r) ==
  /\ Walking(r)
  /\ pc[r] = "answered"
  /\ walk[r].want = 0 \/ IsPage(walk[r].want, count[board[r]])
  /\ \E timeout \in Timeouts(walk[r].want) :
       /\ mc' \in {mc, [mc EXCEPT ![walk[r].want] = Generated(r, timeout)]}
       /\ Show(r, Generated(r, timeout))
  /\ UNCHANGED count

\* An RPC of generateBbsIndex fails; the reader tries again.
GenerateFails(r) ==
  /\ Walking(r)
  /\ Leave(r)
  /\ UNCHANGED <<count, mc, walk, seen>>

\* paging.SetPageNo fails: the reader followed a link and gets a 404.
NotFound(r) ==
  /\ Walking(r)
  /\ pc[r] = "answered"
  /\ walk[r].want # 0 /\ ~IsPage(walk[r].want, count[board[r]])
  /\ walk' = [walk EXCEPT ![r].ended = "lost"]
  /\ Leave(r)
  /\ UNCHANGED <<count, mc, seen>>

\* The reader is done, and may come back for another walk.
End(r) ==
  /\ walk[r] # None /\ walk[r].ended # "no"
  /\ walk' = [walk EXCEPT ![r] = None]
  /\ seen' = [seen EXCEPT ![r] = {}]
  /\ UNCHANGED <<boardVars, count, mc>>

-----------------------------------------------------------------------------

\* Posts arrive as time passes, and memcached drops what has expired.  A walk
\* that has ended is over before time passes: it has nothing more to see.
Arrive ==
  /\ Tick
  /\ \A r \in Requests : walk[r] = None \/ Walking(r)
  /\ \E n \in 0 .. MaxBurst :
       /\ count[clock] + n <= MaxPosts
       /\ count' = [t \in Times |-> IF t <= clock THEN count[t] ELSE count[clock] + n]
  /\ mc' = [p \in DOMAIN mc |->
              IF mc[p] # None /\ mc[p].expire <= clock' THEN None ELSE mc[p]]
  /\ UNCHANGED <<walk, seen>>

Next ==
  \/ \E r \in Requests :
       \/ Begin(r) \/ AskBoard(r) \/ FetchBoard(r)
       \/ Hit(r) \/ Generate(r) \/ GenerateFails(r) \/ NotFound(r) \/ End(r)
  \/ Arrive

Spec == Init /\ [][Next]_vars

-----------------------------------------------------------------------------
(* Properties *)

\* How old the snapshots behind a page may be when it is shown: it may have
\* been kept for PageTimeout after a request generated it from a record that
\* a request found just before its expiry and that yet another one had fetched.
Staleness == PageTimeout + Expire + 2 * MaxRequest - 2

\* A reader that has walked through the whole board has seen every post that
\* was there Staleness before it began, whichever pages came from the cache
\* and whatever arrived meanwhile.  (Posts younger than that may be missed in
\* the middle of a walk: an old copy of a page that was not full then, next
\* to a new copy of the page after it.)
WalksMissNothing ==
  \A r \in Requests :
    walk[r] # None /\ walk[r].ended = "finished" /\ walk[r].begun >= Staleness =>
      1 .. count[walk[r].begun - Staleness] \subseteq seen[r]

\* A link that a listing shows leads to a page that existed when the record
\* the listing counts by was read, and it is dead only if that page had begun
\* within MaxRequest before: an older record has come into the board cache
\* since.
DeadLinksAreYoung ==
  \A r \in Requests :
    walk[r] # None /\ walk[r].ended = "lost" =>
      /\ walk[r].want <= PageCount(count[walk[r].link])
      /\ walk[r].link >= MaxRequest =>
           walk[r].want > PageCount(count[walk[r].link - MaxRequest])

=============================================================================
