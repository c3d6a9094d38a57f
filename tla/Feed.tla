-------------------------------- MODULE Feed --------------------------------
(***************************************************************************)
(* The other list that is counted from the newest post, the Atom feed of a   *)
(* board (handleBoardAtomFeed, generateBoardAtomFeed, atomfeed.go), and the  *)
(* links from a post to its thread (route_search_thread, Subject,            *)
(* parseQuery), next to the search of module SearchPages, which every post    *)
(* here matches.                                                           *)
(*                                                                         *)
(* A post that is deleted keeps its place but not its file name, so that no  *)
(* link to it can be made.                                                  *)
(***************************************************************************)
EXTENDS SearchPages, SequencesExt

CONSTANTS Subscribers,
          MaxGone,     \* bound on the posts that are deleted
          MaxTitle     \* bound on the parts of a title

ASSUME FeedAssumption == MaxGone \in Nat /\ MaxTitle \in Nat

VARIABLES title,         \* of the newest post
          gone,          \* the posts that have been deleted
          mcFeed,        \* memcached's feed, or None
          subscription   \* subscription[s]: what subscriber s has had of the feed, or None

feedVars == <<vars, title, gone, mcFeed, subscription>>

FeedInit ==
  /\ Init
  /\ title = <<"text">>
  /\ gone = {}
  /\ mcFeed = None
  /\ subscription = [s \in Subscribers |-> None]

-----------------------------------------------------------------------------
(* Titles: sequences of prefixes, spaces and, at the end, a text *)

Reply(t) == IF Head(t) = "re:" THEN t ELSE <<"re:", "space">> \o t
Forwards(t) == {<<"fw:", "space">> \o t, <<"zhuan">> \o t}

\* What follows the parts that are in S.
After(t, S) == SubSeq(t, SelectInSeq(t, LAMBDA part : part \notin S), Len(t))

\* One iteration of the outer loop.
WithoutPrefix(t, prefix) == After(t, IF Head(t) = prefix THEN {prefix, "space"} ELSE {"space"})

\* Mutant: the prefixes the other way round.
SubjectReversed(t) ==
  WithoutPrefix(WithoutPrefix(WithoutPrefix(t, "zhuan"), "fw:"), "re:")

\* subjectPrefixStrings in their order, "zhuan" for the last one.
Subject(t) == WithoutPrefix(WithoutPrefix(WithoutPrefix(t, "re:"), "fw:"), "zhuan")

\* The link to the thread, q=thread:..., as handleBbsSearch and parseQuery read it:
\* the rest of the query is an exact title, without the spaces around it.
ThreadOf(t) == [type |-> "exactTitle", title |-> After(Subject(t), {"space"})]

\* A post arrives: with a title of its own, or one made of the newest one's.
Post ==
  /\ Arrive
  /\ title' \in {<<"text">>, Reply(title)} \cup Forwards(title) /\ Len(title') <= MaxTitle
  /\ UNCHANGED <<gone, mcFeed, subscription>>

Delete(i) ==
  /\ i \notin gone /\ Cardinality(gone) < MaxGone
  /\ gone' = gone \cup {i}
  /\ UNCHANGED <<vars, title, mcFeed, subscription>>

-----------------------------------------------------------------------------
(* generateBoardAtomFeed *)

\* GetArticleList(ref, -EntryPerPage, EntryPerPage) on a board of n posts.
Newest(n) == Found(1, n)

\* Mutant: a post whose snippet cannot be had is left out.
EntriesWithSnippet(n, failing) == Newest(n) \ (gone \cup failing)

\* Convert: the posts, without those that no link can be made to, in an order that
\* nothing here depends on.  The entry of a post whose snippet cannot be had, of
\* failing, has none.
Entries(n, failing) == Newest(n) \ gone

\* The feed that is made now; or one that is not valid, which is cached, too.
FeedNow(failing, ok) ==
  [of |-> total, valid |-> ok, entries |-> IF ok THEN Entries(total, failing) ELSE {}]

\* A feed is shown to a subscriber: the first one, or another one, with
\* PerPage posts between them at most or more.
Take(s, feed) ==
  LET old == subscription[s] IN
  subscription' = [subscription EXCEPT ![s] =
    IF ~feed.valid THEN @
    ELSE IF old = None
    THEN [since |-> feed.of, last |-> feed.of, gapless |-> TRUE, seen |-> feed.entries]
    ELSE [since |-> old.since,
          last |-> IF feed.of > old.last THEN feed.of ELSE old.last,
          gapless |-> old.gapless /\ feed.of - old.last <= PerPage,
          seen |-> old.seen \cup feed.entries]]

\* cacheMgr.Get finds the feed.
FeedHit(s) ==
  /\ mcFeed # None
  /\ Take(s, mcFeed)
  /\ UNCHANGED <<vars, title, gone, mcFeed>>

\* It does not, and the feed is made; storing it may fail.
FeedMiss(s) ==
  /\ \E failing \in SUBSET Found(1, total), ok \in BOOLEAN :
       /\ Take(s, FeedNow(failing, ok))
       /\ mcFeed' \in {mcFeed, FeedNow(failing, ok)}
  /\ UNCHANGED <<vars, title, gone>>

EvictFeed ==
  /\ mcFeed # None
  /\ mcFeed' = None
  /\ UNCHANGED <<vars, title, gone, subscription>>

FeedNext ==
  \/ Post \/ EvictFeed
  \/ \E i \in 1 .. total : Delete(i)
  \/ \E s \in Subscribers : FeedHit(s) \/ FeedMiss(s)
  \/ /\ \/ \E r \in Readers : Begin(r) \/ Hit(r) \/ Generate(r)
        \/ \E p \in DOMAIN mc : Evict(p)
     /\ UNCHANGED <<title, gone, mcFeed, subscription>>

FeedSpec == FeedInit /\ [][FeedNext]_feedVars

-----------------------------------------------------------------------------
(* Properties *)

\* A subscriber that has had a feed for at most every PerPage posts has had an
\* entry for every post since the first one, except for those that are deleted
\* by now: whichever feeds came from memcached, whatever snippet could not be
\* had, and whatever other entry no link could be made for.
SubscribersMissNothing ==
  \A s \in Subscribers :
    LET had == subscription[s] IN
    had # None /\ had.gapless => had.since + 1 .. had.last \subseteq had.seen \cup gone

\* A reply is in the thread of what it replies to, however often that was
\* replied to and forwarded: both link to the same search.
ThreadsHoldTogether ==
  [][total' # total /\ title' = Reply(title) => ThreadOf(title') = ThreadOf(title)]_feedVars

=============================================================================
