------------------------------- MODULE MCFeed -------------------------------
(***************************************************************************)
(* The model-checking instance of Feed.  The search, the feed and the titles *)
(* have nothing in common but the number of the posts, so each of them is    *)
(* checked while the other two rest.                                       *)
(***************************************************************************)
EXTENDS Feed

CONSTANTS MaxFeedTotal,   \* bound on the posts of a board with a feed
          MaxTitleTotal   \* and of one where the titles are followed

SearchRests ==
  /\ \A r \in Readers : walk[r] = None
  /\ \A p \in DOMAIN mc : mc[p] = None

FeedRests ==
  /\ \A s \in Subscribers : subscription[s] = None
  /\ mcFeed = None /\ gone = {}

TitlesRest == title = <<"text">>

OneAtATime ==
  \/ FeedRests /\ TitlesRest
  \/ SearchRests /\ TitlesRest /\ total <= MaxFeedTotal
  \/ SearchRests /\ FeedRests /\ total <= MaxTitleTotal

Symmetry == Permutations(Readers) \cup Permutations(Subscribers)
=============================================================================
