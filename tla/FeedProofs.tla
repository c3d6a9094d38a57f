----------------------------- MODULE FeedProofs -----------------------------
(***************************************************************************)
(* Theorems about the two lists that are counted from the newest post, the  *)
(* search (SearchPages) and the feed (Feed), and about titles: for any      *)
(* number of readers and subscribers, any length of a page, any number of   *)
(* posts.                                                                  *)
(***************************************************************************)
EXTENDS Feed, SequenceTheorems, TLAPS

-----------------------------------------------------------------------------
(* What is true of a walk through the search: where it is, and which of the  *)
(* matches behind it have been seen.                                        *)

Totals == 0 .. MaxTotal

Walks ==
  [want : 1 .. MaxPage, first : Totals, last : Totals,
   ordered : BOOLEAN, quiet : BOOLEAN, ended : BOOLEAN]

\* The matches that the pages before p show when there are n of them.
Before(p, n) == n - PerPage * (p - 1)

GoodWalk(w, matches) ==
  /\ w \in Walks
  /\ ~w.ended /\ w.want > 1 =>
       /\ w.want <= PageCount(w.last)
       /\ w.quiet => \A i \in matches : i \in Nat /\ Before(w.want, w.last) < i
       /\ w.ordered =>
            /\ w.first <= w.last
            /\ \A i \in 1 .. w.first : Before(w.want, w.last) < i => i \in matches
  /\ w.ended /\ w.ordered => w.last % PerPage = 0 \/ 1 .. w.first \subseteq matches
  /\ ~w.ended /\ w.want = 1 => matches = {}

SearchInv ==
  /\ total \in Totals
  /\ DOMAIN mc = 1 .. MaxPage /\ \A p \in 1 .. MaxPage : mc[p] # None => mc[p] \in Totals
  /\ DOMAIN walk = Readers /\ DOMAIN seen = Readers
  /\ \A r \in Readers : walk[r] # None => GoodWalk(walk[r], seen[r])

-----------------------------------------------------------------------------
(* Of a feed: it has the newest posts, but for those that are deleted by now. *)

GoodFeed(f) ==
  /\ f.valid \in BOOLEAN /\ f.of \in Nat
  /\ f.valid => f.entries \subseteq Nat /\ Newest(f.of) \subseteq f.entries \cup gone

GoodSubscription(had) ==
  /\ had \in [since : Nat, last : Nat, gapless : BOOLEAN, seen : SUBSET Nat]
  /\ had.since <= had.last
  /\ had.gapless => had.since + 1 .. had.last \subseteq had.seen \cup gone

Parts == {"re:", "fw:", "zhuan", "space", "text"}

\* A title begins with a text or a prefix.
TitleOK == title \in Seq(Parts) /\ Len(title) > 0 /\ title[1] # "space"

FeedInv ==
  /\ mcFeed # None => GoodFeed(mcFeed)
  /\ DOMAIN subscription = Subscribers
  /\ \A s \in Subscribers : subscription[s] # None => GoodSubscription(subscription[s])
  /\ TitleOK

-----------------------------------------------------------------------------
(* Numbers of pages *)

\* All pages but the last one are full, and the last one is needed.
LEMMA LastPages ==
  ASSUME NEW n \in Nat
  PROVE  /\ PageCount(n) \in Nat /\ 1 <= PageCount(n)
         /\ n <= PageCount(n) * PerPage
         /\ PageCount(n) = 1 \/ (PageCount(n) - 1) * PerPage < n
         /\ n % PerPage \in Nat /\ n % PerPage < PerPage
         /\ n % PerPage # 0 => (PageCount(n) - 1) * PerPage = n - (n % PerPage)
<1> DEFINE d == n \div PerPage
           m == n % PerPage
<1>1. PerPage \in Nat /\ PerPage > 0
  BY PagingAssumption
<1>2. d \in Nat /\ m \in 0 .. PerPage - 1 /\ m = n - PerPage * d
  BY <1>1
<1>3. PageCount(n) = IF d + (IF m > 0 THEN 1 ELSE 0) = 0 THEN 1 ELSE d + (IF m > 0 THEN 1 ELSE 0)
  BY DEF PageCount
<1> SUFFICES /\ PageCount(n) \in Nat /\ 1 <= PageCount(n)
             /\ n <= PageCount(n) * PerPage
             /\ PageCount(n) = 1 \/ (PageCount(n) - 1) * PerPage < n
             /\ m \in Nat /\ m < PerPage
             /\ m # 0 => (PageCount(n) - 1) * PerPage = n - m
  OBVIOUS
<1> HIDE DEF d, m
<1>4. PerPage * d = d * PerPage /\ (d + 1) * PerPage = d * PerPage + PerPage /\ d * PerPage \in Nat
  BY <1>1, <1>2
<1>5. CASE m > 0
  <2>1. PageCount(n) = d + 1
    BY <1>2, <1>3, <1>5
  <2> QED BY <1>1, <1>2, <1>4, <1>5, <2>1
<1>6. CASE m = 0 /\ d > 0
  <2>1. PageCount(n) = d
    BY <1>2, <1>3, <1>6
  <2>2. (d - 1) * PerPage = d * PerPage - PerPage
    BY <1>1, <1>2
  <2> QED BY <1>1, <1>2, <1>4, <1>6, <2>1, <2>2
<1>7. CASE m = 0 /\ d = 0
  <2>1. PageCount(n) = 1
    BY <1>2, <1>3, <1>7
  <2> QED BY <1>1, <1>2, <1>4, <1>7, <2>1
<1> QED BY <1>2, <1>5, <1>6, <1>7

LEMMA PagesGrow ==
  ASSUME NEW m \in Nat, NEW n \in Nat, m <= n
  PROVE  PageCount(m) <= PageCount(n)
<1> DEFINE p == PageCount(m)
           q == PageCount(n)
<1>1. /\ p \in Nat /\ q \in Nat /\ 1 <= q /\ n <= q * PerPage
      /\ p = 1 \/ (p - 1) * PerPage < m
  BY LastPages
<1>2. PerPage \in Nat
  BY PagingAssumption
<1> HIDE DEF p, q
<1>3. ASSUME q < p PROVE FALSE
  <2>1. q <= p - 1 /\ p - 1 \in Nat
    BY <1>1, <1>3
  <2>2. q * PerPage <= (p - 1) * PerPage
    BY <1>1, <1>2, <2>1
  <2>3. (p - 1) * PerPage < m
    BY <1>1, <1>3
  <2>4. q * PerPage \in Nat /\ (p - 1) * PerPage \in Nat
    BY <1>1, <1>2, <2>1
  <2> QED BY <1>1, <2>2, <2>3, <2>4
<1> QED BY <1>1, <1>3 DEF p, q

\* Before a page that is not the last one there is the next page; before the last
\* one, if it is not full, there is what it shows.
LEMMA ShownPages ==
  ASSUME NEW n \in Nat, NEW k \in Nat, 1 <= k
  PROVE  /\ Before(k, n) \in Int /\ Before(k, n) <= n
         /\ Before(k + 1, n) = Before(k, n) - PerPage
         /\ k = 1 => Before(k, n) = n
         /\ k < PageCount(n) =>
              \A i : i \in Shown(k, n) <=>
                       i \in Nat /\ Before(k + 1, n) < i /\ i <= Before(k, n)
         /\ k = PageCount(n) /\ n % PerPage # 0 =>
              \A i \in Nat : 1 <= i /\ i <= Before(k, n) => i \in Shown(k, n)
         /\ \A i \in Shown(k, n) : i \in Nat /\ i <= Before(k, n)
<1> DEFINE q == PageCount(n)
           m == n % PerPage
           a == PerPage * k
<1>1. PerPage \in Nat /\ PerPage > 0
  BY PagingAssumption
<1>2. /\ q \in Nat /\ 1 <= q /\ n <= q * PerPage /\ (q = 1 \/ (q - 1) * PerPage < n)
      /\ m \in Nat /\ m < PerPage
      /\ m # 0 => (q - 1) * PerPage = n - m
  BY LastPages
<1>3. a \in Nat /\ PerPage * (k - 1) = a - PerPage /\ PerPage * ((k + 1) - 1) = a /\ PerPage <= a
  <2>1. a \in Nat /\ PerPage * (k - 1) = a - PerPage
    BY <1>1
  <2>2. (k + 1) - 1 = k
    OBVIOUS
  <2>3. PerPage * (k - 1) \in Nat
    BY <1>1
  <2> QED BY <1>1, <2>1, <2>2, <2>3
<1>4. Before(k, n) = n - a + PerPage /\ Before(k + 1, n) = n - a
  BY <1>1, <1>3 DEF Before
<1>5. k = 1 => a = PerPage
  BY <1>1
<1>6. Shown(k, n) = IF k > q THEN {}
                    ELSE IF k = q THEN {i \in Found(k, n) : i <= m}
                    ELSE Found(k, n)
  BY DEF Shown
<1>7. \A i : i \in Found(k, n) <=>
        /\ i \in Nat /\ 1 <= i /\ i <= n
        /\ IF n - a < 0 THEN i <= PerPage ELSE n - a < i /\ i <= n - a + PerPage
  BY <1>1, <1>3 DEF Found
<1>8. k < q => a < n
  <2> SUFFICES ASSUME k < q PROVE a < n
    OBVIOUS
  <2>1. k <= q - 1 /\ q - 1 \in Nat
    BY <1>2
  <2>2. k * PerPage <= (q - 1) * PerPage /\ k * PerPage = a /\ (q - 1) * PerPage \in Nat
    BY <1>1, <2>1
  <2>3. (q - 1) * PerPage < n
    BY <1>2
  <2> QED BY <1>3, <2>2, <2>3
<1>9. k = q /\ m # 0 => a = n - m + PerPage
  <2> SUFFICES ASSUME k = q, m # 0 PROVE a = n - m + PerPage
    OBVIOUS
  <2>1. (q - 1) * PerPage = n - m
    BY <1>2
  <2>2. (k - 1) * PerPage = a - PerPage
    BY <1>1
  <2> QED BY <1>1, <1>2, <1>3, <2>1, <2>2
<1> HIDE DEF q, m, a
<1>10. Before(k, n) \in Int /\ Before(k, n) <= n /\ Before(k + 1, n) = Before(k, n) - PerPage
  BY <1>1, <1>3, <1>4
<1>11. k = 1 => Before(k, n) = n
  BY <1>1, <1>4, <1>5
<1>12. k < q => \A i : i \in Shown(k, n) <=>
                         i \in Nat /\ Before(k + 1, n) < i /\ i <= Before(k, n)
  BY <1>1, <1>2, <1>3, <1>4, <1>6, <1>7, <1>8
<1>13. k = q /\ m # 0 => \A i \in Nat : 1 <= i /\ i <= Before(k, n) => i \in Shown(k, n)
  BY <1>1, <1>2, <1>3, <1>4, <1>6, <1>7, <1>9
<1>14. \A i \in Shown(k, n) : i \in Nat /\ i <= Before(k, n)
  <2> SUFFICES ASSUME NEW i \in Shown(k, n) PROVE i \in Nat /\ i <= Before(k, n)
    OBVIOUS
  <2>1. CASE k < q
    BY <1>12, <2>1
  <2>2. CASE k = q
    <3>1. i \in Nat /\ 1 <= i /\ i <= m
      BY <1>2, <1>6, <1>7, <2>2
    <3> QED BY <1>1, <1>2, <1>3, <1>4, <1>9, <2>2, <3>1
  <2>3. CASE k > q
    BY <1>6, <2>3
  <2> QED BY <1>2, <2>1, <2>2, <2>3
<1> QED BY <1>10, <1>11, <1>12, <1>13, <1>14 DEF q, m

-----------------------------------------------------------------------------
(* The search *)

\* A page of the total n is shown on a walk.
LEMMA SearchWalk ==
  ASSUME NEW n \in Totals, NEW w, NEW matches, GoodWalk(w, matches), ~w.ended
  PROVE  LET more == HasPrev(w.want, n) IN
         GoodWalk([want    |-> IF more THEN w.want + 1 ELSE w.want,
                   first   |-> IF w.want = 1 THEN n ELSE w.first,
                   last    |-> n,
                   ordered |-> w.ordered /\ (w.want = 1 \/ w.last <= n),
                   quiet   |-> w.quiet /\ (w.want = 1 \/ w.last = n),
                   ended   |-> ~more],
                  matches \cup Shown(w.want, n))
<1> DEFINE k == w.want
           more == HasPrev(k, n)
           ordered == w.ordered /\ (k = 1 \/ w.last <= n)
           quiet == w.quiet /\ (k = 1 \/ w.last = n)
           first == IF k = 1 THEN n ELSE w.first
           now == matches \cup Shown(k, n)
           x == [want |-> IF more THEN k + 1 ELSE k, first |-> first, last |-> n,
                 ordered |-> ordered, quiet |-> quiet, ended |-> ~more]
<1>1. /\ w \in Walks /\ n \in Nat /\ n <= MaxTotal /\ MaxTotal \in Nat
      /\ PerPage \in Nat /\ PerPage > 0
  BY SearchAssumption, PagingAssumption DEF GoodWalk, Totals
<1>2. /\ PageCount(n) \in Nat /\ 1 <= PageCount(n) /\ PageCount(n) <= MaxPage /\ MaxPage \in Nat
  BY <1>1, LastPages, PagesGrow DEF MaxPage
<1>3. /\ k \in Nat /\ 1 <= k /\ k <= MaxPage /\ k \in 1 .. MaxPage
      /\ w.first \in Totals /\ w.first \in Nat /\ w.last \in Totals /\ w.last \in Nat
      /\ w.ordered \in BOOLEAN /\ w.quiet \in BOOLEAN
  BY <1>1, <1>2 DEF Walks, Totals
<1>4. /\ Before(k, n) \in Int /\ Before(k, n) <= n
      /\ Before(k + 1, n) = Before(k, n) - PerPage
      /\ k = 1 => Before(k, n) = n
      /\ k < PageCount(n) =>
           \A i : i \in Shown(k, n) <=> i \in Nat /\ Before(k + 1, n) < i /\ i <= Before(k, n)
      /\ k = PageCount(n) /\ n % PerPage # 0 =>
           \A i \in Nat : 1 <= i /\ i <= Before(k, n) => i \in Shown(k, n)
  BY <1>1, <1>3, ShownPages
<1>5. /\ k = 1 => matches = {}
      /\ k > 1 /\ w.quiet => \A i \in matches : i \in Nat /\ Before(k, w.last) < i
      /\ k > 1 => k <= PageCount(w.last)
      /\ k > 1 /\ w.ordered =>
            /\ w.first <= w.last
            /\ \A i \in 1 .. w.first : Before(k, w.last) < i => i \in matches
  BY <1>3 DEF GoodWalk
\* What lies behind the page has been seen.
<1>6. ASSUME ordered, NEW i \in 1 .. first, Before(k, n) < i PROVE i \in matches
  <2>1. CASE k = 1
    BY <1>1, <1>4, <1>6, <2>1
  <2>2. CASE k # 1
    <3>1. w.last <= n /\ w.ordered /\ i \in 1 .. w.first /\ k > 1
      BY <1>3, <1>6, <2>2
    <3>2. Before(k, w.last) <= Before(k, n) /\ Before(k, w.last) \in Int
      <4>1. PerPage * (k - 1) \in Nat
        BY <1>1, <1>3
      <4> QED BY <1>1, <1>3, <3>1, <4>1 DEF Before
    <3>3. Before(k, w.last) < i
      BY <1>4, <1>6, <3>2
    <3> QED BY <1>5, <3>1, <3>3
  <2> QED BY <2>1, <2>2
<1>7. first \in Totals /\ first \in Nat /\ (ordered => first <= n)
  <2>1. ordered /\ k # 1 => first <= n
    BY <1>1, <1>3, <1>5
  <2> QED BY <1>1, <1>3, <2>1
<1>8. ordered \in BOOLEAN /\ quiet \in BOOLEAN /\ more \in BOOLEAN /\ (more <=> k < PageCount(n))
  BY DEF HasPrev
<1> HIDE DEF more, first
<1>9. x \in Walks
  <2>1. (IF more THEN k + 1 ELSE k) \in 1 .. MaxPage
    BY <1>2, <1>3, <1>8
  <2> QED BY <1>7, <1>8, <2>1 DEF Walks
<1>10. CASE more
  <2>1. ASSUME quiet, NEW i \in now PROVE i \in Nat /\ Before(k + 1, n) < i
    <3>1. CASE i \in Shown(k, n)
      BY <1>4, <1>8, <1>10, <3>1
    <3>2. CASE i \in matches
      <4>1. k > 1 /\ w.quiet /\ w.last = n
        BY <1>3, <1>5, <2>1, <3>2
      <4>2. i \in Nat /\ Before(k, n) < i
        BY <1>5, <3>2, <4>1
      <4> QED BY <1>1, <1>4, <4>2
    <3> QED BY <2>1, <3>1, <3>2
  <2>2. ASSUME ordered, NEW i \in 1 .. first, Before(k + 1, n) < i PROVE i \in now
    <3>1. CASE i <= Before(k, n)
      BY <1>4, <1>7, <1>8, <1>10, <2>2, <3>1
    <3>2. CASE ~(i <= Before(k, n))
      BY <1>4, <1>6, <1>7, <2>2, <3>2
    <3> QED BY <3>1, <3>2
  <2>3. k + 1 > 1 /\ k + 1 # 1 /\ k + 1 <= PageCount(n)
    BY <1>2, <1>3, <1>8, <1>10
  <2>4. x = [want |-> k + 1, first |-> first, last |-> n,
             ordered |-> ordered, quiet |-> quiet, ended |-> FALSE]
    BY <1>10
  <2>5. GoodWalk(x, now)
    BY <1>7, <1>9, <2>1, <2>2, <2>3, <2>4 DEF GoodWalk
  <2> QED BY <2>5 DEF more, first
<1>11. CASE ~more
  <2>1. ASSUME ordered, n % PerPage # 0, NEW i \in 1 .. first PROVE i \in now
    <3>1. k = PageCount(n)
      <4>1. CASE k = 1
        BY <1>2, <1>3, <1>8, <1>11, <4>1
      <4>2. CASE k # 1
        <5>1. w.last <= n /\ k <= PageCount(w.last)
          BY <1>3, <1>5, <2>1, <4>2
        <5>2. PageCount(w.last) <= PageCount(n) /\ PageCount(w.last) \in Nat
          BY <1>1, <1>3, <5>1, PagesGrow, LastPages
        <5> QED BY <1>2, <1>3, <1>8, <1>11, <5>1, <5>2
      <4> QED BY <4>1, <4>2
    <3>2. CASE i <= Before(k, n)
      BY <1>4, <1>7, <2>1, <3>1, <3>2
    <3>3. CASE ~(i <= Before(k, n))
      BY <1>4, <1>6, <1>7, <2>1, <3>3
    <3> QED BY <3>2, <3>3
  <2>2. x = [want |-> k, first |-> first, last |-> n,
             ordered |-> ordered, quiet |-> quiet, ended |-> TRUE]
    BY <1>11
  <2>3. GoodWalk(x, now)
    BY <1>9, <2>1, <2>2 DEF GoodWalk
  <2> QED BY <2>3 DEF more, first
<1> QED BY <1>10, <1>11

LEMMA Shows ==
  ASSUME SearchInv, NEW r \in Readers, NEW n \in Totals, walk[r] # None, Show(r, n),
         total' \in Totals,
         mc' = mc \/ \E p : mc' = [mc EXCEPT ![p] = n]
  PROVE  SearchInv'
<1> DEFINE w == walk[r]
           x == walk'[r]
<1>1. /\ ~w.ended /\ GoodWalk(w, seen[r])
      /\ DOMAIN walk = Readers /\ DOMAIN seen = Readers
  BY DEF SearchInv, Show, Walking
<1>2. /\ DOMAIN walk' = Readers /\ DOMAIN seen' = Readers
      /\ \A s \in Readers \ {r} : walk'[s] = walk[s] /\ seen'[s] = seen[s]
      /\ seen'[r] = seen[r] \cup Shown(w.want, n)
      /\ x = [want    |-> IF HasPrev(w.want, n) THEN w.want + 1 ELSE w.want,
              first   |-> IF w.want = 1 THEN n ELSE w.first,
              last    |-> n,
              ordered |-> w.ordered /\ (w.want = 1 \/ w.last <= n),
              quiet   |-> w.quiet /\ (w.want = 1 \/ w.last = n),
              ended   |-> ~HasPrev(w.want, n)]
  BY <1>1 DEF Show
<1>3. GoodWalk(x, seen'[r])
  BY <1>1, <1>2, SearchWalk
<1>4. PICK now : now = walk'
  OBVIOUS
<1>5. PICK had : had = seen'
  OBVIOUS
<1>6. \A s \in Readers : now[s] # None => GoodWalk(now[s], had[s])
  <2> SUFFICES ASSUME NEW s \in Readers, now[s] # None PROVE GoodWalk(now[s], had[s])
    OBVIOUS
  <2>1. CASE s = r
    BY <1>3, <1>4, <1>5, <2>1
  <2>2. CASE s # r
    BY <1>2, <1>4, <1>5, <2>2 DEF SearchInv
  <2> QED BY <2>1, <2>2
<1>7. DOMAIN mc' = 1 .. MaxPage /\ \A p \in 1 .. MaxPage : mc'[p] # None => mc'[p] \in Totals
  BY DEF SearchInv
<1>8. \A s \in Readers : walk'[s] # None => GoodWalk(walk'[s], seen'[s])
  BY <1>4, <1>5, <1>6
<1> QED BY <1>2, <1>7, <1>8 DEF SearchInv, GoodWalk, Walks, Totals, Before

LEMMA SearchInit == Init => SearchInv
<1> SUFFICES ASSUME Init PROVE SearchInv
  OBVIOUS
<1> QED BY SearchAssumption DEF Init, SearchInv, Totals

LEMMA SearchStep == SearchInv /\ [Next]_vars => SearchInv'
<1> SUFFICES ASSUME SearchInv, [Next]_vars PROVE SearchInv'
  OBVIOUS
<1>1. ASSUME NEW r \in Readers, Begin(r) PROVE SearchInv'
  <2>1. PICK w : w = [want |-> 1, first |-> 0, last |-> 0,
                      ordered |-> TRUE, quiet |-> TRUE, ended |-> FALSE]
    OBVIOUS
  <2>2. GoodWalk(w, {})
    <3>1. MaxPage \in Nat /\ 1 <= MaxPage /\ MaxTotal \in Nat
      BY SearchAssumption, LastPages DEF MaxPage
    <3> QED BY <2>1, <3>1 DEF GoodWalk, Walks, Totals
  <2>3. /\ walk' = [walk EXCEPT ![r] = w] /\ seen' = [seen EXCEPT ![r] = {}]
        /\ total' = total /\ mc' = mc
    BY <1>1, <2>1 DEF Begin
  <2>4. \A s \in Readers : walk'[s] # None => GoodWalk(walk'[s], seen'[s])
    <3>1. PICK now : now = walk'
      OBVIOUS
    <3>2. PICK had : had = seen'
      OBVIOUS
    <3>3. \A s \in Readers : now[s] # None => GoodWalk(now[s], had[s])
      BY <2>2, <2>3, <3>1, <3>2 DEF SearchInv
    <3> QED BY <3>1, <3>2, <3>3
  <2> QED BY <2>3, <2>4 DEF SearchInv, GoodWalk, Walks, Totals, Before
<1>2. ASSUME NEW r \in Readers, Hit(r) PROVE SearchInv'
  <2>1. PICK n : n = mc[walk[r].want]
    OBVIOUS
  <2>2. walk[r] # None /\ n # None /\ Show(r, n) /\ total' = total /\ mc' = mc
    BY <1>2, <2>1 DEF Hit
  <2>3. walk[r].want \in 1 .. MaxPage
    BY <2>2 DEF SearchInv, GoodWalk, Walks
  <2>4. n \in Totals
    BY <2>1, <2>2, <2>3 DEF SearchInv
  <2> QED BY <2>2, <2>4, Shows DEF SearchInv
<1>3. ASSUME NEW r \in Readers, Generate(r) PROVE SearchInv'
  <2>1. PICK n : n = total
    OBVIOUS
  <2>2. /\ walk[r] # None /\ Show(r, n) /\ total' = total
        /\ mc' = mc \/ mc' = [mc EXCEPT ![walk[r].want] = n]
    BY <1>3, <2>1 DEF Generate
  <2>3. n \in Totals /\ total' \in Totals
    BY <2>1, <2>2 DEF SearchInv
  <2>4. mc' = mc \/ \E p : mc' = [mc EXCEPT ![p] = n]
    BY <2>2
  <2> QED BY <2>2, <2>3, <2>4, Shows
<1>4. ASSUME NEW p \in DOMAIN mc, Evict(p) PROVE SearchInv'
  BY <1>4 DEF Evict, SearchInv, GoodWalk, Walks, Totals, Before
<1>5. ASSUME Arrive PROVE SearchInv'
  BY <1>5, SearchAssumption DEF Arrive, SearchInv, GoodWalk, Walks, Totals, Before
<1>6. ASSUME UNCHANGED vars PROVE SearchInv'
  BY <1>6 DEF vars, SearchInv, GoodWalk, Walks, Totals, Before
<1> QED BY <1>1, <1>2, <1>3, <1>4, <1>5, <1>6 DEF Next

\* The matches behind a page are where a walk of the search expects them, at
\* every moment.
THEOREM SearchInvariant == Spec => []SearchInv
<1> QED BY SearchInit, SearchStep, PTL DEF Spec

LEMMA WalksAreComplete == SearchInv => OrderedWalksMissNothing
BY DEF SearchInv, GoodWalk, OrderedWalksMissNothing, Finished, Walking

LEMMA PagesAreDisjoint == SearchInv => NothingTwice
<1> SUFFICES ASSUME SearchInv, NEW r \in Readers,
                    Walking(r), walk[r].quiet, walk[r].want > 1,
                    NEW i \in Shown(walk[r].want, walk[r].last), i \in seen[r]
             PROVE  FALSE
  BY DEF NothingTwice
<1> DEFINE w == walk[r]
<1>1. /\ w \in Walks /\ \A j \in seen[r] : j \in Nat /\ Before(w.want, w.last) < j
  BY DEF SearchInv, GoodWalk, Walking
<1>2. w.want \in Nat /\ 1 <= w.want /\ w.last \in Nat
  BY <1>1, SearchAssumption DEF Walks, Totals
<1>3. Before(w.want, w.last) \in Int /\ i \in Nat /\ i <= Before(w.want, w.last)
  BY <1>2, ShownPages
<1> QED BY <1>1, <1>3

\* OrderedWalksMissNothing of every search: however many readers walk, whatever
\* stays in memcached and for how long, a walk that meets no page older than the
\* one before has seen every match of its first page's total (generateBbsSearch).
THEOREM OrderedWalksAreComplete == Spec => []OrderedWalksMissNothing
BY SearchInvariant, WalksAreComplete, PTL

\* NothingTwice of every search: pages of one total share no match, the last
\* page and the one before it included (articles[:n] in generateBbsSearch).
THEOREM SearchPagesAreDisjoint == Spec => []NothingTwice
BY SearchInvariant, PagesAreDisjoint, PTL

-----------------------------------------------------------------------------
(* The feed *)

LEMMA ContainsSearch ==
  /\ FeedInit => Init
  /\ [FeedNext]_feedVars => [Next]_vars
<1>1. FeedInit => Init
  BY DEF FeedInit
<1>2. ASSUME [FeedNext]_feedVars PROVE [Next]_vars
  <2>1. CASE Post
    BY <2>1 DEF Post, Next
  <2>2. CASE EvictFeed
    BY <2>2 DEF EvictFeed
  <2>3. CASE \E i \in 1 .. total : Delete(i)
    BY <2>3 DEF Delete
  <2>4. CASE \E s \in Subscribers : FeedHit(s) \/ FeedMiss(s)
    BY <2>4 DEF FeedHit, FeedMiss
  <2>5. CASE \/ \E r \in Readers : Begin(r) \/ Hit(r) \/ Generate(r)
             \/ \E p \in DOMAIN mc : Evict(p)
    BY <2>5 DEF Next
  <2>6. CASE UNCHANGED feedVars
    BY <2>6 DEF feedVars
  <2> QED BY <1>2, <2>1, <2>2, <2>3, <2>4, <2>5, <2>6 DEF FeedNext
<1> QED BY <1>1, <1>2

\* Next to the feed, the search behaves as it does alone.
THEOREM FeedContainsTheSearch == FeedSpec => Spec
<1> QED BY ContainsSearch, PTL DEF FeedSpec, Spec

\* What is between two feeds that are close enough is in the newer one.
LEMMA NewestPosts ==
  ASSUME NEW n \in Nat, NEW m \in Nat, n - m <= PerPage
  PROVE  m + 1 .. n \subseteq Newest(n) /\ Newest(n) \subseteq Nat
<1>1. PerPage \in Nat /\ PerPage > 0 /\ PerPage * 1 = PerPage
  BY PagingAssumption
<1> QED BY <1>1 DEF Newest, Found

LEMMA Takes ==
  ASSUME FeedInv, NEW s \in Subscribers, NEW feed, GoodFeed(feed), Take(s, feed)
  PROVE  /\ DOMAIN subscription' = Subscribers
         /\ \A t \in Subscribers : subscription'[t] # None => GoodSubscription(subscription'[t])
<1> DEFINE old == subscription[s]
           first == [since |-> feed.of, last |-> feed.of, gapless |-> TRUE, seen |-> feed.entries]
           more == [since |-> old.since,
                    last |-> IF feed.of > old.last THEN feed.of ELSE old.last,
                    gapless |-> old.gapless /\ feed.of - old.last <= PerPage,
                    seen |-> old.seen \cup feed.entries]
<1>1. PICK new : new = IF ~feed.valid THEN old ELSE IF old = None THEN first ELSE more
  OBVIOUS
<1>2. DOMAIN subscription = Subscribers /\ (old # None => GoodSubscription(old))
  BY DEF FeedInv
<1>3. subscription' = [subscription EXCEPT ![s] = new]
  BY <1>1 DEF Take
<1>4. ASSUME new # None PROVE GoodSubscription(new)
  <2>1. CASE ~feed.valid
    BY <1>1, <1>2, <1>4, <2>1
  <2>2. CASE feed.valid /\ old = None
    <3>1. new = first /\ feed.of \in Nat /\ feed.entries \subseteq Nat
      BY <1>1, <2>2 DEF GoodFeed
    <3> QED BY <3>1 DEF GoodSubscription
  <2>3. CASE feed.valid /\ old # None
    <3>1. /\ new = more /\ feed.of \in Nat /\ feed.entries \subseteq Nat
          /\ Newest(feed.of) \subseteq feed.entries \cup gone
      BY <1>1, <2>3 DEF GoodFeed
    <3>2. /\ old.since \in Nat /\ old.last \in Nat /\ old.since <= old.last
          /\ old.gapless \in BOOLEAN /\ old.seen \in SUBSET Nat
          /\ old.gapless => old.since + 1 .. old.last \subseteq old.seen \cup gone
      BY <1>2, <2>3 DEF GoodSubscription
    <3>3. /\ more \in [since : Nat, last : Nat, gapless : BOOLEAN, seen : SUBSET Nat]
          /\ more.since <= more.last
      BY <3>1, <3>2
    <3>4. ASSUME more.gapless, NEW i \in more.since + 1 .. more.last
          PROVE  i \in more.seen \cup gone
      <4>1. more.last = IF feed.of > old.last THEN feed.of ELSE old.last
        OBVIOUS
      <4>2. i \in Int /\ old.since + 1 <= i /\ i <= more.last /\ more.last \in Nat
        BY <3>1, <3>2, <3>4, <4>1
      <4>3. CASE i <= old.last
        BY <3>2, <3>4, <4>2, <4>3
      <4>4. CASE ~(i <= old.last)
        <5>1. i \in old.last + 1 .. feed.of
          BY <3>1, <3>2, <4>1, <4>2, <4>4
        <5>2. feed.of - old.last <= PerPage
          BY <3>4
        <5> QED BY <3>1, <3>2, <5>1, <5>2, NewestPosts
      <4> QED BY <4>3, <4>4
    <3> QED BY <3>1, <3>3, <3>4 DEF GoodSubscription
  <2> QED BY <2>1, <2>2, <2>3
<1>5. PICK now : now = subscription'
  OBVIOUS
<1>6. \A t \in Subscribers : now[t] # None => GoodSubscription(now[t])
  BY <1>2, <1>3, <1>4, <1>5 DEF FeedInv
<1> QED BY <1>2, <1>3, <1>5, <1>6

\* The feed that is made has every one of the newest posts that a link can be
\* made to, whichever of their snippets cannot be had.
LEMMA MadeFeed ==
  ASSUME total \in Nat, NEW failing, NEW ok \in BOOLEAN
  PROVE  GoodFeed(FeedNow(failing, ok))
<1>1. Newest(total) \subseteq Nat
  BY DEF Newest, Found
<1> QED BY <1>1 DEF GoodFeed, FeedNow, Entries

\* A text in front of a title.
LEMMA Fronted ==
  ASSUME NEW t \in Seq(Parts), NEW a \in Seq(Parts)
  PROVE  /\ a \o t \in Seq(Parts) /\ Len(a \o t) = Len(a) + Len(t)
         /\ \A i \in 1 .. Len(a) : (a \o t)[i] = a[i]
         /\ \A i \in 1 .. Len(t) : (a \o t)[i + Len(a)] = t[i]
OBVIOUS

LEMMA PostedTitles ==
  ASSUME NEW t \in Seq(Parts), Len(t) > 0, t[1] # "space",
         NEW u \in {<<"text">>, Reply(t)} \cup Forwards(t)
  PROVE  u \in Seq(Parts) /\ Len(u) > 0 /\ u[1] # "space"
<1>1. CASE u = t
  BY <1>1
<1>2. CASE u = <<"text">>
  BY <1>2 DEF Parts
<1>3. ASSUME NEW a \in Seq(Parts), Len(a) > 0, a[1] # "space", u = a \o t
      PROVE  u \in Seq(Parts) /\ Len(u) > 0 /\ u[1] # "space"
  <2>1. 1 \in 1 .. Len(a) /\ Len(a) \in Nat /\ Len(t) \in Nat
    BY <1>3
  <2> QED BY <1>3, <2>1, Fronted
<1>4. CASE u = <<"re:", "space">> \o t \/ u = <<"fw:", "space">> \o t \/ u = <<"zhuan">> \o t
  <2>1. /\ <<"re:", "space">> \in Seq(Parts) /\ <<"fw:", "space">> \in Seq(Parts)
        /\ <<"zhuan">> \in Seq(Parts)
    BY DEF Parts
  <2>2. CASE u = <<"re:", "space">> \o t
    BY <1>3, <2>1, <2>2
  <2>3. CASE u = <<"fw:", "space">> \o t
    BY <1>3, <2>1, <2>3
  <2>4. CASE u = <<"zhuan">> \o t
    BY <1>3, <2>1, <2>4
  <2> QED BY <1>4, <2>2, <2>3, <2>4
<1> QED BY <1>1, <1>2, <1>4 DEF Reply, Forwards

LEMMA FeedStep == SearchInv /\ FeedInv /\ [FeedNext]_feedVars => FeedInv'
<1> SUFFICES ASSUME SearchInv, FeedInv, [FeedNext]_feedVars PROVE FeedInv'
  OBVIOUS
<1> USE DEF GoodFeed, GoodSubscription, Newest, Found
<1>1. CASE Post
  <2>1. TitleOK'
    BY <1>1, PostedTitles DEF Post, FeedInv, TitleOK
  <2> QED BY <1>1, <2>1 DEF Post, FeedInv
<1>2. CASE EvictFeed
  BY <1>2 DEF EvictFeed, FeedInv, TitleOK
<1>3. CASE \E i \in 1 .. total : Delete(i)
  BY <1>3 DEF Delete, FeedInv, TitleOK
<1>4. ASSUME NEW s \in Subscribers, FeedHit(s) PROVE FeedInv'
  <2>1. mcFeed # None /\ GoodFeed(mcFeed) /\ Take(s, mcFeed) /\ UNCHANGED <<gone, mcFeed, title>>
    BY <1>4 DEF FeedHit, FeedInv
  <2> QED BY <2>1, Takes DEF FeedInv, TitleOK
<1>5. ASSUME NEW s \in Subscribers, FeedMiss(s) PROVE FeedInv'
  <2>1. PICK failing \in SUBSET Found(1, total), ok \in BOOLEAN :
          Take(s, FeedNow(failing, ok)) /\ mcFeed' \in {mcFeed, FeedNow(failing, ok)}
    BY <1>5 DEF FeedMiss
  <2>2. UNCHANGED <<gone, title>>
    BY <1>5 DEF FeedMiss
  <2>3. PICK feed : feed = FeedNow(failing, ok)
    OBVIOUS
  <2>4. GoodFeed(feed)
    BY <2>3, MadeFeed DEF SearchInv, Totals
  <2>5. mcFeed' # None => GoodFeed(mcFeed')
    BY <2>1, <2>3, <2>4 DEF FeedInv
  <2> QED BY <2>1, <2>2, <2>3, <2>4, <2>5, Takes DEF FeedInv, TitleOK
<1>6. CASE UNCHANGED <<title, gone, mcFeed, subscription>>
  BY <1>6 DEF FeedInv, TitleOK
<1> QED BY <1>1, <1>2, <1>3, <1>4, <1>5, <1>6 DEF FeedNext, feedVars

THEOREM FeedInvariant == FeedSpec => [](SearchInv /\ FeedInv)
<1>1. FeedInit => FeedInv
  <2> SUFFICES ASSUME FeedInit PROVE FeedInv
    OBVIOUS
  <2>1. TitleOK
    <3>1. <<"text">> \in Seq(Parts) /\ Len(<<"text">>) > 0 /\ <<"text">>[1] # "space"
      BY DEF Parts
    <3> QED BY <3>1 DEF FeedInit, TitleOK
  <2> QED BY <2>1 DEF FeedInit, FeedInv
<1> QED BY <1>1, FeedContainsTheSearch, SearchInit, SearchStep, ContainsSearch, FeedStep, PTL
        DEF FeedSpec

\* SubscribersMissNothing of every feed: however many subscribers there are and
\* whichever feeds are cached, nothing between two feeds that are at most PerPage
\* posts apart is lost but what was deleted (generateBoardAtomFeed).
THEOREM SubscribersAreUpToDate == FeedSpec => []SubscribersMissNothing
<1>1. FeedInv => SubscribersMissNothing
  BY DEF FeedInv, GoodSubscription, SubscribersMissNothing
<1> QED BY <1>1, FeedInvariant, PTL

-----------------------------------------------------------------------------
(* Titles *)

\* The parts before the n-th are in S and that one is not.
LEMMA Rest ==
  ASSUME NEW t \in Seq(Parts), NEW S, NEW n \in 1 .. Len(t),
         \A i \in 1 .. Len(t) : i < n => t[i] \in S, t[n] \notin S
  PROVE  After(t, S) = SubSeq(t, n, Len(t))
<1> DEFINE I == {i \in 1 .. Len(t) : t[i] \notin S}
<1>1. n \in I /\ \A i \in I : n <= i
  OBVIOUS
<1>2. I \subseteq Nat
  OBVIOUS
<1>3. Min(I) = n
  BY <1>1, <1>2 DEF Min
<1>4. I # {}
  BY <1>1
<1>5. SelectInSeq(t, LAMBDA part : part \notin S) = n
  BY <1>3, <1>4 DEF SelectInSeq
<1> QED BY <1>5 DEF After

LEMMA RepliesHaveTheSameSubject ==
  ASSUME NEW t \in Seq(Parts), Len(t) > 0, t[1] # "space"
  PROVE  Subject(Reply(t)) = Subject(t)
<1>1. Head(t) = t[1]
  OBVIOUS
<1>2. CASE t[1] = "re:"
  BY <1>1, <1>2 DEF Reply
<1>3. CASE t[1] # "re:"
  <2>1. PICK a : a = <<"re:", "space">>
    OBVIOUS
  <2>2. PICK u : u = a \o t
    OBVIOUS
  <2>3. a \in Seq(Parts) /\ Len(a) = 2 /\ a[1] = "re:" /\ a[2] = "space"
    BY <2>1 DEF Parts
  <2>4. Reply(t) = u
    BY <1>1, <1>3, <2>1, <2>2 DEF Reply
  <2>5. /\ u \in Seq(Parts) /\ Len(u) = 2 + Len(t)
        /\ \A i \in 1 .. 2 : u[i] = a[i]
        /\ \A i \in 1 .. Len(t) : u[i + 2] = t[i]
    <3>1. /\ a \o t \in Seq(Parts) /\ Len(a \o t) = Len(a) + Len(t)
          /\ \A i \in 1 .. Len(a) : (a \o t)[i] = a[i]
          /\ \A i \in 1 .. Len(t) : (a \o t)[i + Len(a)] = t[i]
      BY <2>3, Fronted
    <3> QED BY <2>2, <2>3, <3>1
  <2>6. Len(t) \in Nat /\ 3 \in 1 .. Len(u) /\ u[1] = "re:" /\ u[2] = "space" /\ u[3] = t[1]
    <3>1. 1 \in 1 .. Len(t) /\ Len(t) \in Nat
      OBVIOUS
    <3>2. u[1 + 2] = t[1] /\ u[1] = a[1] /\ u[2] = a[2]
      BY <2>5, <3>1
    <3> QED BY <2>3, <2>5, <3>1, <3>2
  <2>7. SubSeq(u, 3, Len(u)) = t
    <3>1. PICK v : v = SubSeq(u, 3, Len(u))
      OBVIOUS
    <3>2. v \in Seq(Parts) /\ Len(v) = Len(t) /\ \A i \in 1 .. Len(t) : v[i] = u[i + 2]
      BY <2>5, <2>6, <3>1
    <3>3. \A i \in 1 .. Len(t) : v[i] = t[i]
      BY <2>5, <3>2
    <3> QED BY <3>1, <3>2, <3>3, SeqEqual
  <2>8. After(u, {"re:", "space"}) = SubSeq(u, 3, Len(u))
    <3>1. \A i \in 1 .. Len(u) : i < 3 => u[i] \in {"re:", "space"}
      BY <2>5, <2>6
    <3>2. u[3] \notin {"re:", "space"}
      BY <1>3, <2>6
    <3> QED BY <2>5, <2>6, <3>1, <3>2, Rest
  <2>9. After(t, {"space"}) = t
    <3>1. 1 \in 1 .. Len(t) /\ \A i \in 1 .. Len(t) : i < 1 => t[i] \in {"space"}
      OBVIOUS
    <3>2. t[1] \notin {"space"}
      OBVIOUS
    <3>3. After(t, {"space"}) = SubSeq(t, 1, Len(t))
      BY <3>1, <3>2, Rest
    <3> QED BY <3>3
  <2>10. Head(u) = "re:"
    BY <2>5, <2>6
  <2>11. WithoutPrefix(u, "re:") = t /\ WithoutPrefix(t, "re:") = t
    BY <1>1, <1>3, <2>7, <2>8, <2>9, <2>10 DEF WithoutPrefix
  <2> QED BY <2>4, <2>11 DEF Subject
<1> QED BY <1>2, <1>3

\* ThreadsHoldTogether of titles of any length: a reply, with or without a
\* prefix of its own, links to the same search as what it replies to (Subject).
THEOREM RepliesAreInTheThread == FeedSpec => ThreadsHoldTogether
<1>1. FeedInv => (total' # total /\ title' = Reply(title) => ThreadOf(title') = ThreadOf(title))
  BY RepliesHaveTheSameSubject DEF FeedInv, TitleOK, ThreadOf
<1> QED BY <1>1, FeedInvariant, PTL DEF ThreadsHoldTogether

=============================================================================
