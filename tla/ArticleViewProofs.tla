------------------------- MODULE ArticleViewProofs --------------------------
(***************************************************************************)
(* Theorems about ArticleView for any number of viewers, any lengths of     *)
(* heads, tails, lines and files, and any number of edits and cached parts. *)
(* ViewInv, that whatever is kept somewhere (in generateArticle, in          *)
(* memcached, on a screen) was once read from the file and joined where a    *)
(* line begins, is inductive.                                               *)
(***************************************************************************)
EXTENDS ArticleView, TLAPS

-----------------------------------------------------------------------------
(* Where lines begin *)

LEMMA WholeLines ==
  ASSUME NEW n \in Nat, n % Line = 0
  PROVE  \E k \in Nat : n = k * Line
<1>1. Line \in Nat /\ Line > 0
  BY ArticleAssumption
<1>2. n \div Line \in Nat
  BY <1>1
<1>3. n = Line * (n \div Line)
  BY <1>1
<1>4. n = (n \div Line) * Line
  BY <1>1, <1>2, <1>3
<1> QED BY <1>2, <1>4

LEMMA LinesAreWhole ==
  ASSUME NEW k \in Nat
  PROVE  (k * Line) % Line = 0
BY ArticleAssumption

LEMMA LineAfterLines ==
  ASSUME NEW n \in Nat, n % Line = 0
  PROVE  (n + Line) % Line = 0
<1>1. PICK k \in Nat : n = k * Line
  BY WholeLines
<1>2. n + Line = (k + 1) * Line
  BY <1>1, ArticleAssumption
<1> QED BY <1>2, LinesAreWhole

LEMMA EndOfLines ==
  ASSUME NEW n \in Nat
  PROVE  /\ LineEnd(n) \in Nat /\ LineEnd(n) <= n
         /\ LineEnd(n) % Line = 0
         /\ n % Line = 0 => LineEnd(n) = n
<1>1. Line \in Nat /\ Line > 0
  BY ArticleAssumption
<1>2. n \div Line \in Nat /\ n % Line \in Nat
  BY <1>1
<1>3. n % Line = n - Line * (n \div Line)
  BY <1>1
<1>4. LineEnd(n) = (n \div Line) * Line
  BY <1>1, <1>2, <1>3 DEF LineEnd
<1>5. LineEnd(n) \in Nat /\ LineEnd(n) <= n
  BY <1>1, <1>2, <1>4 DEF LineEnd
<1>6. LineEnd(n) % Line = 0
  BY <1>2, <1>4, LinesAreWhole
<1>7. n % Line = 0 => LineEnd(n) = n
  BY DEF LineEnd
<1> QED BY <1>5, <1>6, <1>7

\* There is a line between two places where lines begin.
LEMMA LineBetween ==
  ASSUME NEW n \in Nat, NEW m \in Nat, n % Line = 0, m % Line = 0, m < n
  PROVE  m + Line <= n
<1>1. PICK j \in Nat : n = j * Line
  BY WholeLines
<1>2. PICK k \in Nat : m = k * Line
  BY WholeLines
<1>3. k + 1 <= j
  BY <1>1, <1>2, ArticleAssumption
<1>4. (k + 1) * Line <= j * Line
  BY <1>3, ArticleAssumption
<1> QED BY <1>1, <1>2, <1>4, ArticleAssumption

\* Where a line begins before n, it begins before the last end of a line, or there.
LEMMA LinesUpTo ==
  ASSUME NEW n \in Nat, NEW m \in Nat, m % Line = 0, m <= n
  PROVE  m <= LineEnd(n)
<1>1. /\ LineEnd(n) \in Nat /\ LineEnd(n) % Line = 0
      /\ n % Line \in 0 .. Line - 1 /\ LineEnd(n) = n - (n % Line) /\ Line \in Nat
  BY EndOfLines, ArticleAssumption DEF LineEnd
<1>2. LineEnd(n) < m => LineEnd(n) + Line <= m
  BY <1>1, LineBetween
<1> DEFINE e == LineEnd(n)
           r == n % Line
<1>3. e \in Nat /\ r \in 0 .. Line - 1 /\ e = n - r /\ (e < m => e + Line <= m)
  BY <1>1, <1>2
<1> HIDE DEF e, r
<1>4. m <= e
  BY <1>1, <1>3
<1> QED BY <1>4 DEF e

\* The next line begins before the end of the file, or there.
LEMMA StartOfLine ==
  ASSUME NEW n \in Nat, NEW m \in Nat, m % Line = 0, n <= m
  PROVE  LineStart(n) \in Nat /\ n <= LineStart(n) /\ LineStart(n) <= m
<1>1. CASE n % Line = 0
  BY <1>1 DEF LineStart
<1>2. CASE n % Line # 0
  <2>1. LineStart(n) = LineEnd(n) + Line
    BY <1>2 DEF LineStart
  <2>2. n % Line \in 0 .. Line - 1 /\ LineEnd(n) = n - (n % Line)
    BY ArticleAssumption DEF LineEnd
  <2>3. LineEnd(n) \in Nat /\ LineEnd(n) % Line = 0 /\ LineEnd(n) < m
    <3>1. LineEnd(n) < n
      BY <1>2, <2>2, ArticleAssumption
    <3> QED BY <3>1, EndOfLines
  <2>4. LineEnd(n) + Line <= m
    BY <2>3, LineBetween
  <2>5. n <= LineEnd(n) + Line
    BY <2>2, ArticleAssumption
  <2> QED BY <2>1, <2>3, <2>4, <2>5, ArticleAssumption
<1> QED BY <1>1, <1>2

-----------------------------------------------------------------------------
(* What was once read from the file *)

Replies == [gen : Generations, size : Sizes, from : Offsets, to : Offsets]

Articles == [head : Replies, tail : Replies \cup {None}, cacheKey : Generations, next : Offsets]

Parts == [from : Offsets, to : Offsets, cacheKey : Generations, next : Offsets]

Views ==
  [head : Replies \cup {None}, start : Offsets, shown : SUBSET Offsets,
   strays : BOOLEAN, twice : BOOLEAN, cacheKey : Generations, next : Offsets]

\* The file of this generation has, or had, that many bytes: it only grows.
Reached(gen, n) == gen <= file.gen /\ (gen = file.gen => n <= file.size)

\* A reply to GetArticleSelect, now or before.
Selected(q) ==
  /\ q \in Replies
  /\ q.from <= q.to /\ q.to <= q.size /\ q.to % Line = 0
  /\ Reached(q.gen, q.size)

\* A head of HeadSize at most ends before what follows it, of the same file.
Apart(head, gen, start) ==
  head.gen = gen /\ head.to <= HeadSize => head.to <= start

\* An article that generateArticle has made.
Composed(a) ==
  /\ a \in Articles
  /\ Selected(a.head) /\ a.head.from = 0
  /\ a.tail = None => a.cacheKey = a.head.gen /\ a.next = a.head.to
  /\ a.tail # None =>
       /\ Selected(a.tail) /\ a.cacheKey = a.tail.gen /\ a.next = a.tail.to
       /\ Apart(a.head, a.tail.gen, a.tail.from)

\* The part that continues the file of generation x[1] at offset x[2].
Continues(x, c) ==
  /\ c \in Parts
  /\ c.cacheKey = x[1] /\ c.from = x[2] /\ c.from <= c.to /\ c.next = c.to
  /\ c.next % Line = 0
  /\ Reached(c.cacheKey, c.next)

\* What is on a screen.
Follows(w) ==
  /\ w \in Views
  /\ w.start <= w.next /\ w.shown = Bytes(w.start, w.next)
  /\ ~w.strays /\ ~w.twice
  /\ w.next % Line = 0
  /\ Reached(w.cacheKey, w.next)
  /\ w.head # None => Apart(w.head, w.cacheKey, w.start)

\* generateArticle holds a reply; before the tail is asked for it is a head
\* that is not the whole file, and if it is of HeadSize at most, the file had
\* more bytes than head and tail together.
Generating ==
  /\ gpc \in {"none", "head", "part", "tail", "made"}
  /\ gpc = "part" => Selected(p) /\ p.size > HeadSize
  /\ gpc = "tail" =>
       /\ Selected(p) /\ p.from = 0
       /\ p.to <= HeadSize => p.size > HeadSize + TailSize
       /\ file.size >= TailSize
  /\ gpc = "made" /\ page # None => Composed(page)

FileTypeOK == file \in [gen : Generations, size : Sizes]

Cached ==
  /\ article # None => Composed(article)
  /\ DOMAIN parts = Generations \X Offsets
  /\ \A x \in Generations \X Offsets : parts[x] # None => Continues(x, parts[x])

Screens ==
  /\ DOMAIN vpc = Viewers /\ DOMAIN view = Viewers
  /\ \A v \in Viewers : vpc[v] = "reading" => Follows(view[v])

ViewInv == FileTypeOK /\ Cached /\ Generating /\ Screens

\* Pushes and edits leave what was read as true as it was.
LEMMA ReadOnce ==
  ASSUME FileTypeOK, FileTypeOK',
         \/ file' = file
         \/ file'.gen = file.gen /\ file.size <= file'.size
         \/ file'.gen > file.gen
  PROVE  /\ \A q : Selected(q) => Selected(q)'
         /\ \A a : Composed(a) => Composed(a)'
         /\ \A x, c : Continues(x, c) => Continues(x, c)'
         /\ \A w : Follows(w) => Follows(w)'
<1>1. ASSUME NEW gen \in Generations, NEW n \in Offsets, Reached(gen, n)
      PROVE  Reached(gen, n)'
  <2>1. /\ gen \in Nat /\ n \in Nat
        /\ file.gen \in Nat /\ file.size \in Nat /\ file'.gen \in Nat /\ file'.size \in Nat
    BY ArticleAssumption DEF FileTypeOK, Generations, Sizes, Offsets
  <2> QED BY <1>1, <2>1 DEF Reached
<1>2. ASSUME NEW q, Selected(q) PROVE Selected(q)'
  <2>1. q.gen \in Generations /\ q.size \in Offsets
    BY <1>2 DEF Selected, Replies, Sizes
  <2> QED BY <1>1, <1>2, <2>1 DEF Selected
<1>3. ASSUME NEW a, Composed(a) PROVE Composed(a)'
  BY <1>2, <1>3 DEF Composed
<1>4. ASSUME NEW x, NEW c, Continues(x, c) PROVE Continues(x, c)'
  BY <1>1, <1>4 DEF Continues, Parts
<1>5. ASSUME NEW w, Follows(w) PROVE Follows(w)'
  BY <1>1, <1>5 DEF Follows, Views
<1> QED BY <1>2, <1>3, <1>4, <1>5

\* The lines in the n bytes from the offset o on.
LEMMA SelectedHead ==
  ASSUME FileTypeOK, NEW o \in Offsets, NEW n \in Nat, NEW q,
         q = SelectHead(o, n), o % Line = 0, o <= file.size
  PROVE  /\ Selected(q)
         /\ q.gen = file.gen /\ q.size = file.size /\ q.from = o /\ q.to <= o + n
         /\ q.to < q.size => o + n < q.size /\ (n % Line = 0 /\ o = 0 => q.to = n)
<1> DEFINE m == Smaller(o + n, file.size)
<1>1. /\ file.gen \in Generations /\ file.gen \in Nat
      /\ file.size \in Sizes /\ file.size \in Nat /\ file.size % Line = 0 /\ file.size <= MaxSize
      /\ o \in Nat /\ MaxSize \in Nat
  BY ArticleAssumption DEF FileTypeOK, Generations, Sizes, Offsets
<1>2. m \in Nat /\ o <= m /\ m <= file.size /\ m <= o + n /\ (m = file.size \/ (m = o + n /\ o + n < file.size))
  BY <1>1 DEF Smaller
<1>3. q = [gen |-> file.gen, size |-> file.size, from |-> o, to |-> LineEnd(m)]
  BY DEF SelectHead, Reply
<1> HIDE DEF m
<1>4. /\ LineEnd(m) \in Nat /\ LineEnd(m) <= m /\ LineEnd(m) % Line = 0
      /\ m % Line = 0 => LineEnd(m) = m
  BY <1>2, EndOfLines
<1>5. o <= LineEnd(m)
  <2>1. m \in Nat /\ o \in Nat /\ o % Line = 0 /\ o <= m
    BY <1>1, <1>2
  <2> QED BY <2>1, LinesUpTo
<1>6. LineEnd(m) \in Offsets /\ LineEnd(m) <= file.size
  BY <1>1, <1>2, <1>4 DEF Offsets
<1>7. Selected(q)
  BY <1>1, <1>3, <1>4, <1>5, <1>6 DEF Selected, Replies, Reached
<1>8. q.to <= o + n
  BY <1>2, <1>3, <1>4, <1>1
<1>9. ASSUME q.to < q.size
      PROVE  o + n < q.size /\ (n % Line = 0 /\ o = 0 => q.to = n)
  <2>1. m # file.size
    BY <1>1, <1>3, <1>4, <1>9
  <2>2. m = o + n /\ o + n < file.size
    BY <1>2, <2>1
  <2> QED BY <1>1, <1>3, <1>4, <2>2
<1> QED BY <1>3, <1>7, <1>8, <1>9

\* The lines that begin in the last TailSize bytes.
LEMMA SelectedTail ==
  ASSUME FileTypeOK, file.size >= TailSize, NEW q, q = SelectTail(TailSize)
  PROVE  /\ Selected(q)
         /\ q.gen = file.gen /\ q.size = file.size /\ q.size - TailSize <= q.from
         /\ NextAfterTail(q) = q.to
<1>1. /\ file.gen \in Generations /\ file.gen \in Nat
      /\ file.size \in Sizes /\ file.size \in Nat /\ file.size % Line = 0 /\ file.size <= MaxSize
      /\ TailSize \in Nat /\ MaxSize \in Nat
  BY ArticleAssumption DEF FileTypeOK, Generations, Sizes, Offsets
<1> DEFINE n == file.size - TailSize
<1>2. n \in Nat /\ n <= file.size
  BY <1>1
<1>3. q = [gen |-> file.gen, size |-> file.size, from |-> LineStart(n), to |-> file.size]
  BY DEF SelectTail, Reply
<1> HIDE DEF n
<1>4. LineStart(n) \in Nat /\ n <= LineStart(n) /\ LineStart(n) <= file.size
  BY <1>1, <1>2, StartOfLine
<1>5. LineStart(n) \in Offsets /\ file.size \in Offsets
  BY <1>1, <1>4 DEF Offsets
<1>6. Selected(q)
  BY <1>1, <1>3, <1>4, <1>5 DEF Selected, Replies, Reached
<1>7. NextAfterTail(q) = q.to
  BY <1>1, <1>3, <1>4 DEF NextAfterTail
<1> QED BY <1>1, <1>3, <1>4, <1>6, <1>7 DEF n

-----------------------------------------------------------------------------
(* The steps *)

LEMMA ViewInit == Init => ViewInv
<1> SUFFICES ASSUME Init PROVE ViewInv
  OBVIOUS
<1>1. 0 \in Generations
  BY ArticleAssumption DEF Generations
<1> QED
  BY <1>1 DEF Init, ViewInv, FileTypeOK, Cached, Generating, Screens

\* generateArticle has made the article a.
LEMMA Making ==
  ASSUME ViewInv, UNCHANGED <<file, article, parts, viewVars>>,
         NEW a, Composed(a), gpc' = "made", page' = a
  PROVE  ViewInv'
<1>1. FileTypeOK' /\ Cached' /\ Screens'
  BY DEF ViewInv, FileTypeOK, Cached, Screens, viewVars, Composed, Continues, Follows,
         Selected, Reached, Apart
<1>2. Composed(page)'
  BY DEF Composed, Selected, Reached, Apart
<1> QED BY <1>1, <1>2 DEF ViewInv, Generating

\* generateArticle after the first or the second RPC.
LEMMA Continuing ==
  ASSUME ViewInv, NEW q, Continue(q), UNCHANGED <<file, article, parts, viewVars>>,
         Selected(q), q.from = 0,
         q.to < q.size => /\ q.size = file.size /\ q.size >= TailSize
                          /\ q.to <= HeadSize => q.size > HeadSize + TailSize
  PROVE  ViewInv'
<1>1. /\ q \in Replies /\ q.from \in Nat /\ q.to \in Nat /\ q.size \in Nat
      /\ q.to \in Offsets /\ q.gen \in Generations
  BY ArticleAssumption DEF Selected, Replies, Offsets, Sizes
<1>2. FileTypeOK' /\ Cached' /\ Screens'
  BY DEF ViewInv, FileTypeOK, Cached, Screens, viewVars, Composed, Continues, Follows,
         Selected, Reached, Apart
<1>3. Selected(q)'
  BY DEF Selected, Reached
<1>4. Generating'
  <2>1. CASE q.to = q.from
    BY <2>1 DEF Continue, Generating
  <2>2. CASE q.to # q.from /\ q.to - q.from < q.size
    <3>1. gpc' = "tail" /\ p' = q /\ q.to < q.size /\ file' = file
      BY <1>1, <2>2 DEF Continue
    <3> QED BY <1>3, <3>1 DEF Generating, Selected, Reached
  <2>3. CASE q.to # q.from /\ ~(q.to - q.from < q.size)
    <3>1. gpc' = "made" /\ page' = Whole(q)
      BY <2>3 DEF Continue
    <3>2. Whole(q) = [head |-> q, tail |-> None, cacheKey |-> q.gen, next |-> q.to]
      BY <1>1 DEF Whole
    <3>3. Composed(page)'
      BY <1>1, <1>3, <3>1, <3>2 DEF Composed, Articles
    <3> QED BY <3>1, <3>3 DEF Generating
  <2> QED BY <2>1, <2>2, <2>3
<1> QED BY <1>2, <1>4 DEF ViewInv

LEMMA HeadStep == ViewInv /\ GetHead => ViewInv'
<1> SUFFICES ASSUME ViewInv, GetHead PROVE ViewInv'
  OBVIOUS
<1> DEFINE q == SelectHead(0, HeadSize)
<1>1. 0 \in Offsets /\ HeadSize \in Nat /\ TailSize \in Nat /\ 0 % Line = 0 /\ TailSize <= HeadSize
  BY ArticleAssumption DEF Offsets
<1>2. 0 <= file.size /\ file.size \in Nat
  BY ArticleAssumption DEF ViewInv, FileTypeOK, Sizes, Offsets
<1>3. /\ Selected(q)
      /\ q.gen = file.gen /\ q.size = file.size /\ q.from = 0
      /\ q.to < q.size => 0 + HeadSize < q.size
  <2>1. FileTypeOK
    BY DEF ViewInv
  <2> QED BY <1>1, <1>2, <2>1, SelectedHead
<1>4. /\ gpc = "head" /\ UNCHANGED <<file, article, parts, viewVars>>
      /\ IF q.size > HeadSize /\ q.size <= HeadSize + TailSize
         THEN gpc' = "part" /\ p' = q /\ UNCHANGED page
         ELSE Continue(q)
  BY DEF GetHead
<1> HIDE DEF q
<1>5. CASE q.size > HeadSize /\ q.size <= HeadSize + TailSize
  <2>1. gpc' = "part" /\ p' = q
    BY <1>4, <1>5
  <2>2. FileTypeOK' /\ Cached' /\ Screens'
    BY <1>4 DEF ViewInv, FileTypeOK, Cached, Screens, viewVars, Composed, Continues, Follows,
                Selected, Reached, Apart
  <2>3. Generating'
    BY <1>3, <1>4, <1>5, <2>1 DEF Generating, Selected, Reached
  <2> QED BY <2>2, <2>3 DEF ViewInv
<1>6. CASE ~(q.size > HeadSize /\ q.size <= HeadSize + TailSize)
  <2>1. Continue(q)
    BY <1>4, <1>6
  <2>2. q.to < q.size => /\ q.size = file.size /\ q.size >= TailSize
                         /\ q.size > HeadSize + TailSize
    BY <1>1, <1>2, <1>3, <1>6
  <2> QED BY <1>3, <1>4, <2>1, <2>2, Continuing
<1> QED BY <1>5, <1>6

LEMMA PartStep == ViewInv /\ GetPart => ViewInv'
<1> SUFFICES ASSUME ViewInv, GetPart PROVE ViewInv'
  OBVIOUS
<1> DEFINE q == SelectHead(0, p.size)
<1>1. 0 \in Offsets /\ HeadSize \in Nat /\ TailSize \in Nat /\ 0 % Line = 0 /\ TailSize <= HeadSize
  BY ArticleAssumption DEF Offsets
<1>2. /\ FileTypeOK /\ 0 <= file.size /\ file.size \in Nat
      /\ gpc = "part" /\ Continue(q) /\ UNCHANGED <<file, article, parts, viewVars>>
  BY ArticleAssumption DEF ViewInv, FileTypeOK, Sizes, Offsets, GetPart, SelectPart
<1>3. p.size \in Nat /\ p.size % Line = 0 /\ p.size > HeadSize
  BY <1>2, ArticleAssumption DEF ViewInv, Generating, Selected, Replies, Sizes, Offsets
<1>4. /\ Selected(q)
      /\ q.gen = file.gen /\ q.size = file.size /\ q.from = 0
      /\ q.to < q.size => 0 + p.size < q.size /\ q.to = p.size
  BY <1>1, <1>2, <1>3, SelectedHead
<1> HIDE DEF q
<1>5. q.to < q.size => /\ q.size = file.size /\ q.size >= TailSize
                       /\ ~(q.to <= HeadSize)
  BY <1>1, <1>2, <1>3, <1>4
<1> QED BY <1>2, <1>4, <1>5, Continuing

LEMMA TailStep == ViewInv /\ GetTail => ViewInv'
<1> SUFFICES ASSUME ViewInv, GetTail PROVE ViewInv'
  OBVIOUS
<1> DEFINE q == SelectTail(TailSize)
<1>1. /\ FileTypeOK /\ file.size >= TailSize
      /\ Selected(p) /\ p.from = 0
      /\ p.to <= HeadSize => p.size > HeadSize + TailSize
  BY DEF ViewInv, Generating, GetTail
<1>2. /\ Selected(q)
      /\ q.gen = file.gen /\ q.size = file.size /\ q.size - TailSize <= q.from
      /\ NextAfterTail(q) = q.to
  BY <1>1, SelectedTail
<1>3. /\ gpc' = "made" /\ UNCHANGED <<file, article, parts, viewVars>>
      /\ page' = [head |-> p, tail |-> q, cacheKey |-> q.gen, next |-> NextAfterTail(q)]
  BY DEF GetTail
<1> HIDE DEF q
<1>4. /\ p \in Replies /\ q \in Replies
      /\ p.to \in Nat /\ p.size \in Nat /\ q.to \in Offsets /\ q.from \in Nat /\ q.size \in Nat
      /\ HeadSize \in Nat /\ TailSize \in Nat
  BY <1>1, <1>2, ArticleAssumption DEF Selected, Replies, Sizes, Offsets
\* The file the head was read from has only grown since.
<1>5. Apart(p, q.gen, q.from)
  <2> SUFFICES ASSUME p.gen = q.gen, p.to <= HeadSize PROVE p.to <= q.from
    BY DEF Apart
  <2>1. p.size <= q.size
    BY <1>1, <1>2 DEF Selected, Reached
  <2> QED BY <1>1, <1>2, <1>4, <2>1
<1>6. q # None
  BY <1>4, ArticleAssumption DEF Replies, Generations, Sizes, Offsets
<1>7. /\ p.gen \in Generations /\ q.to \in Offsets /\ q.gen \in Generations
  BY <1>4 DEF Replies
<1>8. Composed([head |-> p, tail |-> q, cacheKey |-> q.gen, next |-> q.to])
  BY <1>1, <1>2, <1>4, <1>5, <1>6, <1>7 DEF Composed, Articles
<1>9. PICK a : a = [head |-> p, tail |-> q, cacheKey |-> q.gen, next |-> q.to]
  OBVIOUS
<1>10. page' = a
  BY <1>2, <1>3, <1>9
<1>11. Composed(a)
  BY <1>8, <1>9
<1> QED BY <1>3, <1>10, <1>11, Making

\* An RPC has failed: whoever waits gets the error.
LEMMA FailStep == ViewInv /\ GetFails => ViewInv'
BY DEF GetFails, ViewInv, FileTypeOK, Cached, Generating, Screens, viewVars, Composed, Continues,
       Follows, Selected, Reached, Apart

\* What the browser shows of an article is one stretch of the file.
LEMMA FirstScreen ==
  ASSUME FileTypeOK, NEW a, Composed(a)
  PROVE  Follows(Screen(a))
<1>1. /\ a \in Articles /\ a.head \in Replies /\ a.head.from = 0 /\ Selected(a.head)
      /\ 0 \in Offsets /\ file.size \in Nat /\ \A i \in Offsets : i \in Nat
  BY ArticleAssumption DEF Composed, Articles, Offsets, FileTypeOK, Sizes
<1>2. ASSUME NEW q \in Replies, Selected(q)
      PROVE  /\ q.from \in Offsets /\ q.to \in Offsets /\ q.gen \in Generations
             /\ q.from <= q.to /\ q.to % Line = 0 /\ Reached(q.gen, q.to)
             /\ Bytes(q.from, q.to) \in SUBSET Offsets
  <2>1. /\ q.from \in Offsets /\ q.to \in Offsets /\ q.gen \in Generations /\ q.size \in Offsets
    BY DEF Replies, Sizes
  <2>2. q.from <= q.to /\ q.to <= q.size /\ q.to % Line = 0 /\ Reached(q.gen, q.size)
    BY <1>2 DEF Selected
  <2>3. Reached(q.gen, q.to)
    BY <1>1, <2>1, <2>2 DEF Reached
  <2>4. Bytes(q.from, q.to) \in SUBSET Offsets
    BY DEF Bytes
  <2> QED BY <2>1, <2>2, <2>3, <2>4
<1>3. CASE a.tail = None
  <2>1. Screen(a) = [head |-> None, start |-> a.head.from,
                     shown |-> Bytes(a.head.from, a.head.to), strays |-> FALSE, twice |-> FALSE,
                     cacheKey |-> a.head.gen, next |-> a.head.to]
    BY <1>3 DEF Composed, Screen
  <2> QED BY <1>1, <1>2, <2>1 DEF Follows, Views
<1>4. CASE a.tail # None
  <2>1. Screen(a) = [head |-> a.head, start |-> a.tail.from,
                     shown |-> Bytes(a.tail.from, a.tail.to), strays |-> FALSE, twice |-> FALSE,
                     cacheKey |-> a.tail.gen, next |-> a.tail.to]
    BY <1>4 DEF Composed, Screen
  <2>2. a.tail \in Replies /\ Selected(a.tail) /\ Apart(a.head, a.tail.gen, a.tail.from)
    BY <1>4 DEF Composed, Selected
  <2> QED BY <1>1, <1>2, <2>1, <2>2 DEF Follows, Views
<1> QED BY <1>3, <1>4

LEMMA DeliverStep == ViewInv /\ Deliver => ViewInv'
<1> SUFFICES ASSUME ViewInv, Deliver PROVE ViewInv'
  OBVIOUS
<1>1. page # None => Composed(page)
  BY DEF ViewInv, Generating, Deliver
<1>2. file' = file /\ parts' = parts /\ gpc' = "none"
  BY DEF Deliver
<1>3. FileTypeOK' /\ Generating'
  BY <1>2 DEF ViewInv, FileTypeOK, Generating
<1>4. Cached'
  <2>1. article' = article \/ (page # None /\ article' = page)
    BY DEF Deliver
  <2>2. PICK a : a = article' /\ (a # None => Composed(a))
    BY <1>1, <2>1 DEF ViewInv, Cached
  <2>3. (article # None => Composed(article))'
    BY <1>2, <2>2 DEF Composed, Selected, Reached, Apart
  <2> QED BY <1>2, <2>3 DEF ViewInv, Cached, Continues, Reached
<1>5. Screens'
  <2>1. DOMAIN vpc' = Viewers /\ DOMAIN view' = Viewers
    BY DEF Deliver
  <2>2. ASSUME NEW v \in Viewers, vpc'[v] = "reading" PROVE Follows(view[v])'
    <3>1. PICK w : w = view'[v]
      OBVIOUS
    <3>2. Follows(w)
      <4>1. CASE vpc[v] = "waiting"
        <5>1. page # None /\ view'[v] = Screen(page)
          BY <2>2, <4>1 DEF Deliver
        <5>2. FileTypeOK
          BY DEF ViewInv
        <5> QED BY <1>1, <3>1, <5>1, <5>2, FirstScreen
      <4>2. CASE vpc[v] # "waiting"
        BY <2>2, <3>1, <4>2 DEF Deliver, ViewInv, Screens
      <4> QED BY <4>1, <4>2
    <3> QED BY <1>2, <3>1, <3>2 DEF Follows, Reached, Apart
  <2> QED BY <2>1, <2>2 DEF Screens
<1> QED BY <1>3, <1>4, <1>5 DEF ViewInv

LEMMA OpenStep == \A v \in Viewers : ViewInv /\ Open(v) => ViewInv'
<1> SUFFICES ASSUME NEW v \in Viewers, ViewInv, Open(v) PROVE ViewInv'
  OBVIOUS
<1>1. gpc' \in {"none", "head", "part", "tail", "made"} /\ (gpc' = gpc \/ gpc' = "head")
  BY DEF Open, ViewInv, Generating
<1>2. Generating'
  BY <1>1 DEF Open, ViewInv, Generating, Composed, Selected, Reached, Apart
<1>3. FileTypeOK' /\ Cached' /\ Screens'
  BY DEF Open, ViewInv, FileTypeOK, Cached, Screens, Composed, Continues, Follows, Selected,
         Reached, Apart
<1> QED BY <1>2, <1>3 DEF ViewInv

LEMMA OpenCachedStep == \A v \in Viewers : ViewInv /\ OpenCached(v) => ViewInv'
<1> SUFFICES ASSUME NEW v \in Viewers, ViewInv, OpenCached(v) PROVE ViewInv'
  OBVIOUS
<1>1. FileTypeOK' /\ Cached' /\ Generating'
  BY DEF OpenCached, genVars, ViewInv, FileTypeOK, Cached, Generating, Composed, Continues, Selected,
         Reached, Apart
<1>2. PICK w : w = Screen(article) /\ Follows(w)
  BY FirstScreen DEF OpenCached, ViewInv, Cached
<1>3. view' = [view EXCEPT ![v] = w] /\ vpc' = [vpc EXCEPT ![v] = "reading"] /\ file' = file
  BY <1>2 DEF OpenCached
<1>4. Screens'
  BY <1>2, <1>3 DEF ViewInv, Screens, Follows, Reached, Apart
<1> QED BY <1>1, <1>4 DEF ViewInv

LEMMA CloseStep == \A v \in Viewers : ViewInv /\ Close(v) => ViewInv'
BY DEF Close, genVars, ViewInv, FileTypeOK, Cached, Generating, Screens, Composed, Continues,
       Follows, Selected, Reached, Apart

LEMMA Joining ==
  ASSUME NEW a \in Nat, NEW b \in Nat, NEW c \in Nat, a <= b, b <= c
  PROVE  /\ Bytes(a, b) \cup Bytes(b, c) = Bytes(a, c)
         /\ Bytes(a, b) \cap Bytes(b, c) = {}
BY ArticleAssumption DEF Bytes, Offsets

\* What continues the file where the screen ends is appended without a gap.
LEMMA Appending ==
  ASSUME ViewInv, NEW v \in Viewers, vpc[v] = "reading", file' = file,
         NEW c, Continues(PartKey(v), c), Append(v, c)
  PROVE  Screens'
<1> DEFINE w == view[v]
           Appended == [head |-> w.head, start |-> w.start,
                        shown |-> w.shown \cup Bytes(c.from, c.to),
                        strays |-> w.strays \/ (c.cacheKey # w.cacheKey /\ c.to > c.from),
                        twice |-> w.twice \/ w.shown \cap Bytes(c.from, c.to) # {},
                        cacheKey |-> c.cacheKey, next |-> c.next]
<1>1. Follows(w) /\ v \in DOMAIN view /\ DOMAIN view = Viewers /\ DOMAIN vpc = Viewers
  BY DEF ViewInv, Screens
<1>2. view' = [view EXCEPT ![v] = Appended] /\ vpc' = vpc
  <2>1. w \in Views
    BY <1>1 DEF Follows
  <2>2. vpc' = vpc
    BY DEF Append
  <2>3. DOMAIN view' = DOMAIN view /\ \A u \in Viewers \ {v} : view'[u] = view[u]
    BY <1>1 DEF Append
  <2>4. view'[v] = [[[[[w EXCEPT !.shown = @ \cup Bytes(c.from, c.to)]
             EXCEPT !.strays = @ \/ (c.cacheKey # w.cacheKey /\ c.to > c.from)]
             EXCEPT !.twice = @ \/ w.shown \cap Bytes(c.from, c.to) # {}]
             EXCEPT !.cacheKey = c.cacheKey]
             EXCEPT !.next = c.next]
    BY <1>1 DEF Append
  <2>5. view'[v] = Appended
    BY <2>1, <2>4 DEF Views
  <2> QED BY <1>1, <2>2, <2>3, <2>5 DEF Append
<1>3. /\ w \in Views /\ c \in Parts /\ c.cacheKey = w.cacheKey /\ c.from = w.next /\ c.from <= c.to
      /\ c.next = c.to /\ c.next % Line = 0 /\ Reached(c.cacheKey, c.next)
  BY <1>1 DEF Continues, PartKey, Follows
<1>4. /\ w.start \in Offsets /\ w.next \in Offsets /\ c.to \in Offsets /\ c.next \in Offsets
      /\ w.head \in Replies \cup {None} /\ w.cacheKey \in Generations
  BY <1>3 DEF Views, Parts
<1>5. w.start \in Nat /\ w.next \in Nat /\ c.next \in Nat /\ w.start <= w.next /\ w.next <= c.next
  BY <1>1, <1>3, <1>4, ArticleAssumption DEF Offsets, Follows
<1>6. /\ Bytes(w.start, w.next) \cup Bytes(c.from, c.to) = Bytes(w.start, c.next)
      /\ Bytes(w.start, w.next) \cap Bytes(c.from, c.to) = {}
  BY <1>3, <1>5, Joining
<1>7. Appended = [head |-> w.head, start |-> w.start, shown |-> Bytes(w.start, c.next),
                  strays |-> FALSE, twice |-> FALSE, cacheKey |-> w.cacheKey, next |-> c.next]
  BY <1>1, <1>3, <1>6 DEF Follows
<1>8. Follows(Appended)
  <2>1. w.start <= c.next
    BY <1>5
  <2>2. Bytes(w.start, c.next) \in SUBSET Offsets
    BY DEF Bytes
  <2>3. Appended \in Views
    BY <1>4, <1>7, <2>2 DEF Views
  <2> QED BY <1>1, <1>3, <1>7, <2>1, <2>3 DEF Follows
<1>9. PICK x : x = Appended
  OBVIOUS
<1>10. view' = [view EXCEPT ![v] = x] /\ Follows(x)
  BY <1>2, <1>8, <1>9
<1> QED BY <1>1, <1>2, <1>10 DEF ViewInv, Screens, Follows, Reached, Apart

LEMMA PollCachedStep == \A v \in Viewers : ViewInv /\ PollCached(v) => ViewInv'
<1> SUFFICES ASSUME NEW v \in Viewers, ViewInv, PollCached(v) PROVE ViewInv'
  OBVIOUS
<1>1. FileTypeOK' /\ Cached' /\ Generating'
  BY DEF PollCached, genVars, ViewInv, FileTypeOK, Cached, Generating, Composed, Continues, Selected,
         Reached, Apart
<1>2. PartKey(v) \in Generations \X Offsets
  BY DEF PollCached, ViewInv, Screens, Follows, Views, PartKey
<1>3. PICK c : c = parts[PartKey(v)] /\ Continues(PartKey(v), c)
  BY <1>2 DEF PollCached, ViewInv, Cached
<1>4. Append(v, c) /\ vpc[v] = "reading" /\ file' = file
  BY <1>3 DEF PollCached
<1>5. Screens'
  BY <1>3, <1>4, Appending
<1> QED BY <1>1, <1>5 DEF ViewInv

LEMMA PollStep == \A v \in Viewers : ViewInv /\ Poll(v) => ViewInv'
<1> SUFFICES ASSUME NEW v \in Viewers, ViewInv, Poll(v) PROVE ViewInv'
  OBVIOUS
<1> DEFINE o == view[v].next
           q == SelectHead(o, file.size)
           x == PartKey(v)
<1>1. /\ vpc[v] = "reading" /\ file.gen = view[v].cacheKey /\ UNCHANGED <<file, article, genVars>>
      /\ Append(v, Part(o)) /\ StorePart(x, Part(o))
  BY DEF Poll
<1>2. Follows(view[v]) /\ FileTypeOK /\ file.size \in Nat
  BY <1>1, ArticleAssumption DEF ViewInv, Screens, FileTypeOK, Sizes, Offsets
<1>3. o \in Offsets /\ o % Line = 0 /\ o <= file.size /\ x = <<file.gen, o>>
      /\ x \in Generations \X Offsets
  BY <1>1, <1>2 DEF Follows, Views, Reached, PartKey
<1>4. Selected(q) /\ q.gen = file.gen /\ q.size = file.size /\ q.from = o
  BY <1>2, <1>3, SelectedHead
<1>5. Part(o) = [from |-> q.from, to |-> q.to, cacheKey |-> q.gen,
                 next |-> o + (q.from - o) + (q.to - q.from)]
  BY DEF Part
<1> HIDE DEF q
<1>6. /\ q.from \in Offsets /\ q.to \in Offsets /\ q.gen \in Generations
      /\ q.from <= q.to /\ q.to <= q.size /\ q.to % Line = 0 /\ o \in Nat /\ q.to \in Nat
  BY <1>3, <1>4, ArticleAssumption DEF Selected, Replies, Offsets
<1>7. Part(o) = [from |-> o, to |-> q.to, cacheKey |-> file.gen, next |-> q.to]
  BY <1>3, <1>4, <1>5, <1>6
<1>8. Reached(file.gen, q.to)
  BY <1>2, <1>4, <1>6 DEF Reached, FileTypeOK, Generations
<1>9. PICK c : c = Part(o) /\ Continues(x, c)
  BY <1>3, <1>4, <1>6, <1>7, <1>8 DEF Continues, Parts
<1>10. Screens'
  BY <1>1, <1>9, Appending
<1>11. Cached'
  <2>1. parts' = parts \/ parts' = [parts EXCEPT ![x] = c]
    BY <1>1, <1>9 DEF StorePart
  <2> HIDE DEF x, o
  <2> QED BY <1>1, <1>3, <1>9, <2>1 DEF ViewInv, Cached, Composed, Continues, Selected, Reached, Apart
<1>12. FileTypeOK' /\ Generating'
  BY <1>1 DEF genVars, ViewInv, FileTypeOK, Generating, Composed, Selected, Reached, Apart
<1> QED BY <1>10, <1>11, <1>12 DEF ViewInv

LEMMA PollGoneStep == \A v \in Viewers : ViewInv /\ PollGone(v) => ViewInv'
BY DEF PollGone, genVars, ViewInv, FileTypeOK, Cached, Generating, Screens, Composed, Continues,
       Follows, Selected, Reached, Apart

\* The file has changed, nothing that was read from it has.
LEMMA FileStep ==
  ASSUME ViewInv, FileTypeOK', UNCHANGED <<article, parts, genVars, viewVars>>,
         \/ file' = file
         \/ file'.gen = file.gen /\ file.size <= file'.size
         \/ file'.gen > file.gen,
         gpc = "tail" => file'.size >= TailSize
  PROVE  ViewInv'
<1>1. /\ \A q : Selected(q) => Selected(q)'
      /\ \A a : Composed(a) => Composed(a)'
      /\ \A x, c : Continues(x, c) => Continues(x, c)'
      /\ \A w : Follows(w) => Follows(w)'
  BY ReadOnce DEF ViewInv
<1>2. /\ article' = article /\ parts' = parts /\ gpc' = gpc /\ p' = p /\ page' = page
      /\ vpc' = vpc /\ view' = view
  BY DEF genVars, viewVars
<1>3. PICK q, g, a, ps, w : q = p /\ g = page /\ a = article /\ ps = parts /\ w = view
  OBVIOUS
<1>4. /\ Selected(q) => Selected(q)'
      /\ Composed(g) => Composed(g)'
      /\ Composed(a) => Composed(a)'
      /\ \A x \in Generations \X Offsets : Continues(x, ps[x]) => Continues(x, ps[x])'
      /\ \A v \in Viewers : Follows(w[v]) => Follows(w[v])'
  BY <1>1
<1>5. q = p' /\ g = page' /\ a = article' /\ ps = parts' /\ w = view'
  BY <1>2, <1>3
<1>6. Cached'
  BY <1>2, <1>3, <1>4, <1>5 DEF ViewInv, Cached, Composed, Continues, Selected, Reached, Apart
<1>7. Generating'
  BY <1>2, <1>3, <1>4, <1>5 DEF ViewInv, Generating, Composed, Selected, Reached, Apart
<1>8. Screens'
  BY <1>2, <1>3, <1>4, <1>5 DEF ViewInv, Screens, Follows, Reached, Apart
<1> QED BY <1>6, <1>7, <1>8 DEF ViewInv

LEMMA PushStep == ViewInv /\ Push => ViewInv'
<1> SUFFICES ASSUME ViewInv, Push PROVE ViewInv'
  OBVIOUS
<1>1. /\ file.gen \in Generations /\ file.size \in Nat /\ file.size % Line = 0
      /\ Line \in Nat /\ TailSize \in Nat /\ MaxSize \in Nat /\ file.size + Line <= MaxSize
      /\ file = [gen |-> file.gen, size |-> file.size]
  BY ArticleAssumption DEF ViewInv, FileTypeOK, Sizes, Offsets, Push
<1>2. file' = [gen |-> file.gen, size |-> file.size + Line]
  BY <1>1 DEF Push
<1>3. FileTypeOK'
  BY <1>1, <1>2, LineAfterLines DEF FileTypeOK, Sizes, Offsets
<1>4. gpc = "tail" => file'.size >= TailSize
  BY <1>1, <1>2 DEF ViewInv, Generating
<1>5. UNCHANGED <<article, parts, genVars, viewVars>>
  BY DEF Push
<1> QED BY <1>1, <1>2, <1>3, <1>4, <1>5, FileStep

LEMMA EditStep == ViewInv /\ Edit => ViewInv'
<1> SUFFICES ASSUME ViewInv, Edit PROVE ViewInv'
  OBVIOUS
<1>1. PICK n \in Sizes : file' = [gen |-> file.gen + 1, size |-> n]
  BY DEF Edit
<1>2. file.gen \in Nat /\ file.gen < MaxGeneration /\ MaxGeneration \in Nat
  BY ArticleAssumption DEF ViewInv, FileTypeOK, Generations, Edit
<1>3. FileTypeOK' /\ file'.gen > file.gen
  BY <1>1, <1>2 DEF FileTypeOK, Generations
<1>4. gpc = "tail" => file'.size >= TailSize
  BY DEF Edit
<1>5. UNCHANGED <<article, parts, genVars, viewVars>>
  BY DEF Edit
<1> QED BY <1>3, <1>4, <1>5, FileStep

LEMMA EvictArticleStep == ViewInv /\ EvictArticle => ViewInv'
BY DEF EvictArticle, genVars, viewVars, ViewInv, FileTypeOK, Cached, Generating, Screens, Composed,
       Continues, Follows, Selected, Reached, Apart

LEMMA EvictPartStep == \A x \in DOMAIN parts : ViewInv /\ EvictPart(x) => ViewInv'
BY DEF EvictPart, genVars, viewVars, ViewInv, FileTypeOK, Cached, Generating, Screens, Composed,
       Continues, Follows, Selected, Reached, Apart

LEMMA ViewStep == ViewInv /\ [Next]_vars => ViewInv'
<1> SUFFICES ASSUME ViewInv, [Next]_vars PROVE ViewInv'
  OBVIOUS
<1>1. ASSUME NEW v \in Viewers,
             Open(v) \/ OpenCached(v) \/ Close(v) \/ PollCached(v) \/ Poll(v) \/ PollGone(v)
      PROVE  ViewInv'
  BY <1>1, OpenStep, OpenCachedStep, CloseStep, PollCachedStep, PollStep, PollGoneStep
<1>2. CASE Generate
  BY <1>2, HeadStep, PartStep, TailStep, FailStep, DeliverStep DEF Generate
<1>3. CASE Push \/ Edit \/ EvictArticle
  BY <1>3, PushStep, EditStep, EvictArticleStep
<1>4. ASSUME NEW x \in DOMAIN parts, EvictPart(x) PROVE ViewInv'
  BY <1>4, EvictPartStep
<1>5. CASE UNCHANGED vars
  <2>1. /\ FileTypeOK' /\ UNCHANGED <<article, parts, genVars, viewVars>> /\ file' = file
        /\ gpc = "tail" => file'.size >= TailSize
    BY <1>5 DEF vars, ViewInv, FileTypeOK, Generating
  <2> QED BY <2>1, FileStep
<1> QED BY <1>1, <1>2, <1>3, <1>4, <1>5 DEF Next

-----------------------------------------------------------------------------
(* The theorems *)

\* Everything that generateArticle, memcached and the screens hold was read
\* from the file, and is joined where a line begins.
THEOREM ViewInvariant == Spec => []ViewInv
<1>1. Init => ViewInv
  BY ViewInit
<1>2. ViewInv /\ [Next]_vars => ViewInv'
  BY ViewStep
<1> QED BY <1>1, <1>2, PTL DEF Spec

\* Whatever is cached, shared among viewers, pushed to and edited, what a
\* viewer sees after the head is one stretch of one file, nothing in it
\* missing or doubled, up to where the next poll goes on
\* (generateArticlePart and handleArticlePoll).
THEOREM PollsFollowTheFile == Spec => []FollowsTheFile
<1>1. ViewInv => FollowsTheFile
  BY DEF ViewInv, Screens, Follows, Views, Reached, FollowsTheFile
<1> QED BY <1>1, ViewInvariant, PTL

\* A head of HeadSize at most does not reach into the tail of the same file,
\* although they come from different RPCs, with pushes and edits in between
\* (generateArticle).
THEOREM ShortHeadsDoNotOverlap == Spec => []ShortHeadsAreDisjoint
<1>1. ViewInv => ShortHeadsAreDisjoint
  BY DEF ViewInv, Screens, Follows, Apart, ShowsHeadOfSameFile, ShortHeadsAreDisjoint
<1> QED BY <1>1, ViewInvariant, PTL

=============================================================================
