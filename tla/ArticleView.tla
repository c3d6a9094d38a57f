----------------------------- MODULE ArticleView ----------------------------
(***************************************************************************)
(* An article as its readers see it: generateArticle puts the page         *)
(* together from up to three RPCs, generateArticlePart (cached_ops.go)     *)
(* answers the polls with which the page then follows the pushes, and both *)
(* go through the page cache (pttweb.go), while the file is pushed to and  *)
(* edited.                                                                 *)
(*                                                                         *)
(* The file is a generation, which an edit replaces by another one, and a  *)
(* size; a byte of it is its position.  Lines are Line bytes long, so a    *)
(* push makes the file that much longer.  Cache keys (consistency tokens)  *)
(* are generations.  cacheMgr.Get is taken by its contract (module         *)
(* SingleFlight): one generation for a key at a time, whose object is      *)
(* stored and given to all that wait; what is generated by a single RPC is *)
(* generated and given in one step.  Entries leave the cache at any time.  *)
(*                                                                         *)
(* What boardd does is not in this repository: see Select below.           *)
(***************************************************************************)
EXTENDS Integers, FiniteSets

CONSTANTS Viewers,
          HeadSize, TailSize,
          Line,           \* bytes in a line
          MaxSize,        \* bound on the size of the file
          MaxGeneration,  \* bound on the edits
          MaxParts,       \* bound on the ArticleParts in memcached
          None            \* nil, or no entry

\* A head and a tail have a line, and HeadSize is the larger one.
ASSUME ArticleAssumption ==
  /\ Line \in Nat \ {0} /\ TailSize \in Nat /\ HeadSize \in Nat
  /\ Line <= TailSize /\ TailSize <= HeadSize
  /\ MaxSize \in Nat /\ MaxGeneration \in Nat /\ MaxParts \in Nat
  /\ None \notin [gen : Nat, size : Nat, from : Nat, to : Nat]

VARIABLES file,     \* the article's file: external
          article,  \* memcached's entry for the ArticleRequest, or None
          parts,    \* parts[<<k, o>>]: that for an ArticlePartRequest, or None
          gpc,      \* where generateArticle is, "none" when it is not running
          p, page,  \* its reply p of GetArticleSelect, and what it makes
          vpc,      \* vpc[v]: what viewer v is doing
          view,     \* view[v]: what it has on the screen, or None
          answer    \* answer[v]: the outcome of its last poll

genVars == <<gpc, p, page>>
viewVars == <<vpc, view, answer>>
vars == <<file, article, parts, genVars, viewVars>>

Generations == 0 .. MaxGeneration
Offsets == 0 .. MaxSize
Sizes == {n \in Offsets : n % Line = 0}
Bytes(a, b) == {i \in Offsets : a <= i /\ i < b}

\* A reply of GetArticleSelect is [gen, size, from, to]: the generation and
\* size of the file, and that its bytes from .. to - 1 have been selected.
\*
\* An article is [head, tail, cacheKey, next]: the first reply, that for the
\* tail or None, and the generation and offset that polling goes on from.
\* A part is [from, to, cacheKey, next].
\*
\* A view is [head, start, shown, strays, twice, cacheKey, next]: the head of
\* an article that is not shown in full, and after it the bytes shown of
\* generation cacheKey, from start on; whether some came from another
\* generation, or twice; and the next poll's offset.

Init ==
  /\ file \in [gen : {0}, size : Sizes]
  /\ article = None
  /\ parts = [x \in Generations \X Offsets |-> None]
  /\ gpc = "none" /\ p = None /\ page = None
  /\ vpc = [v \in Viewers |-> "away"]
  /\ view = [v \in Viewers |-> None]
  /\ answer = [v \in Viewers |-> "none"]

-----------------------------------------------------------------------------
(* boardd.  Its reply covers the lines that lie in the range asked for; its *)
(* Offset counts from the beginning of that range.  A range of the last     *)
(* TailSize bytes of a smaller file is not asked for here (see Edit).       *)

LineEnd(n) == n - (n % Line)
LineStart(n) == IF n % Line = 0 THEN n ELSE LineEnd(n) + Line
Smaller(a, b) == IF a < b THEN a ELSE b

Reply(from, to) == [gen |-> file.gen, size |-> file.size, from |-> from, to |-> to]

SelectHead(offset, maxlen) ==
  Reply(offset, LineEnd(Smaller(offset + maxlen, file.size)))

SelectPart(offset, maxlen) == SelectHead(offset, maxlen)

SelectTail(maxlen) == Reply(LineStart(file.size - maxlen), file.size)

-----------------------------------------------------------------------------
(* generateArticle *)

\* A viewer opens the page: it waits for the object under way, or starts to
\* generate one.
Open(v) ==
  /\ vpc[v] = "away"
  /\ vpc' = [vpc EXCEPT ![v] = "waiting"]
  /\ gpc' = IF gpc = "none" THEN "head" ELSE gpc
  /\ UNCHANGED <<file, article, parts, p, page, view, answer>>

\* The article that is not partial.
Whole(q) == [head |-> q, tail |-> None, cacheKey |-> q.gen, next |-> q.to - q.from]

\* Where generateArticle goes on after the reply q, of the first or of the
\* second RPC: an empty file is ErrNotFound, an article shorter than its file
\* gets a tail.
Continue(q) ==
  /\ p' = q
  /\ IF q.to = q.from
     THEN gpc' = "made" /\ page' = None
     ELSE IF q.to - q.from < q.size
     THEN gpc' = "tail" /\ UNCHANGED page
     ELSE gpc' = "made" /\ page' = Whole(q)

\* Mutant: one RPC for the head is enough.
GetHeadOnly ==
  /\ gpc = "head"
  /\ Continue(SelectHead(0, HeadSize))
  /\ UNCHANGED <<file, article, parts, viewVars>>

\* r.Select(SelectHead, 0, HeadSize).  The head and the tail of a file of this
\* size would overlap: it is read once more, to the size it has been told.
GetHead ==
  /\ gpc = "head"
  /\ LET q == SelectHead(0, HeadSize) IN
       IF q.size > HeadSize /\ q.size <= HeadSize + TailSize
       THEN gpc' = "part" /\ p' = q /\ UNCHANGED page
       ELSE Continue(q)
  /\ UNCHANGED <<file, article, parts, viewVars>>

\* r.Select(SelectPart, 0, p.FileSize)
GetPart ==
  /\ gpc = "part"
  /\ Continue(SelectPart(0, p.size))
  /\ UNCHANGED <<file, article, parts, viewVars>>

\* ptail.FileSize - TailSize + ptail.Offset + ptail.Length
NextAfterTail(q) ==
  LET offset == q.from - (q.size - TailSize)
  IN q.size - TailSize + offset + (q.to - q.from)

\* r.Select(SelectTail, -TailSize, TailSize)
GetTail ==
  /\ gpc = "tail"
  /\ LET q == SelectTail(TailSize) IN
       page' = [head |-> p, tail |-> q, cacheKey |-> q.gen, next |-> NextAfterTail(q)]
  /\ gpc' = "made"
  /\ UNCHANGED <<file, article, parts, p, viewVars>>

\* An RPC fails.
GetFails ==
  /\ gpc \in {"head", "part", "tail"}
  /\ gpc' = "made" /\ page' = None
  /\ UNCHANGED <<file, article, parts, p, viewVars>>

\* What the browser shows of an article.
Screen(a) ==
  LET rest == IF a.tail = None THEN a.head ELSE a.tail IN
  [head |-> IF a.tail = None THEN None ELSE a.head,
   start |-> rest.from, shown |-> Bytes(rest.from, rest.to),
   strays |-> rest.gen # a.cacheKey, twice |-> FALSE,
   cacheKey |-> a.cacheKey, next |-> a.next]

\* The object is stored, which may fail, and given to all that wait for it;
\* or they get the error.
Deliver ==
  /\ gpc = "made"
  /\ article' \in (IF page = None THEN {article} ELSE {article, page})
  /\ vpc' = [v \in Viewers |->
       IF vpc[v] # "waiting" THEN vpc[v] ELSE IF page = None THEN "away" ELSE "reading"]
  /\ view' = [v \in Viewers |->
       IF vpc[v] = "waiting" /\ page # None THEN Screen(page) ELSE view[v]]
  /\ gpc' = "none" /\ p' = None /\ page' = None
  /\ UNCHANGED <<file, parts, answer>>

\* The article is in the cache.
OpenCached(v) ==
  /\ vpc[v] = "away"
  /\ article # None
  /\ vpc' = [vpc EXCEPT ![v] = "reading"]
  /\ view' = [view EXCEPT ![v] = Screen(article)]
  /\ UNCHANGED <<file, article, parts, genVars, answer>>

\* The viewer leaves the page, or reloads it.
Close(v) ==
  /\ vpc[v] = "reading"
  /\ vpc' = [vpc EXCEPT ![v] = "away"]
  /\ view' = [view EXCEPT ![v] = None]
  /\ answer' = [answer EXCEPT ![v] = "none"]
  /\ UNCHANGED <<file, article, parts, genVars>>

-----------------------------------------------------------------------------
(* handleArticlePoll and generateArticlePart *)

\* Mutant: the offset is left out of the cache key.
PartKeyShort(v) == <<view[v].cacheKey, 0>>

\* ArticlePartRequest.String()
PartKey(v) == <<view[v].cacheKey, view[v].next>>

\* Mutant: the length of the reply is left out of NextOffset.
PartNotAdvancing(offset) ==
  LET q == SelectHead(offset, file.size)
  IN [from |-> q.from, to |-> q.to, cacheKey |-> q.gen, next |-> offset + (q.from - offset)]

\* The reply for the rest of the file from the offset on.
Part(offset) ==
  LET q == SelectHead(offset, file.size)
  IN [from |-> q.from, to |-> q.to, cacheKey |-> q.gen,
      next |-> offset + (q.from - offset) + (q.to - q.from)]

\* The response: its content is appended, the next poll is by its PollUrl.
Append(v, c) ==
  /\ view' = [view EXCEPT ![v].shown = @ \cup Bytes(c.from, c.to),
                          ![v].strays = @ \/ (c.cacheKey # view[v].cacheKey /\ c.to > c.from),
                          ![v].twice = @ \/ view[v].shown \cap Bytes(c.from, c.to) # {},
                          ![v].cacheKey = c.cacheKey,
                          ![v].next = c.next]
  /\ answer' = [answer EXCEPT ![v] = "content"]
  /\ UNCHANGED vpc

PollCached(v) ==
  /\ vpc[v] = "reading"
  /\ parts[PartKey(v)] # None
  /\ Append(v, parts[PartKey(v)])
  /\ UNCHANGED <<file, article, parts, genVars>>

\* The object is stored, or that fails.
StorePart(x, c) ==
  \/ UNCHANGED parts
  \/ /\ Cardinality({y \in DOMAIN parts : parts[y] # None}) < MaxParts
     /\ parts' = [parts EXCEPT ![x] = c]

\* boardd still has the file the cache key names.
Poll(v) ==
  /\ vpc[v] = "reading"
  /\ parts[PartKey(v)] = None
  /\ file.gen = view[v].cacheKey
  /\ LET c == Part(view[v].next) IN
       Append(v, c) /\ StorePart(PartKey(v), c)
  /\ UNCHANGED <<file, article, genVars>>

\* It has not: codes.NotFound, which is not pttbbs.ErrNotFound, so there is no
\* ArticlePart, valid or not, and the response is a 404 page.
PollGone(v) ==
  /\ vpc[v] = "reading"
  /\ parts[PartKey(v)] = None
  /\ file.gen # view[v].cacheKey
  /\ answer' = [answer EXCEPT ![v] = "notFound"]
  /\ UNCHANGED <<file, article, parts, genVars, vpc, view>>

-----------------------------------------------------------------------------
(* The file and memcached *)

Push ==
  /\ file.size + Line <= MaxSize
  /\ file' = [file EXCEPT !.size = @ + Line]
  /\ UNCHANGED <<article, parts, genVars, viewVars>>

\* Another file takes the place of this one, of any size.  What boardd would
\* answer to a request for a tail that is longer than the file cannot be seen
\* in this repository, so while a page is generated it has TailSize at least.
Edit ==
  /\ file.gen < MaxGeneration
  /\ file' \in {[gen |-> file.gen + 1, size |-> n] : n \in Sizes}
  /\ gpc = "none" \/ file'.size >= TailSize
  /\ UNCHANGED <<article, parts, genVars, viewVars>>

EvictArticle ==
  /\ article # None
  /\ article' = None
  /\ UNCHANGED <<file, parts, genVars, viewVars>>

EvictPart(x) ==
  /\ parts[x] # None
  /\ parts' = [parts EXCEPT ![x] = None]
  /\ UNCHANGED <<file, article, genVars, viewVars>>

-----------------------------------------------------------------------------

Generate == GetHead \/ GetPart \/ GetTail \/ GetFails \/ Deliver

Next ==
  \/ \E v \in Viewers :
       Open(v) \/ OpenCached(v) \/ Close(v) \/ PollCached(v) \/ Poll(v) \/ PollGone(v)
  \/ Generate
  \/ Push \/ Edit \/ EvictArticle
  \/ \E x \in DOMAIN parts : EvictPart(x)

Spec == Init /\ [][Next]_vars

\* A viewer polls again and again, and memcached drops a part within the
\* minute it is stored for.
FairSpec ==
  /\ Spec
  /\ \A v \in Viewers : WF_vars(PollCached(v) \/ Poll(v))
  /\ \A x \in Generations \X Offsets : WF_vars(EvictPart(x))

-----------------------------------------------------------------------------
(* Properties *)

\* Whatever is cached, shared, pushed and edited: what a viewer sees after
\* the head is one stretch of one file, nothing in it missing or doubled, up
\* to where the next poll goes on, which is at the beginning of a line.
FollowsTheFile ==
  \A v \in Viewers : vpc[v] = "reading" =>
    LET w == view[v] IN
    /\ w.shown = Bytes(w.start, w.next)
    /\ ~w.strays /\ ~w.twice
    /\ w.next % Line = 0
    /\ file.gen = w.cacheKey => w.next <= file.size

ShowsHeadOfSameFile(v) ==
  /\ vpc[v] = "reading"
  /\ view[v].head # None
  /\ view[v].head.gen = view[v].cacheKey

\* A head of HeadSize at most does not reach into the tail of the same file,
\* although they come from different RPCs.
ShortHeadsAreDisjoint ==
  \A v \in Viewers : ShowsHeadOfSameFile(v) /\ view[v].head.to <= HeadSize =>
    view[v].head.to <= view[v].start

\* A viewer that keeps polling sees every push, unless the file it reads has
\* been replaced, or it leaves.
CatchesUp ==
  \A v \in Viewers :
    vpc[v] = "reading" ~>
      \/ vpc[v] # "reading"
      \/ view[v].next = file.size
      \/ view[v].cacheKey # file.gen

\* "We don't want head and tail have duplicate content" (cached_ops.go:263).
HeadTailDisjoint ==
  \A v \in Viewers : ShowsHeadOfSameFile(v) => view[v].head.to <= view[v].start

=============================================================================
