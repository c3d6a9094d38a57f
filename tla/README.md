# pttweb: a verification project

pttweb is the web front end of PTT, a bulletin board system. It keeps no data of
its own: boards, articles and searches come from the backend *boardd* by gRPC,
finished pages are kept in memcached, captcha handles in redis, board records
for five minutes in the process. What it has to get right is what happens between
these: requests that share one generation of a page, a bounded number of
connections, listings made of snapshots of different ages, articles that are
put together and followed while people push to them, and the HTML it makes of
terminal text.

The modules here are written from the Go source under `src/`. TLC checks them on
small instances, TLAPS proves the theorems of eight modules, the seven named `*Proofs` and
RenderingLemmas, for all values of the constants. `PROJECT.json` maps each definition to the lines it
stands for.

## The system

| component | state | operations | what makes it correct |
|---|---|---|---|
| **gate** `gate/gate.go` | `num`, the channel `queue` | `Reserve`, `Wait`, `Release` | never more than `maxInflight` owners, no slot idle beside a waiter, first come first served, nothing blocks under the mutex |
| **page cache** `cache/cache.go` | `pending` (callers waiting for a key), the gate, memcached | `Get`, `doGenerate`, store | one generation of a key at a time, everybody who waits is answered once, connections are bounded, an entry is not replaced by an older one |
| **board cache** `cached_inproc.go` | a map of records with an expiry, a mutex | look up, fetch, set | how old a record can be when it is used, how far it can go back |
| **board listing** `handleBbs`, `generateBbsIndex`, `paging.go` | none of its own: page cache, board cache | a page per number, links to the next ones | a reader who follows the links misses no post; links lead to pages |
| **search listing** `handleBbsSearch`, `generateBbsSearch` | page cache | pages counted from the newest match | nothing missed, nothing twice, while matches arrive |
| **article pages and polling** `generateArticle`, `generateArticlePart`, `handleArticlePoll` | page cache; offset and cache key in the browser | head, whole file, tail; parts by offset | head and tail do not overlap, polls lose and repeat nothing, never two files in one text |
| **escape sequence parser** `ansi/` | four states, buffers, the sequence so far | one rune at a time | the colours are those the article asks for, whatever broken sequences came before |
| **article renderer** `article/` | the line, its segments, the index mapper, `segClosed` | a rune, an escape sequence, the end of a line | well-formed HTML that shows all of the text, in its colours, with the links where they were found |
| **rich content finders** `richcontent/`, `aid_finder.go` | none | find URLs and article ids in a line | kept finds do not overlap; an id, a name and a URL lead where the text says |
| **captcha** `captcha/` | redis: handle, key, expiry | insert, show, verify | a key is revealed only after a verified answer, while it is live, and not replaced before it expires |
| **access, request wrapper** `pttweb.go`, `context.go`, `cookie.go` | a cookie | permission, the question for the age, error pages, the second look by an older file name | an answer is right for the board as it was at one recent moment; every visit ends |
| **boardd client** `pttbbs/` | none | RPCs, conversion of structs | that its errors become the right pages |
| **article ids** `pttbbs/aid.go` | none | parse, format, file name | the id of a file leads to the file |
| **external cache links** `extcache/`, `experiment/` | none | an expiry, a hash | a picture lives longer than the cached page that shows it |
| **atom feed** `atomfeed/`, `generateBoardAtomFeed` | page cache | the newest posts, newest first | a subscriber misses nothing |
| **object encoding** `struct.go` | none | gob | an entry that does not decode |
| **lists, hot boards, man pages, templates, start-up** | none | one or two RPCs and a template; configuration | |

How they interact: `net/http` runs every request in a goroutine of its own. A
handler asks the board cache for the record (an RPC if it is not there), checks
access, and calls `cacheMgr.Get(key, type, timeout, generate)`. `Get` asks
memcached under a reservation from the gate; on a miss it joins the callers in
`pending[key]`, and the first one starts a goroutine `doGenerate` that calls
`generate` (one to three RPCs and the renderer), stores the object, then takes
the list of callers and sends the object to each channel. A browser that shows
an article gets told of pushes by an external service and polls with the offset
and the cache key of what it has; the polls go through `Get` too.

What is hard here: the locks are held for moments only and everything between is
concurrent (miss and join; look-up and store; store and answer); memcached loses,
refuses or delays; all data is older than the moment it is shown, by different
amounts on one page; RPCs that belong together are separate; and the renderer
reuses its state (`segClosed`, `segOffset`) for two purposes, with positions
counted in three ways. The hazards are listed line by line in `PROJECT.json`,
each with the property that is about it or the reason why there is none.

## The modules

Every module has `VARIABLES` for the state of the Go objects and the program
counters of goroutines, and one action per critical section, RPC or channel
operation: whatever runs without another goroutine being able to see it is one
action. The names of fields and functions are those of the code.

* **FifoSemaphore** — what a gate promises: permits, a line, first come first
  served. **Gate** is gate.go: `Reserve` is refused, granted at once (`GrantNow`)
  or puts the reservation into the channel (`Enqueue`); `Release` decrements
  `num` and receives one reservation from the channel without blocking.
  A reservation has a state of its own (`queued`, `granted`, `inflight`,
  `abandoned`…) for its channel and its owner. `Next` has the callers
  of this repository, which wait before they release; `AnyOrderNext` has all
  callers that gate.go's comments allow. **GateProofs** proves.
* **SingleFlight** — what a cache in front of a slow source promises: calls for a
  key board the flight under way or start one, and all of them get what it
  brings. **CacheManager** is cache.go: the goroutine of a `Get` (`pc`) and the
  one it may start (`gpc`), step by step through `getFromCache`, `putPendings`,
  `doGenerate`, `storeResultCache`, `removePendings` and the sends, over an
  INSTANCE of Gate. memcached is a map that may lose any entry; an entry may
  be undecodable (`Garbled`); a get or set may fail; a set the client has given
  up on may be applied later (`LateStores`). `version` is the data the pages are
  made of. **CacheManagerProofs** proves.
* **BoardCache** is cached_inproc.go with a clock: `Lookup` (under the
  lock), `Read` or `Fail` (the RPC), `Set` (under the lock). `MaxRequest` is
  an assumption about the environment, that an RPC ends within it; `newest`
  records the newest record ever returned, for the properties only.
  **BoardProofs** proves.
* **Access** EXTENDS BoardCache: a request from the moment it reaches
  ErrorWrapper until something is on the tab. The tabs of one reader share a
  cookie. The record a request has fetched or found is the time at which boardd
  read it, and `history` is what the board was at any time, so that
  `HasPermViewBoard` decides by the board as it was then. What a board shows
  (list, search, article) is one page; an article may be asked for by an id whose
  file has an older name, when `TryOlder` has everything done once more.
  `Yes`, `No` and `GoBack` are the question and the redirects. Its theorems stand
  with those about the board cache, in **BoardProofs**.
* **Paging** is paging.go. **IndexPages** EXTENDS BoardCache and Paging:
  handleBbs with generateBbsIndex, and readers that follow links. A page is its
  number and the two times it was made from: that of the board record, which
  gives the number of pages, and that of the list RPC, which gives the posts.
  Its theorems are in **BoardProofs**, too.
* **SearchPages** EXTENDS Paging: handleBbsSearch with generateBbsSearch; here the
  pages are counted from the newest match and move. **Feed** EXTENDS it with the
  other list that is counted from the newest post: the Atom feed, made by calls
  that may fail for single posts and cached as a whole, a subscriber that gathers
  what it is shown, and the titles by which a post is linked to its thread. What
  is on a page or in a feed is a set of posts; no property is about their order.
  **FeedProofs** proves, about both.
* **ArticleView** is generateArticle, generateArticlePart, handleArticle and
  handleArticlePoll: the RPCs of a page (`GetHead`, `GetPart`, `GetTail`) are
  separate steps between which a file is pushed to or replaced by an edit. A
  file is a generation (which is also its cache key) and a length; what a viewer
  has on the screen is the set of positions it has been shown.
  **ArticleViewProofs** proves.
* **Terminal** is terminal.go. **AnsiParser** EXTENDS it: ConvertFromUTF8, one
  rune per step, and ParseNumbers; runes are code points.
* **Finders** is the choice that richcontent.Find makes among finds: by position,
  the longest first, without overlaps. Two modules use it.
* **Renderer** EXTENDS Terminal and Finders: render.go from the callbacks of the
  parser to the HTML, with segment.go and index_mapper.go. A rune is of a class that gives its width in the text and in
  HTML (`&` is longer in HTML, a Chinese character is two bytes here); the lines
  that the regular expressions and prefixes of pttbbs/string.go match are
  recognised by classes too. What the finders find is any set of up to `MaxFinds` ranges of
  visible characters. **RenderingLemmas** and **RenderingProofs** prove, about these
  modules and Links.
* **Aid** is aid.go on the ten digits of an id. **Links** EXTENDS it and Finders: a
  line is a sequence of tokens (words, `看板`, names in brackets, ids, URLs), in
  which `Matches` are what the three patterns of aid_finder.go match, and `Find` is
  what becomes a link. The patterns go over the whole line: an id may be the end of a
  URL (`HoldsId`), and the name before "看板 #" is the last characters (`Suffix`) of
  whatever stands there, a word, an id or a URL. The article is pushed to, made into a page and parts that
  memcached keeps for their timeouts, and the pictures in them have links that
  expire (`SnapExpire`).
* **Captcha** is captcha/handler.go: `SetNX`, `Conflict` and their failures for the
  board system's inserts; `Check`, `Verify` and `Show` for a user's request, which
  looks the handle up, asks reCAPTCHA, and looks it up again. Redis may expire
  an entry between any two of them, a call may fail, an insert may be done and
  its reply lost, and a failed insert is tried again. `told` and `since` record
  what was said and what was live, for the properties only. **CaptchaProofs**
  proves.
* **MCGate** … **MCCaptcha** are the instances for TLC: symmetry, views, and the
  sets that a .cfg cannot write.

IndexPages, SearchPages, Feed, ArticleView and Links take `cacheMgr.Get` by its contract, the
one that CacheManager is shown to keep: a live entry, or an object generated
during the call and shared with others who wait for it.

Six modules have a type invariant that is checked. The others say of their records
what they are made of where the variables are declared.

Definitions headed "Mutant" are plausible mistakes in the definition that
follows. Nothing uses them; each property is known to fail for one of them.

## The runs

| run | question | bounds, and why they are enough |
|---|---|---|
| `gate` | all of the gate's properties, the abstract semaphore (`Fifo`), and that whoever is in line gets its turn (`EveryWaiterRuns`) | 5 callers, 2 slots, a line of 2: full, refused, two in line at once; callers come again without end |
| `cache` | one generation per key, nobody forgotten (`NoLostWaiter`), nobody answered twice (`NoStraySend`), connections bounded; the abstract flight (`Flights`), use of the gate (`GateClient`), ages of entries (`NeverOlder`), every Get returns | 3 calls, 1 key, 1 connection: a gate that is full for a call and for a storing goroutine; data that changes once; late stores on. Keys only meet in the gate, and all but the liveness is proved for any number |
| `access` | what is answered, to whom (`AnswersAreOfOneMoment`), age and regress of board records (`FreshBoards`, `BoundedRegress`), every visit ends | 2 tabs, expiry 2, requests up to 1 long, 4 units, one change of the board: two overlapping fetches, an expiry and another fetch, a change before, during and after each. Boards do not interact and are proved for any number |
| `index_pages` | a finished walk misses nothing (`WalksMissNothing`), links are dead only for new pages | 2 readers, pages of 2 posts, up to 3 posts (full, empty, just begun page), all timeouts 1, 3 units |
| `feed` | walks over moving search pages (`OrderedWalksMissNothing`, `NothingTwice`), what a subscriber of the feed gathers (`SubscribersMissNothing`), replies stay in their thread | 2 readers, pages of 3, up to 8 matches: three pages, remainders 0, 1, 2; a subscriber of up to 6 posts, one deleted: two feeds without a common post; titles of up to 7 parts. The constraint `OneAtATime` has one of the three at a time, since they share nothing but the number of posts |
| `article` | polls follow the file (`FollowsTheFile`), heads and tails, catching up | head and tail of 7 bytes, lines of 3: every kind of file from empty to a partial one, neither limit at the end of a line; one edit, one cached part |
| `ansi_parser` | colours of any stream (`SgrIsApplied`) | 13 runes, one or two of each kind that the code tells apart, and 50 for the greatest int: two digits may be a number or none (`strconv.Atoi` errs for what no int can hold), like a U+001B among the parameters; sequences of up to 4 runes, articles of any length |
| `renderer` | nesting, text, links, colours | all articles of up to 5 of 6 tokens, pushes with every content of up to 3 characters, headers and quotes; any two finds per line (`MaxFinds`), any number in the proofs |
| `links` | where links lead (`LinksLeadThere`), how long pictures live (`PicturesOutlivePages`) | all lines of up to 3 of 14 tokens, every pair of 10 longer phrases: every pattern next to, before and inside another one; URLs that end in an id, in a name and in neither, ids whose end is a name; a board with a dot, one that is no name, an id that is too long; two types of files with high and low bits set; windows of 3, the earliest and latest hash |
| `captcha` | who may see a key, and which one (`ShownKeysAreLive`), and that it stands until it expires (`KeysStand`) | a handle that fits and one too long, 2 keys, 2 inserts and 2 requests, each repeated without end: races, retries, and an entry replaced during verification |
| `article_overlap`, `search_last_page` | disagreements, see below | the smallest instances that show them |

Deadlock is checked except where a model really ends: at the horizon of
IndexPages and Access and at the end of an article in Renderer. CacheManager's `Terminated`
is the state in which all calls have returned; any other stop would be reported.

AnsiParser's VIEW leaves out `params` and `esc` outside of a control sequence, where
they are dead (StartEscape resets them), and the rune of the last callback.
IndexPages' VIEW
reduces times to what the future and the properties depend on, as its comment
explains; without it the interesting bounds would be out of reach. MCLinks' VIEW
forgets the times of articles without pictures, whose pages do not depend on them.

### Fairness

* Gate: weak fairness of `Wait` and of `ReleaseAfterWait`. A caller that is granted
  runs on, and its memcached call ends by the client's timeout (cache.go:55).
  Nobody is obliged to reserve.
* CacheManager: weak fairness of the steps of goroutines that can run. It includes
  that `generate` returns, which no deadline in the repository enforces: the RPCs
  run with `context.TODO()`. Nothing is assumed of the environment.
* Access: weak fairness of the steps of a handler, whose RPCs end (with an error, at
  worst), and of the reader's answer to the question. Nobody is obliged to open
  anything, and the clock may stand still.
* ArticleView: weak fairness of a viewer's polls, answered from the cache or not,
  since `CatchesUp` is about a viewer that keeps polling, and of the expiry of cached
  parts (a minute). The run has one viewer, who may leave and come back to what the
  caches still hold; the state space of two does not finish in a few minutes for
  files of this size.

### Where code and comments disagree

* `article_overlap`: "We don't want head and tail have duplicate content"
  (cached_ops.go:263). A push between the first and the second RPC makes a
  page whose tail repeats lines of its first part.
* `search_last_page`: "We may get extra entries for last page" (cached_ops.go:130).
  When the matches fill the last page none is extra, but all of them are cut: the
  oldest 20 matches of a search with 20, 40, … are never shown.

These have no run of their own:

* ansi_convert.go:51 says that `ESC m` is used "as reset", and the parser passes it
  on as a sequence; but its Mode is still 0, so nothing is reset (`AfterEscape`).
* config.go:76 takes a configuration without `CaptchaRedisConfig` for one without
  captchas, and config.go:85 dereferences it, so that pttweb panics when it starts.
* gate.go:80-81 allows `Release` without `Wait`, but a reservation released while it
  is queued wakes the head of the line although no slot became free
  (`AnyOrderSpec` has such callers, and `InflightBound` fails under it; cache.go
  always waits first).
* cached_ops.go:343 says that the poll of a missing article "returns an invalid
  result"; the gRPC client never returns `pttbbs.ErrNotFound`, so it is a 404 page
  (`PollGone`). For the same reason pttweb.go:669 tries an older file name only
  when boardd answers with no content, not when it answers codes.NotFound.
* escape.go:48: "Treat empty parameter as 0". An empty one behind the last semicolon
  is not counted, so that `ESC[1;m` is `ESC[1m` and not `ESC[1;0m`; `SgrIsApplied` says
  what the code does (`Counted`).
* aid.go:27 shifts before it looks at the character, so an `@`, which the patterns of
  aid_finder.go let pass, multiplies the id before it by 64: "#…@" leads to another
  file (`Read`). aid_finder.go:18 has no dot among the characters of a board's name,
  although pttbbs/string.go:32 has: the link leads to the board named by what
  follows the dot. `Legible` excludes both.
* One name that no board can have makes the URL of its mention fail, and Find then
  drops all links of the line (`AidFails`), where the comments of the handlers say
  "Silently fail" of an unreadable id. The name need not be meant as one: the "a" of
  "http://x.tw/a 看板 #1HNXB7zo" does it, too. `LinksLeadThere` leaves out such lines
  (`Misread`).
* Subject strips `re:`, `fw:` and `[轉錄]` in this order, so "Fw: Re: X" is of the
  thread "Re: X".
* atomfeed.go:86 takes the first post for the feed's Updated, and posts come oldest
  first.

## The proofs

Assumptions are the named ASSUMEs of the modules (bounds are naturals, `None` and
`Absent` are not data, articles are sequences of tokens); everything else holds for
any callers, keys, boards, articles, lines and bounds. One of them is more than a
type: `LinesAssumption`, that what looks like an id of eight digits in a line is the
id of a file, whose time has 32 bits; an id that nobody's file has leads nowhere in
particular. It also says of `Suffix` that only words, ids and URLs end in what may be
a name.

**GateProofs.** `AnyInv` is inductive for callers that release in any order: the
counter is the number of outstanding reservations; the channel is empty while
it is at most `MaxInflight` and holds exactly the excess otherwise; a reservation
is in the channel once. From it follows that the send in `Reserve` finds room
(`ReserveNeverBlocks`). `InflightBound` is not inductive and not even true for
such callers; `WaitFirst` adds what holds when they wait: the channel holds
exactly the reservations that are not granted. `Inv == AnyInv /\ WaitFirst` gives
`Typing`, and that the holders of slots are counted exactly (`Slots`): with it
`InflightIsBounded` and `NoIdleSlot`. Under `Inv` every step is a step of
FifoSemaphore (`GateIsFifo`).

**CacheManagerProofs.** The manager's steps are steps of its gate or leave it
alone (`ManagerIsGateClient`), so the gate's invariant is the manager's by
citation, and whoever talks to memcached owns a slot (`ConnectionsAreBounded`, from
`InflightIsBounded`).
`Waiting` — `OneGenerator`, `NoLostWaiter`, `NoStraySend` with types and phases — is
inductive: between the moment the list is taken and the last send, a call
is either on the list of its key or in the audience of exactly one goroutine
(`OneGenerationAtATime`, `WaitersAreServed`, `SendsFindTheirReceivers`). `Ages`
says that between generating and storing an object nothing newer gets into
memcached, because there is no second generator: only the late application of a
Set the client gave up on can make an entry older (`EntriesNeverGetOlder`).
`Keyed` says that everything under a key was made for it;
with it every step is a step of SingleFlight (`ManagerIsSingleFlight`).

**BoardProofs** has three parts. `BoardInv`: an entry was read at most `MaxRequest` before it
was stored, which was `Expire` before it expires, and is at most `MaxRequest` older
than anything returned before. From it `BoardsAreFresh` and `RegressIsBounded`.

Every step of Access is a step of BoardCache or leaves it alone
(`AccessIsBoardStep`), so the board cache's theorems hold for whatever is done
above it (`AccessUsesTheBoardCache`, `ReadersAreFresh`). `AccessInv` adds the types
(`AccessTyping`), that a record was read when there was a board to read (`Truthful`)
and was fresh when the request that works with it began (`FreshAtStart`), and that
only the id of an old article is looked at twice (`OldTwice`). From it every answer
was proper at one moment less than `Expire` + 2 `MaxRequest` ago (`AnswersAreProper`):
for a record, when it was read; for a refusal of boardd, within the request.

A reader's requests are callers of the board cache
(`ListingUsesTheBoardCache`), so `BoardInv` holds. `WalksMissNothing` says nothing of
what is cached and is far from inductive; `ListingInv` adds the rest: the number of
posts only grows (`Counts`); a record that a handler holds is as fresh as
FreshBoards has it, and goes back behind the link that was followed by `MaxRequest`
at most (`Records`); a page in memcached was made from two snapshots that are not
older than `Staleness` as long as it is served, and is one of the pages that its own
record counts (`PagesCached`); and a reader has seen, of the posts that were there
`Staleness` before it began, all those before the page it wants, or behind it
(`Readers`). The number of pages of a page's record and the posts of its RPC may
be of different moments; since both are later than what the reader was promised and
posts only arrive at the end, no promised post falls between two pages. From it
`ReadersMissNothing` and, by the regress of records, `OnlyYoungLinksAreDead`.

**FeedProofs.** `SearchInv` compares what a reader has seen with `Before(p, n)`, the
matches that lie behind page p when there are n: all that its first page
counted and that are newer have been seen, if no page was older than the one
before it, and none that are older, if all were of one total. A page that is
newer than the one before has its place moved towards newer matches, which is why
nothing is skipped then, and why some is when memcached answers with an older one.
The last step, where the walk ends, is right only if the last page is not full
(`LastPages`): the exception in `OrderedWalksMissNothing` is what the run
`search_last_page` is about. It gives `OrderedWalksAreComplete` and
`SearchPagesAreDisjoint`, and both hold of the composition
(`FeedContainsTheSearch`). `FeedInv` says that a valid feed, cached or not, has all of
the newest posts but those deleted since, and a subscriber all between its first and
its last feed (`SubscribersAreUpToDate`). A title begins with a prefix or the text,
never a space; so `re:` in front of it comes off again before any other prefix is
looked at (`RepliesAreInTheThread`).

**ArticleViewProofs.** `ViewInv` says of every place where bytes are kept
(generateArticle between its RPCs, memcached's article and parts, screens) that
they were once read from a file of their generation, which had at least that length
then (`Reached`), and that they end where a line ends. A part cached under a file and
an offset then always continues a screen of that file that ends there, however old it
is, and a screen is one stretch (`PollsFollowTheFile`). While the tail is asked for,
a head of `HeadSize` at most is known to be of a file that is longer than a head and a tail
together, and a file of the same generation only grows at its end: hence
`ShortHeadsDoNotOverlap`. The lemmas on `LineEnd` and `LineStart` say where the cuts
at newlines are.

**RenderingLemmas** and **RenderingProofs**, about the renderer. Its loops are folds
over sequences. tlapm cannot instantiate a theorem with an operator parameter, but
induction over a *set* of naturals is a theorem without one (`NatSetInduction`,
`IntervalInduction`), and with it a fold of a function of a type is shown to have
its type and its recursion (`FoldFnIs`, `FoldFnLast`, `FoldFnConcat`). Each FoldLeft of the
model is shown to be such a fold (`TextLenIs`, `FoldWholeIs`, `FilteredIs`, `ReaderIs`,
`ParseNumbersIs`, …), and from there on its steps are ordinary facts.

`RendererInv` is inductive: the segments of a line divide its runes among them, the
bytes of a segment are those of its runes in HTML, and the mapper has, for each
rune's place in the text, the segment and the place in HTML where it begins
(`Divided`, `LineOK`). It gives `RendererTypes`, and that every link begins and ends
between the bytes of two runes of the line (`Sits`). A walk over the
segments (`Walked`) has shown the reader all bytes up to its place, each in its
look and in the link that is open, and has a span open exactly when `closed` says
so: true of `MaybeOpen`, `MaybeClose`, `WriteUpTo` (`OpenStep`, `CloseStep`, `WriteStep`), so of a whole
segment, of `OutputTo` (`OutputStep`), and of both ways to make a link (`LinkStep`,
from `EmbedLink` and `CrossLink`). That the finds do not overlap (`FilteredIs`) makes every
link begin where the walk has not yet been. Their sum is `NormalLineShown`, what a
line adds to what a reader has seen. Four invariants of the article follow, on
top of `RendererInv`: `Settled`, that the HTML between lines is closed
(`HtmlIsWellFormed`, which includes that no index is out of range); `Sorted`, that
the links and bytes of later lines are of later runes, so that no old
byte is in a new link (`EveryLinkIsExact`); `Coloured`, that the segments of the
line and the terminal state have the colours of the sequences before them
(`EveryColourIsKept`); and `TextInv`, that the text seen is that of the runes up to the
begin of the line without what was hidden on purpose (`AllTextIsKept`). The last
needs that TrimRight cuts a push between two runes (`TrimmedRunes`), and that a cut
of the line is a cut of what is shown (`ChosenCut`).

About the parser. `ParserInv` has the types of a sequence under way. `ParseNumbersIs`
gives the numbers the loop has made after each rune, `StateIsSgr` what they make of
the terminal state, attribute by attribute: each number decides those it has
something to say about, and the last one does (`Decided`, `LastIsDecided`). Together they
are `EscapesAreApplied`. The numbers are those of the parameters that count
(`Counted`): one that is no number, or one that no int can hold, stays in front of
those after it, and none of these is a number either (`NoNumberGrows`).

About Finders and Links. `InOrderIs`: the finds are put in the order of
`RichContentByBeginThenLongest`, which is total. `FilteredDecides`: each is kept, or overlaps a
kept one that comes before it; so one that overlaps none before it is
kept, and alone in its place (`FirstIsKept`). `FoundIs` lists what the finders can
report at a token; of what overlaps an id that is named with a board, the match of
both is first (`IdIsFirst`), and a URL is before an id inside of it (`UrlIsLink`).
A find that begins in the tail of a URL or of an id is dropped (`TailIsDropped`): the
URL or id is before it and is kept, or lost to a find that overlaps both; that the finders fail only for a line in which a
name is none is `FailsIfMisread`.
`MentionsAreRead`: parsing an id of eight digits and taking its number apart at bits
12 and 44 gives the file whose id it was, for every time of 32 bits; `StringIsRead`:
ParseAid reads what Aid.String writes. That makes `LinksLead`. `SnapBounds` is the
arithmetic of snapExpire; `LinksInv` says that a page in memcached was made of lines
of the article, at most `MaxStore` before it was stored, and is gone after its timeout:
`PicturesOutlive`.

**CaptchaProofs.** `CaptchaInv` adds to the properties what holds of requests that
are on their way (`OnTheWay`): none has a page before its answer, and between the
verdict of reCAPTCHA and the second look-up the entry, if there is one, is in
`since`. An insert stores only where there is no entry, where nobody was told
anything (`Storing`). From it `CaptchaTyping`, `ToldKeysStand` and
`OnlyLiveKeysAreShown`. Keys are assumed to be valid UTF-8: only those survive the
JSON of an entry unchanged.

Only model-checked: liveness (`EveryWaiterRuns`, `EveryGetReturns`, `CatchesUp`,
`VisitsEnd`), which needs ENABLED and is out of this prover's reach. Every safety
property of a passing run is a theorem. The two runs that show a disagreement are
counterexamples and nothing more.

## What is not modelled

* Data that no property is about: texts, titles, templates, HTML inside of header
  lines, gob, regular expressions. A thumbnail or player is one token.
* boardd, memcached, redis and browsers are modelled as pttweb uses them.
  Their lines are marked external.
* The query parser's terms (`author:`, `recommend:`, words), which become the filters
  of one RPC; the signatures of poll URLs and picture links, hashes of what
  they stand beside; the HTML of players; configuration, which is read once.
* Pages whose cache key names an expired timeout of another request are modelled
  by the largest one; SearchPages and ArticleView let entries leave at any time.
* Class list, hot boards, man pages: requests without state of their own.
* Panics in `generate`, and RPCs that hang (see the hazards).

## Plan

Done, in this order: Gate, CacheManager, BoardCache with their proofs; IndexPages,
SearchPages, ArticleView; AnsiParser and Renderer; Captcha with its proofs; Access
over BoardCache, and Links with Aid and the external cache, with their proofs; Feed.

Then the proofs of ArticleView, IndexPages, SearchPages and Feed; and last those of
Renderer, AnsiParser and Finders, for which the model got names for the steps of its
folds (`Whole`, `RuneBytes`, `ParameterRune`, `InOrder`) and a bound on the number of finds.

Next: a model of panics in `generate` and of RPCs that hang, which are the hazards
without a property; the terms of the query parser.
