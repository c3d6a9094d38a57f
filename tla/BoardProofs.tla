---------------------------- MODULE BoardProofs -----------------------------
(***************************************************************************)
(* Theorems about BoardCache for any number of requests and boards, any    *)
(* expiry and any bound on the duration of a request; about Access, the     *)
(* requests that go through it, for any number of tabs, any bounds on time, *)
(* and both settings of EnableOver18Cookie; and about IndexPages, the pages *)
(* that are made of its records, for any number of readers, any length of a *)
(* page, any timeouts and any arrivals of posts.  The steps of IndexPages   *)
(* on the board records are those of BoardCache, so what is proved of       *)
(* BoardCache holds there.                                                 *)
(***************************************************************************)
EXTENDS IndexPages, Access, TLAPS

-----------------------------------------------------------------------------
(* The board cache *)

\* A request under way began no longer than MaxRequest ago, and what it has
\* fetched was read since.
RequestAges ==
  \A r \in Requests :
    /\ pc[r] # "idle" => started[r] <= clock /\ clock - started[r] <= MaxRequest
    /\ pc[r] = "fetched" => started[r] <= board[r] /\ board[r] <= clock

\* An entry was read at most MaxRequest before it was stored, which was Expire
\* before its expiry; and it is MaxRequest older than anything returned before
\* at most.
EntryAges ==
  \A n \in Names :
    /\ newest[n] <= clock
    /\ brdCache[n] # None =>
         /\ brdCache[n].at <= clock
         /\ brdCache[n].expire <= clock + Expire
         /\ brdCache[n].expire - Expire <= brdCache[n].at + MaxRequest
         /\ newest[n] <= brdCache[n].at + MaxRequest

\* The inductive invariant of the board cache.
BoardInv == BoardTypeOK /\ RequestAges /\ EntryAges

\* It holds of an empty cache.
LEMMA BoardInitInv == BoardInit => BoardInv
  BY BoardCacheAssumption
     DEF BoardInit, BoardInv, BoardTypeOK, RequestAges, EntryAges, Times, PCs, Entries

\* An entry of the cache is a record, and nothing else is.
LEMMA EntryTypes ==
  ASSUME BoardTypeOK, NEW n \in Names, brdCache[n] # None
  PROVE  brdCache[n] \in Entries /\ brdCache[n].at \in Times /\ brdCache[n].expire \in Int
  BY BoardCacheAssumption DEF BoardTypeOK, Entries, Times

\* A lookup keeps it: the entry answers, or boardd is asked.
LEMMA LookupInv ==
  ASSUME BoardInv, NEW r \in Requests, NEW n \in Names, Lookup(r, n)
  PROVE  BoardInv'
<1> USE BoardCacheAssumption
<1>1. CASE Live(brdCache[n])
  <2>1. /\ brdCache[n] # None
        /\ pc' = [pc EXCEPT ![r] = "answered"]
        /\ board' = [board EXCEPT ![r] = brdCache[n].at]
        /\ newest' = [newest EXCEPT ![n] = Later(@, brdCache[n].at)]
        /\ UNCHANGED <<brdCache, clock>>
    BY <1>1 DEF Lookup, Live
  <2>2. brdCache[n].at \in Times
    BY <2>1, EntryTypes DEF BoardInv
  <2>3. newest'[n] \in Times /\ newest'[n] <= clock /\ newest'[n] <= brdCache[n].at + MaxRequest
    BY <2>1, <2>2 DEF BoardInv, BoardTypeOK, EntryAges, Later, Times
  <2>4. BoardTypeOK'
    BY <2>1, <2>2, <2>3 DEF Lookup, BoardInv, BoardTypeOK, Times, PCs
  <2>5. RequestAges'
    BY <2>1 DEF Lookup, BoardInv, BoardTypeOK, RequestAges, Times
  <2>6. EntryAges'
    BY <2>1, <2>3 DEF BoardInv, BoardTypeOK, EntryAges
  <2> QED BY <2>4, <2>5, <2>6 DEF BoardInv
<1>2. CASE ~Live(brdCache[n])
  <2>1. /\ pc' = [pc EXCEPT ![r] = "fetching"]
        /\ brdCache' = [brdCache EXCEPT ![n] = None]
        /\ UNCHANGED <<board, newest, clock>>
    BY <1>2 DEF Lookup
  <2>2. BoardTypeOK'
    BY <2>1 DEF Lookup, BoardInv, BoardTypeOK, PCs
  <2>3. RequestAges'
    BY <2>1 DEF Lookup, BoardInv, BoardTypeOK, RequestAges, Times
  <2>4. EntryAges'
    BY <2>1 DEF BoardInv, BoardTypeOK, EntryAges
  <2> QED BY <2>2, <2>3, <2>4 DEF BoardInv
<1> QED BY <1>1, <1>2

\* A record that is stored is no older than a request may last.
LEMMA SetInv ==
  ASSUME BoardInv, NEW r \in Requests, Set(r)
  PROVE  BoardInv' /\ newest[name[r]] <= clock /\ clock <= board[r] + MaxRequest
                   /\ board[r] \in Times
<1> USE BoardCacheAssumption
<1> PICK n \in Names : n = name[r]
  BY DEF BoardInv, BoardTypeOK
<1>1. /\ board[r] \in Times /\ clock \in Times /\ newest[n] \in Times
      /\ board[r] <= clock /\ clock <= board[r] + MaxRequest /\ newest[n] <= clock
  BY DEF Set, BoardInv, BoardTypeOK, RequestAges, EntryAges, Times
<1>2. /\ brdCache' = [brdCache EXCEPT ![n] = [at |-> board[r], expire |-> clock + Expire]]
      /\ newest' = [newest EXCEPT ![n] = Later(@, board[r])]
      /\ UNCHANGED <<clock, name, started, board>>
  BY DEF Set, EntryFor
<1>3. [at |-> board[r], expire |-> clock + Expire] \in Entries
  BY <1>1 DEF Entries, Times
<1>4. newest'[n] \in Times /\ newest'[n] <= clock
  BY <1>1, <1>2 DEF BoardInv, BoardTypeOK, Later
<1>5. BoardTypeOK'
  BY <1>1, <1>2, <1>3, <1>4 DEF Set, BoardInv, BoardTypeOK, PCs
<1>6. RequestAges'
  BY <1>2 DEF Set, BoardInv, BoardTypeOK, RequestAges
<1>7. EntryAges'
  <2> SUFFICES ASSUME NEW m \in Names
               PROVE  /\ newest'[m] <= clock
                      /\ brdCache'[m] # None =>
                           /\ brdCache'[m].at <= clock
                           /\ brdCache'[m].expire <= clock + Expire
                           /\ brdCache'[m].expire - Expire <= brdCache'[m].at + MaxRequest
                           /\ newest'[m] <= brdCache'[m].at + MaxRequest
    BY <1>2 DEF EntryAges
  <2>1. CASE m = n
    <3>1. brdCache'[m].at = board[r] /\ brdCache'[m].expire = clock + Expire
      BY <1>2, <2>1 DEF BoardInv, BoardTypeOK
    <3> QED BY <1>1, <1>4, <2>1, <3>1 DEF Times
  <2>2. CASE m # n
    BY <1>2, <2>2 DEF BoardInv, BoardTypeOK, EntryAges
  <2> QED BY <2>1, <2>2
<1> QED BY <1>1, <1>5, <1>6, <1>7 DEF BoardInv

\* Every action keeps it.
LEMMA BoardStep == BoardInv /\ [BoardNext]_boardVars => BoardInv'
<1> SUFFICES ASSUME BoardInv, [BoardNext]_boardVars PROVE BoardInv'
  OBVIOUS
<1> USE BoardCacheAssumption
<1>1. ASSUME NEW r \in Requests, NEW n \in Names, Lookup(r, n) PROVE BoardInv'
  BY <1>1, LookupInv
<1>2. ASSUME NEW r \in Requests, Read(r) PROVE BoardInv'
  <2>1. BoardTypeOK' /\ RequestAges'
    BY <1>2 DEF Read, BoardInv, BoardTypeOK, RequestAges, Times, PCs
  <2>2. EntryAges'
    BY <1>2 DEF Read, BoardInv, EntryAges
  <2> QED BY <2>1, <2>2 DEF BoardInv
<1>3. ASSUME NEW r \in Requests, Fail(r) \/ Leave(r) PROVE BoardInv'
  <2>1. /\ pc' = [pc EXCEPT ![r] = "idle"]
        /\ board' = [board EXCEPT ![r] = None]
        /\ started' = [started EXCEPT ![r] = 0]
        /\ UNCHANGED <<clock, brdCache, name, newest>>
    BY <1>3 DEF Fail, Leave
  <2>2. 0 \in Times
    BY DEF Times
  <2>3. BoardTypeOK'
    BY <2>1, <2>2 DEF BoardInv, BoardTypeOK, PCs
  <2>4. RequestAges'
    BY <2>1 DEF BoardInv, BoardTypeOK, RequestAges
  <2>5. EntryAges'
    BY <2>1 DEF BoardInv, EntryAges
  <2> QED BY <2>3, <2>4, <2>5 DEF BoardInv
<1>4. ASSUME NEW r \in Requests, Set(r) PROVE BoardInv'
  BY <1>4, SetInv
<1>5. CASE Tick
  <2>1. clock' = clock + 1 /\ clock' \in Times /\ UNCHANGED <<brdCache, pc, name, started, board, newest>>
    BY <1>5 DEF Tick, requestVars, BoardInv, BoardTypeOK, Times
  <2>2. BoardTypeOK'
    BY <2>1 DEF BoardInv, BoardTypeOK
  <2>3. RequestAges'
    BY <1>5, <2>1 DEF Tick, BoardInv, BoardTypeOK, RequestAges, Times, PCs
  <2>4. EntryAges'
    <3> SUFFICES ASSUME NEW n \in Names
                 PROVE  /\ newest[n] <= clock + 1
                        /\ brdCache[n] # None =>
                             /\ brdCache[n].at <= clock + 1
                             /\ brdCache[n].expire <= clock + 1 + Expire
      BY <2>1 DEF BoardInv, EntryAges
    <3>1. newest[n] \in Times /\ clock \in Times /\ newest[n] <= clock
      BY DEF BoardInv, BoardTypeOK, EntryAges
    <3>2. CASE brdCache[n] = None
      BY <3>1, <3>2 DEF Times
    <3>3. CASE brdCache[n] # None
      BY <3>1, <3>3, EntryTypes DEF BoardInv, EntryAges, Times
    <3> QED BY <3>2, <3>3
  <2> QED BY <2>2, <2>3, <2>4 DEF BoardInv
<1>6. CASE UNCHANGED boardVars
  BY <1>6 DEF boardVars, requestVars, BoardInv, BoardTypeOK, RequestAges, EntryAges
<1> QED BY <1>1, <1>2, <1>3, <1>4, <1>5, <1>6 DEF BoardNext

\* So it always holds.
LEMMA BoardAlways == BoardSpec => []BoardInv
  BY BoardInitInv, BoardStep, PTL DEF BoardSpec

\* A record is answered by a hit or by the request's own fetch.
LEMMA AnswerSteps ==
  ASSUME BoardInv, [BoardNext]_boardVars, NEW r \in Requests, Answers(r)
  PROVE  \/ \E n \in Names : Lookup(r, n) /\ Live(brdCache[n])
         \/ Set(r)
<1>1. ~UNCHANGED boardVars
  BY DEF Answers, boardVars, requestVars
<1>2. ~Tick
  BY DEF Answers, Tick, requestVars
<1>3. ASSUME NEW q \in Requests, NEW n \in Names, Lookup(q, n)
      PROVE  q = r /\ Live(brdCache[n])
  BY <1>3 DEF Answers, Lookup, BoardInv, BoardTypeOK
<1>4. ASSUME NEW q \in Requests, Read(q) \/ Fail(q) \/ Leave(q)
      PROVE  FALSE
  BY <1>4 DEF Answers, Read, Fail, Leave, BoardInv, BoardTypeOK
<1>5. ASSUME NEW q \in Requests, Set(q)
      PROVE  q = r
  BY <1>5 DEF Answers, Set, BoardInv, BoardTypeOK
<1> QED BY <1>1, <1>2, <1>3, <1>4, <1>5 DEF BoardNext

-----------------------------------------------------------------------------

\* The types of the board cache (cached_inproc.go).
THEOREM BoardTyping == BoardSpec => []BoardTypeOK
  BY BoardAlways, PTL DEF BoardInv

\* The age of what getBoardByNameCached returns is bounded by the expiry and
\* the duration of one request, for every interleaving of its callers.
THEOREM BoardsAreFresh == BoardSpec => FreshBoards
<1>1. ASSUME BoardInv, [BoardNext]_boardVars, NEW r \in Requests, Answers(r)
      PROVE  clock - board'[r] < Expire + MaxRequest
  <2> USE BoardCacheAssumption
  <2>1. ASSUME NEW n \in Names, Lookup(r, n), Live(brdCache[n])
        PROVE  clock - board'[r] < Expire + MaxRequest
    <3>1. board'[r] = brdCache[n].at /\ brdCache[n] # None /\ clock < brdCache[n].expire
      BY <1>1, <2>1 DEF Lookup, Live, BoardInv, BoardTypeOK
    <3>2. /\ brdCache[n].at \in Nat /\ brdCache[n].expire \in Int /\ clock \in Nat
          /\ brdCache[n].expire - Expire <= brdCache[n].at + MaxRequest
      BY <1>1, <3>1, EntryTypes DEF BoardInv, BoardTypeOK, EntryAges, Times
    <3> QED BY <3>1, <3>2
  <2>2. CASE Set(r)
    <3>1. board'[r] = board[r]
      BY <2>2 DEF Set
    <3> QED BY <1>1, <2>2, <3>1, SetInv DEF Times, BoardInv, BoardTypeOK
  <2> QED BY <1>1, <2>1, <2>2, AnswerSteps
<1>2. BoardInv /\ [BoardNext]_boardVars =>
        [\A r \in Requests : Answers(r) => clock - board'[r] < Expire + MaxRequest]_boardVars
  BY <1>1
<1> QED BY <1>2, BoardAlways, PTL DEF BoardSpec, FreshBoards

\* What readers see of a board goes back by the duration of one request at
\* most, although nothing orders the two critical sections of a fetch.
THEOREM RegressIsBounded == BoardSpec => BoundedRegress
<1>1. ASSUME BoardInv, [BoardNext]_boardVars, NEW r \in Requests, Answers(r)
      PROVE  board'[r] >= newest[name'[r]] - MaxRequest
  <2> USE BoardCacheAssumption
  <2>1. ASSUME NEW n \in Names, Lookup(r, n), Live(brdCache[n])
        PROVE  board'[r] >= newest[name'[r]] - MaxRequest
    <3>1. board'[r] = brdCache[n].at /\ brdCache[n] # None /\ name'[r] = n
      BY <1>1, <2>1 DEF Lookup, Live, BoardInv, BoardTypeOK
    <3>2. /\ brdCache[n].at \in Nat /\ newest[n] \in Nat
          /\ newest[n] <= brdCache[n].at + MaxRequest
      BY <1>1, <3>1, EntryTypes DEF BoardInv, BoardTypeOK, EntryAges, Times
    <3> QED BY <3>1, <3>2
  <2>2. CASE Set(r)
    <3>1. board'[r] = board[r] /\ name'[r] = name[r]
      BY <2>2 DEF Set
    <3>2. name[r] \in Names /\ newest[name[r]] \in Nat /\ clock \in Nat
      BY <1>1 DEF BoardInv, BoardTypeOK, Times
    <3>3. board[r] \in Nat /\ newest[name[r]] <= clock /\ clock <= board[r] + MaxRequest
      BY <1>1, <2>2, SetInv DEF Times
    <3> QED BY <3>1, <3>2, <3>3
  <2> QED BY <1>1, <2>1, <2>2, AnswerSteps
<1>2. BoardInv /\ [BoardNext]_boardVars =>
        [\A r \in Requests : Answers(r) => board'[r] >= newest[name'[r]] - MaxRequest]_boardVars
  BY <1>1
<1> QED BY <1>2, BoardAlways, PTL DEF BoardSpec, BoundedRegress

-----------------------------------------------------------------------------
(* The requests *)

\* Records were read when there was something to read: history keeps what a
\* board was.
Truthful ==
  /\ \A r \in Requests : pc[r] \in {"fetched", "answered"} =>
       board[r] <= clock /\ history[name[r]][board[r]] # "gone"
  /\ \A n \in Names : brdCache[n] # None => history[n][brdCache[n].at] # "gone"

\* What a request works with was fresh when the request began.
FreshAtStart ==
  \A r \in Requests : pc[r] = "answered" => started[r] - board[r] < Expire + MaxRequest

\* Only the id of an old article is tried twice.
OldTwice == \A r \in Requests : context[r].attempt = 2 => context[r].kind = "old"

\* The inductive invariant of the requests that go through the board cache.
AccessInv == AccessTypeOK /\ BoardInv /\ Truthful /\ FreshAtStart /\ OldTwice

\* It holds before the first request.
LEMMA AccessInitInv == AccessInit => AccessInv
<1> SUFFICES ASSUME AccessInit PROVE AccessInv
  OBVIOUS
<1>1. BoardInv
  BY BoardInitInv DEF AccessInit
<1>2. AccessTypeOK
  <2>1. history \in [Names -> [Times -> Statuses]]
    BY DEF AccessInit
  <2>2. NoContext \in Contexts
    BY DEF NoContext, Contexts, Kinds
  <2> QED BY <1>1, <2>1, <2>2 DEF AccessInit, AccessTypeOK, BoardInit, BoardInv, Screens, Settled
<1>3. Truthful /\ FreshAtStart /\ OldTwice
  BY DEF AccessInit, BoardInit, Truthful, FreshAtStart, OldTwice, NoContext
<1> QED BY <1>1, <1>2, <1>3 DEF AccessInv

\* Every step of a handler is a step of the board cache, or none.
LEMMA AccessIsBoardStep ==
  ASSUME BoardTypeOK, [AccessNext]_accessVars
  PROVE  [BoardNext]_boardVars
<1>1. ASSUME NEW r \in Requests, HandlerStep(r)
      PROVE  BoardNext
  <2>1. name[r] \in Names
    BY DEF BoardTypeOK
  <2> QED BY <1>1, <2>1 DEF HandlerStep, ReadBoard, BoardRefused, BoardFails, StoreBoard, Refuse,
                            Serve, TryOlder, LookupAgain, BoardNext
<1>2. ASSUME NEW r \in Requests, ReaderAnswers(r)
      PROVE  [BoardNext]_boardVars
  <2>1. name[r] \in Names
    BY DEF BoardTypeOK
  <2> QED BY <1>2, <2>1 DEF ReaderAnswers, Yes, No, GoBack, Request, BoardNext
<1>3. ASSUME NEW r \in Requests, NEW n \in Names, NEW k \in Kinds, Open(r, n, k)
      PROVE  BoardNext
  BY <1>3 DEF Open, Request, BoardNext
<1>4. ASSUME NEW r \in Requests, OpenMisnamed(r)
      PROVE  UNCHANGED boardVars
  BY <1>4 DEF OpenMisnamed
<1>5. CASE TimePasses
  BY <1>5 DEF TimePasses, BoardNext
<1>6. CASE UNCHANGED accessVars
  BY <1>6 DEF accessVars
<1> QED BY <1>1, <1>2, <1>3, <1>4, <1>5, <1>6 DEF AccessNext

\* Lookups: a hit was answered truthfully and fresh.
LEMMA LookupKeeps ==
  ASSUME AccessInv, NEW r \in Requests, NEW n \in Names, Lookup(r, n), history' = history
  PROVE  Truthful' /\ FreshAtStart'
<1> USE BoardCacheAssumption
<1>0. /\ name' = [name EXCEPT ![r] = n] /\ started' = [started EXCEPT ![r] = clock]
      /\ clock' = clock
      /\ pc \in [Requests -> PCs] /\ name \in [Requests -> Names] /\ clock \in Nat
      /\ started \in [Requests -> Times] /\ board \in [Requests -> Times \cup {None}]
      /\ brdCache \in [Names -> Entries \cup {None}]
  BY DEF Lookup, AccessInv, BoardInv, BoardTypeOK, Times
<1>1. CASE Live(brdCache[n])
  <2>1. /\ brdCache[n] # None /\ clock < brdCache[n].expire
        /\ pc' = [pc EXCEPT ![r] = "answered"]
        /\ board' = [board EXCEPT ![r] = brdCache[n].at]
        /\ brdCache' = brdCache
    BY <1>1 DEF Lookup, Live
  <2>2. /\ brdCache[n].at \in Nat /\ brdCache[n].expire \in Int /\ brdCache[n].at <= clock
        /\ brdCache[n].expire - Expire <= brdCache[n].at + MaxRequest
    BY <2>1, EntryTypes DEF AccessInv, BoardInv, EntryAges, Times
  <2>3. clock - brdCache[n].at < Expire + MaxRequest
    BY <1>0, <2>1, <2>2
  <2>4. Truthful'
    BY <1>0, <2>1, <2>2 DEF AccessInv, Truthful
  <2>5. FreshAtStart'
    BY <1>0, <2>1, <2>3 DEF AccessInv, FreshAtStart
  <2> QED BY <2>4, <2>5
<1>2. CASE ~Live(brdCache[n])
  <2>1. /\ pc' = [pc EXCEPT ![r] = "fetching"]
        /\ brdCache' = [brdCache EXCEPT ![n] = None]
        /\ board' = board
    BY <1>2 DEF Lookup
  <2> QED BY <1>0, <2>1 DEF AccessInv, Truthful, FreshAtStart
<1> QED BY <1>1, <1>2

\* Fetches: what was read, and what is stored of it.
LEMMA FetchKeeps ==
  ASSUME AccessInv, NEW r \in Requests, history' = history,
         \/ Read(r) /\ history[name[r]][clock] # "gone"
         \/ Set(r) \/ Fail(r) \/ Leave(r)
  PROVE  Truthful' /\ FreshAtStart'
<1> USE BoardCacheAssumption
<1>0. /\ pc \in [Requests -> PCs] /\ name \in [Requests -> Names] /\ clock \in Nat /\ clock' = clock
      /\ started \in [Requests -> Times] /\ board \in [Requests -> Times \cup {None}]
      /\ brdCache \in [Names -> Entries \cup {None}]
      /\ name' = name
  BY DEF AccessInv, BoardInv, BoardTypeOK, Times, Read, Set, Fail, Leave
<1>1. CASE Read(r) /\ history[name[r]][clock] # "gone"
  <2>1. /\ board' = [board EXCEPT ![r] = clock] /\ pc' = [pc EXCEPT ![r] = "fetched"]
        /\ UNCHANGED <<brdCache, started>>
    BY <1>1 DEF Read
  <2> QED BY <1>0, <1>1, <2>1 DEF AccessInv, Truthful, FreshAtStart
<1>2. CASE Set(r)
  <2>1. /\ pc[r] = "fetched" /\ pc' = [pc EXCEPT ![r] = "answered"]
        /\ brdCache' = [brdCache EXCEPT ![name[r]] = [at |-> board[r], expire |-> clock + Expire]]
        /\ UNCHANGED <<started, board>>
    BY <1>2 DEF Set, EntryFor
  <2>2. board[r] <= clock /\ history[name[r]][board[r]] # "gone" /\ name[r] \in Names
    BY <1>0, <2>1 DEF AccessInv, Truthful
  <2>3. started[r] \in Nat /\ board[r] \in Nat /\ started[r] <= board[r]
    BY <2>1 DEF AccessInv, BoardInv, BoardTypeOK, RequestAges, Times
  <2>4. started[r] - board[r] < Expire + MaxRequest
    BY <2>3
  <2>5. Truthful'
    BY <1>0, <2>1, <2>2 DEF AccessInv, Truthful
  <2>6. FreshAtStart'
    BY <1>0, <2>1, <2>4 DEF AccessInv, FreshAtStart
  <2> QED BY <2>5, <2>6
<1>3. CASE Fail(r) \/ Leave(r)
  <2>1. /\ pc' = [pc EXCEPT ![r] = "idle"] /\ brdCache' = brdCache
        /\ board' = [board EXCEPT ![r] = None] /\ started' = [started EXCEPT ![r] = 0]
    BY <1>3 DEF Fail, Leave
  <2> QED BY <1>0, <2>1 DEF AccessInv, Truthful, FreshAtStart
<1> QED BY <1>1, <1>2, <1>3

\* The tab's side of the invariant.
TabInv == AccessTypeOK /\ OldTwice

\* A request that begins has a context of its own.
LEMMA RequestKeeps ==
  ASSUME AccessInv, NEW r \in Requests, NEW n \in Names, NEW k \in Kinds,
         Request(r, n, k), BoardInv'
  PROVE  TabInv'
<1>1. /\ screen' = [screen EXCEPT ![r] = "loading"]
      /\ context' = [context EXCEPT ![r] =
           [kind |-> k, attempt |-> 1, hasOver18Cookie |-> consented]]
      /\ UNCHANGED <<history, consented>>
  BY DEF Request, CheckOver18Cookie
<1>2. /\ \A q \in Requests : q # r => pc'[q] = pc[q]
      /\ pc'[r] # "idle"
  BY DEF Request, Lookup, AccessInv, BoardInv, BoardTypeOK
<1>3. [kind |-> k, attempt |-> 1, hasOver18Cookie |-> consented] \in Contexts
  BY DEF Contexts, AccessInv, AccessTypeOK
<1>4. AccessTypeOK'
  BY <1>1, <1>2, <1>3 DEF AccessInv, BoardInv, AccessTypeOK, Screens, Settled
<1>5. OldTwice'
  BY <1>1 DEF AccessInv, AccessTypeOK, OldTwice
<1> QED BY <1>4, <1>5 DEF TabInv

\* A request that ends leaves what its tab shows.
LEMMA EndKeeps ==
  ASSUME AccessInv, NEW r \in Requests, NEW s \in {"page", "ask", "notFound", "error"},
         Fail(r) \/ Leave(r), Ends(r, s), BoardInv'
  PROVE  TabInv'
<1>1. PICK c \in {"page", "ask", "notFound", "error"} :
        /\ screen' = [screen EXCEPT ![r] = c]
        /\ context' = [context EXCEPT ![r] = IF c = "ask" THEN @ ELSE NoContext]
        /\ UNCHANGED <<history, consented>>
  BY DEF Ends, Clarified
<1>2. pc' = [pc EXCEPT ![r] = "idle"]
  BY DEF Fail, Leave
<1>3. NoContext \in Contexts /\ NoContext.attempt = 1
  BY DEF NoContext, Contexts, Kinds
<1>4. AccessTypeOK'
  BY <1>1, <1>2, <1>3 DEF AccessInv, BoardInv, BoardTypeOK, AccessTypeOK, Screens, Settled
<1>5. OldTwice'
  BY <1>1, <1>3 DEF AccessInv, AccessTypeOK, OldTwice
<1> QED BY <1>4, <1>5 DEF TabInv

\* Every action keeps it.
LEMMA AccessStep == AccessInv /\ [AccessNext]_accessVars => AccessInv'
<1> SUFFICES ASSUME AccessInv, [AccessNext]_accessVars PROVE AccessInv'
  OBVIOUS
<1> DEFINE Rest == TabInv' /\ Truthful' /\ FreshAtStart'
<1>0. BoardInv'
  BY AccessIsBoardStep, BoardStep DEF AccessInv, BoardInv
<1>1. ASSUME NEW r \in Requests, NEW n \in Names, NEW k \in Kinds, Request(r, n, k)
      PROVE  Rest
  BY <1>0, <1>1, RequestKeeps, LookupKeeps DEF Request
<1>2. ASSUME NEW r \in Requests, NEW s \in {"page", "ask", "notFound", "error"},
             Fail(r) \/ Leave(r), Ends(r, s)
      PROVE  Rest
  BY <1>0, <1>2, EndKeeps, FetchKeeps DEF Ends
<1>3. ASSUME NEW r \in Requests, ReadBoard(r) \/ StoreBoard(r) \/ LookupAgain(r)
      PROVE  Rest
  <2>1. UNCHANGED <<history, context, screen, consented>>
    BY <1>3 DEF ReadBoard, StoreBoard, LookupAgain, GoesOn
  <2>2. name[r] \in Names
    BY DEF AccessInv, BoardInv, BoardTypeOK
  <2>3. Truthful' /\ FreshAtStart'
    BY <1>3, <2>1, <2>2, LookupKeeps, FetchKeeps DEF ReadBoard, StoreBoard, LookupAgain
  <2>4. /\ \A q \in Requests : q # r => pc'[q] = pc[q]
        /\ pc'[r] # "idle" /\ screen[r] = "loading"
    BY <1>3 DEF ReadBoard, StoreBoard, LookupAgain, Read, Set, Lookup, AccessInv, BoardInv,
                BoardTypeOK, AccessTypeOK
  <2>5. TabInv'
    BY <1>0, <2>1, <2>4 DEF AccessInv, BoardInv, AccessTypeOK, TabInv, OldTwice, Settled
  <2> QED BY <2>3, <2>5
<1>4. ASSUME NEW r \in Requests, TryOlder(r)
      PROVE  Rest
  <2>1. /\ Leave(r) /\ context[r].kind = "old" /\ screen[r] = "loading"
        /\ context' = [context EXCEPT ![r].attempt = 2]
        /\ UNCHANGED <<history, screen, consented>>
    BY <1>4 DEF TryOlder, HasOldFilename, AccessInv, AccessTypeOK
  <2>2. pc' = [pc EXCEPT ![r] = "idle"]
    BY <2>1 DEF Leave
  <2>3. /\ context[r] \in Contexts
        /\ [context[r] EXCEPT !.attempt = 2] \in Contexts
        /\ [context[r] EXCEPT !.attempt = 2].kind = "old"
        /\ [context[r] EXCEPT !.attempt = 2].attempt = 2
    BY <2>1 DEF Contexts, AccessInv, AccessTypeOK
  <2>4. /\ context' = [context EXCEPT ![r] = [context[r] EXCEPT !.attempt = 2]]
        /\ context \in [Requests -> Contexts]
    BY <2>1 DEF AccessInv, AccessTypeOK
  <2>5. /\ context' \in [Requests -> Contexts]
        /\ \A q \in Requests : q # r => context'[q] = context[q]
        /\ context'[r].kind = "old" /\ context'[r].attempt = 2
    BY <2>3, <2>4
  <2>6. AccessTypeOK'
    BY <1>0, <2>1, <2>2, <2>5 DEF AccessInv, BoardInv, BoardTypeOK, AccessTypeOK, Settled
  <2>7. OldTwice'
    BY <2>5 DEF AccessInv, OldTwice
  <2> QED BY <2>1, <2>6, <2>7, FetchKeeps DEF TabInv
<1>5. ASSUME NEW r \in Requests, OpenMisnamed(r) \/ Yes(r) \/ No(r)
      PROVE  Rest
  <2>1. /\ UNCHANGED <<brdCache, clock, pc, name, started, board, newest, history>>
        /\ screen[r] # "loading" /\ consented' \in BOOLEAN
        /\ \/ screen' = [screen EXCEPT ![r] = "notFound"] /\ context' = context /\ context[r] = NoContext
           \/ screen' = [screen EXCEPT ![r] = "sent"] /\ context' = context
           \/ screen' = [screen EXCEPT ![r] = "home"] /\ context' = [context EXCEPT ![r] = NoContext]
    BY <1>5 DEF OpenMisnamed, Yes, No, AccessInv, AccessTypeOK, boardVars, requestVars
  <2>2. NoContext \in Contexts /\ NoContext.attempt = 1
    BY DEF NoContext, Contexts, Kinds
  <2>5. pc[r] = "idle" /\ screen \in [Requests -> Screens] /\ context \in [Requests -> Contexts]
    BY <2>1 DEF AccessInv, AccessTypeOK, BoardInv, BoardTypeOK
  <2>3. Truthful' /\ FreshAtStart'
    BY <2>1 DEF AccessInv, Truthful, FreshAtStart
  <2>4. TabInv'
    <3>1. AccessTypeOK'
      BY <1>0, <2>1, <2>2, <2>5 DEF AccessInv, BoardInv, AccessTypeOK, Screens, Settled
    <3>2. OldTwice'
      BY <2>1, <2>2, <2>5 DEF AccessInv, OldTwice
    <3> QED BY <3>1, <3>2 DEF TabInv
  <2> QED BY <2>3, <2>4
<1>6. ASSUME TimePasses
      PROVE  Rest
  <2>1. /\ clock' = clock + 1 /\ UNCHANGED <<brdCache, pc, name, started, board, newest>>
        /\ UNCHANGED <<context, screen, consented>>
    BY <1>6 DEF TimePasses, Tick, requestVars
  <2>2. /\ history' \in [Names -> [Times -> Statuses]]
        /\ \A n \in Names, t \in Times : t <= clock => history'[n][t] = history[n][t]
    <3>1. CASE UNCHANGED history
      BY <3>1 DEF AccessInv, AccessTypeOK
    <3>2. ASSUME NEW n \in Names, NEW s \in Statuses, history' = [history EXCEPT ![n] = Becomes(n, s)]
          PROVE  <2>2!1 /\ <2>2!2
      <4>1. Becomes(n, s) \in [Times -> Statuses]
        BY DEF Becomes, AccessInv, AccessTypeOK
      <4>2. \A t \in Times : t <= clock => Becomes(n, s)[t] = history[n][t]
        BY DEF Becomes
      <4> QED BY <3>2, <4>1, <4>2 DEF AccessInv, AccessTypeOK
    <3> QED BY <1>6, <3>1, <3>2 DEF TimePasses
  <2>3. TabInv'
    BY <1>0, <2>1, <2>2 DEF AccessInv, BoardInv, AccessTypeOK, TabInv, OldTwice
  <2>4. FreshAtStart'
    BY <2>1 DEF AccessInv, FreshAtStart
  <2>5. clock \in Nat /\ clock <= clock'
    BY <2>1 DEF AccessInv, BoardInv, BoardTypeOK, Times
  <2>6. ASSUME NEW r \in Requests, pc[r] \in {"fetched", "answered"}
        PROVE  board[r] <= clock' /\ history'[name[r]][board[r]] # "gone"
    <3>1. board[r] \in Times /\ board[r] <= clock /\ name[r] \in Names
      BY <2>6 DEF AccessInv, BoardInv, BoardTypeOK, Truthful
    <3>2. history'[name[r]][board[r]] = history[name[r]][board[r]]
      BY <2>2, <3>1
    <3>3. board[r] <= clock'
      BY <2>1, <2>5, <3>1 DEF Times
    <3> QED BY <2>6, <3>2, <3>3 DEF AccessInv, Truthful
  <2>7. ASSUME NEW n \in Names, brdCache[n] # None
        PROVE  history'[n][brdCache[n].at] # "gone"
    <3>1. brdCache[n].at \in Times /\ brdCache[n].at <= clock
      BY <2>7, EntryTypes DEF AccessInv, BoardInv, EntryAges
    <3>2. history'[n][brdCache[n].at] = history[n][brdCache[n].at]
      BY <2>2, <3>1
    <3> QED BY <2>7, <3>2 DEF AccessInv, Truthful
  <2>8. Truthful'
    BY <2>1, <2>6, <2>7 DEF Truthful
  <2> QED BY <2>3, <2>4, <2>8
<1>7. ASSUME UNCHANGED accessVars
      PROVE  Rest
  BY <1>7 DEF accessVars, boardVars, requestVars, AccessInv, BoardInv, TabInv, AccessTypeOK, BoardTypeOK,
              OldTwice, Truthful, FreshAtStart
<1>8. ASSUME NEW r \in Requests, HandlerStep(r) \/ ReaderAnswers(r)
      PROVE  Rest
  <2>1. name[r] \in Names /\ (screen[r] = "sent" => context[r].kind \in Kinds)
    BY DEF AccessInv, BoardInv, BoardTypeOK, AccessTypeOK, Contexts
  <2>2. Verdict(r) \in {"ok", "ask", "notFound"}
    BY DEF Verdict, HasPermViewBoard
  <2>3. CASE BoardRefused(r) \/ BoardFails(r) \/ Refuse(r) \/ Serve(r)
    BY <1>2, <2>2, <2>3 DEF BoardRefused, BoardFails, Refuse, Serve
  <2>4. CASE GoBack(r)
    BY <1>1, <2>1, <2>4 DEF GoBack
  <2> QED BY <1>3, <1>4, <1>5, <1>8, <2>3, <2>4 DEF HandlerStep, ReaderAnswers
<1>9. Rest
  BY <1>1, <1>5, <1>6, <1>7, <1>8 DEF AccessNext, Open
<1> QED BY <1>0, <1>9 DEF AccessInv, TabInv

\* So it always holds.
LEMMA AccessAlways == AccessSpec => []AccessInv
  BY AccessInitInv, AccessStep, PTL DEF AccessSpec

-----------------------------------------------------------------------------

\* The types of the request path: a handler is at work exactly while its tab
\* loads, and a tab that shows something has no request left.
THEOREM AccessTyping == AccessSpec => []AccessTypeOK
  BY AccessAlways, PTL DEF AccessInv

\* Handlers are clients of the board cache: what is proved of getBrdCache and
\* setBrdCache holds under them.
THEOREM AccessUsesTheBoardCache == AccessSpec => BoardSpec
<1>1. AccessInit => BoardInit
  BY DEF AccessInit
<1>2. AccessInv /\ [AccessNext]_accessVars => [BoardNext]_boardVars
  BY AccessIsBoardStep DEF AccessInv, BoardInv
<1> QED BY <1>1, <1>2, AccessAlways, PTL DEF AccessSpec, BoardSpec

\* Readers' records are as fresh as the board cache promises.
THEOREM ReadersAreFresh == AccessSpec => FreshBoards /\ BoundedRegress
  BY AccessUsesTheBoardCache, BoardsAreFresh, RegressIsBounded, PTL

\* hasPermViewBoard, clarifyRemoteError and the fallback to an older file name
\* answer every request in the way the board called for at some recent moment.
THEOREM AnswersAreProper == AccessSpec => AnswersAreOfOneMoment
<1> DEFINE Answered(r) == screen[r] = "loading" /\ screen'[r] \notin {"loading", "error"}
           Justified(r) == \E t \in Recent : screen'[r] \in Proper(r, history[name[r]][t])
<1>1. ASSUME AccessInv, [AccessNext]_accessVars, NEW r \in Requests, Answered(r)
      PROVE  Justified(r)
  <2> USE BoardCacheAssumption
  <2>0. /\ clock \in Nat /\ clock \in Times /\ name[r] \in Names
        /\ screen \in [Requests -> Screens] /\ context[r] \in Contexts
        /\ started[r] \in Nat /\ history \in [Names -> [Times -> Statuses]]
    BY <1>1 DEF AccessInv, BoardInv, BoardTypeOK, AccessTypeOK, Times
  <2>1. CASE screen'[r] = "notFound" /\ context[r].kind = "old"
    <3>1. clock \in Recent
      BY <2>0 DEF Recent
    <3>2. screen'[r] \in Proper(r, history[name[r]][clock])
      BY <2>1 DEF Proper
    <3> QED BY <3>1, <3>2
  <2>2. ASSUME NEW s \in {"page", "ask", "notFound", "error"}, Ends(r, s),
               ~(screen'[r] = "notFound" /\ context[r].kind = "old")
        PROVE  screen'[r] = s /\ s # "error"
    <3>1. screen'[r] = Clarified(r, s)
      BY <2>0, <2>2 DEF Ends
    <3>2. context[r].attempt = 2 => context[r].kind = "old"
      BY <1>1 DEF AccessInv, OldTwice
    <3> QED BY <1>1, <2>2, <3>1, <3>2 DEF Clarified
  <2>3. CASE Refuse(r) \/ Serve(r)
    <3>0. pc[r] = "answered"
      BY <2>3 DEF Refuse, Serve
    <3>1. board[r] \in Times /\ board[r] <= clock /\ history[name[r]][board[r]] # "gone"
      BY <1>1, <3>0 DEF AccessInv, BoardInv, BoardTypeOK, Truthful
    <3>2. clock - started[r] <= MaxRequest /\ started[r] - board[r] < Expire + MaxRequest
      BY <1>1, <3>0 DEF AccessInv, BoardInv, RequestAges, FreshAtStart
    <3>3. board[r] \in Recent
      BY <2>0, <3>1, <3>2 DEF Recent, Times
    <3>4. history[name[r]][board[r]] \in {"public", "over18"}
      BY <2>0, <3>1 DEF Statuses
    <3>5. ASSUME Refuse(r), ~(screen'[r] = "notFound" /\ context[r].kind = "old")
          PROVE  screen'[r] \in Proper(r, history[name[r]][board[r]])
      <4>1. Verdict(r) \in {"ask", "notFound"} /\ Ends(r, Verdict(r))
        BY <3>5 DEF Refuse, Verdict, HasPermViewBoard
      <4>2. screen'[r] = Verdict(r)
        BY <2>2, <3>5, <4>1
      <4> QED BY <3>4, <4>1, <4>2 DEF Verdict, HasPermViewBoard, IsCrawler, IsOver18, Proper
    <3>6. ASSUME Serve(r), ~(screen'[r] = "notFound" /\ context[r].kind = "old")
          PROVE  screen'[r] \in Proper(r, history[name[r]][board[r]])
      <4>1. PICK s \in {IF HasOldFilename(r) THEN "notFound" ELSE "page", "error"} : Ends(r, s)
        BY <3>6 DEF Serve
      <4>2. screen'[r] = "page"
        BY <2>2, <3>6, <4>1 DEF HasOldFilename
      <4>3. Verdict(r) = "ok"
        BY <3>6 DEF Serve
      <4> QED BY <3>4, <4>2, <4>3 DEF Verdict, HasPermViewBoard, IsCrawler, IsOver18, Proper
    <3> QED BY <2>1, <2>3, <3>3, <3>5, <3>6
  <2>4. CASE BoardRefused(r)
    <3>1. PICK t \in started[r] .. clock : history[name[r]][t] = "gone"
      BY <2>4 DEF BoardRefused
    <3>2. clock - started[r] <= MaxRequest
      BY <1>1, <2>4 DEF BoardRefused, AccessInv, BoardInv, RequestAges
    <3>3. t \in Recent
      BY <2>0, <3>1, <3>2 DEF Recent, Times
    <3>4. screen'[r] = "notFound"
      BY <2>0, <2>4 DEF BoardRefused, Ends, Clarified
    <3> QED BY <3>1, <3>3, <3>4 DEF Proper
  <2>5. CASE BoardFails(r)
    <3>1. screen'[r] = Clarified(r, "error")
      BY <2>0, <2>5 DEF BoardFails, Ends
    <3>2. screen'[r] = "notFound" /\ context[r].kind = "old"
      BY <1>1, <3>1 DEF Clarified, AccessInv, OldTwice
    <3> QED BY <2>1, <3>2
  <2>6. BoardRefused(r) \/ BoardFails(r) \/ Refuse(r) \/ Serve(r)
    <3>1. ASSUME NEW q \in Requests, HandlerStep(q), q = r
          PROVE  <2>6
      BY <1>1, <3>1 DEF HandlerStep, ReadBoard, StoreBoard, LookupAgain, GoesOn, TryOlder
    <3>2. ASSUME NEW q \in Requests, HandlerStep(q), q # r
          PROVE  screen'[r] = screen[r]
      BY <2>0, <3>2 DEF HandlerStep, ReadBoard, BoardRefused, BoardFails, StoreBoard, Refuse, Serve,
                        TryOlder, LookupAgain, GoesOn, Ends
    <3>3. ASSUME NEW q \in Requests, NEW n, NEW k, Request(q, n, k)
          PROVE  screen'[r] \in {"loading", screen[r]}
      BY <2>0, <3>3 DEF Request
    <3>4. ASSUME NEW q \in Requests, OpenMisnamed(q) \/ Yes(q) \/ No(q)
          PROVE  q # r /\ screen'[r] = screen[r]
      BY <1>1, <2>0, <3>4 DEF OpenMisnamed, Yes, No
    <3>5. TimePasses \/ UNCHANGED accessVars => screen' = screen
      BY DEF TimePasses, accessVars
    <3> QED BY <1>1, <3>1, <3>2, <3>3, <3>4, <3>5 DEF AccessNext, Open, ReaderAnswers, GoBack
  <2> QED BY <2>3, <2>4, <2>5, <2>6
<1>2. AccessInv /\ [AccessNext]_accessVars => [\A r \in Requests : Answered(r) => Justified(r)]_accessVars
  BY <1>1
<1> QED BY <1>2, AccessAlways, PTL DEF AccessSpec, AnswersAreOfOneMoment

-----------------------------------------------------------------------------
(* Pages of the index: what is always so *)

\* The numbers of posts: they only grow, and are those of the present until
\* the next posts arrive.
Counts ==
  /\ count \in [Times -> 0 .. MaxPosts]
  /\ \A t, u \in Times : t <= u => count[t] <= count[u]
  /\ \A t \in Times : clock <= t => count[t] = count[clock]

\* A request works for a reader with a record that is not older than
\* FreshBoards promises for the moment it was found, nor than BoundedRegress
\* promises to one who has followed a link.
Records ==
  \A r \in Requests :
    /\ pc[r] # "idle" => name[r] = TheBoard
    /\ pc[r] = "answered" =>
         /\ board[r] <= clock /\ board[r] <= newest[TheBoard]
         /\ started[r] - board[r] < Expire + MaxRequest
         /\ walk[r] # None => walk[r].link - MaxRequest <= board[r]

\* A page as it is stored: the times it was made of, and when it expires.
PageObjects == [page : Nat, at : Times, listed : Times, expire : Nat]

\* What an answer to the request for page want is: the snapshots it is made
\* from are not older than age, and the page is one of those that the record
\* counts, the last one if no page was asked for.
Answer(want, o, age) ==
  /\ o \in PageObjects
  /\ o.at <= newest[TheBoard]
  /\ clock <= o.at + age /\ clock <= o.listed + age
  /\ IsPage(o.page, count[o.at])
  /\ o.page = IF want = 0 THEN PageCount(count[o.at]) ELSE want

\* An entry of memcached answers until it expires.
Entry(want, o) ==
  /\ Answer(want, o, Staleness)
  /\ clock < o.expire
  /\ o.expire <= o.at + Staleness + 1 /\ o.expire <= o.listed + Staleness + 1

\* memcached has such entries and no others.
PagesCached ==
  /\ DOMAIN mc = PageNumbers
  /\ \A n \in PageNumbers : mc[n] # None => Entry(n, mc[n])

\* What a reader asks for, and how far the walk has come.
Walks ==
  [want : PageNumbers, older : BOOLEAN, begun : Times, link : Times,
   ended : {"no", "finished", "lost"}]

\* The posts a reader has been promised.
Promised(w) == 1 .. count[w.begun - Staleness]

\* Of those it has seen what lies before the page it wants, or behind it.
SeenSoFar(w, posts) ==
  IF w.older
  THEN w.want # 0 => \A i \in Promised(w) : w.want * PerPage < i => i \in posts
  ELSE w.want # 0 /\ \A i \in Promised(w) : i <= Cursor(w.want) => i \in posts

\* A walk that has gone where links led it.
GoodWalk(w, posts) ==
  /\ w \in Walks
  /\ w.begun <= clock /\ w.link <= newest[TheBoard]
  /\ w.want <= PageCount(count[w.link])
  /\ w.ended = "no" /\ w.begun >= Staleness => SeenSoFar(w, posts)
  /\ w.ended = "finished" /\ w.begun >= Staleness => Promised(w) \subseteq posts
  /\ w.ended = "lost" /\ w.link >= MaxRequest =>
       w.want > PageCount(count[w.link - MaxRequest])

\* Every reader is on such a walk.
Readers ==
  /\ DOMAIN walk = Requests /\ DOMAIN seen = Requests
  /\ \A r \in Requests : walk[r] # None => GoodWalk(walk[r], seen[r])

\* The inductive invariant of the listing, with that of the board cache.
PagesInv == Counts /\ Records /\ PagesCached /\ Readers

ListingInv == BoardInv /\ PagesInv

-----------------------------------------------------------------------------
(* Numbers of pages *)

\* The pages hold all entries, and the last one is needed.
LEMMA PagesHoldEntries ==
  ASSUME NEW n \in Nat
  PROVE  /\ PageCount(n) \in Nat /\ 1 <= PageCount(n)
         /\ n <= PageCount(n) * PerPage
         /\ PageCount(n) = 1 \/ (PageCount(n) - 1) * PerPage < n
<1> DEFINE d == n \div PerPage
           m == n % PerPage
<1>1. PerPage \in Nat /\ PerPage > 0
  BY PagingAssumption
<1>2. d \in Nat /\ m \in 0 .. PerPage - 1 /\ m = n - PerPage * d
  BY <1>1
<1>3. PageCount(n) = IF d + (IF m > 0 THEN 1 ELSE 0) = 0 THEN 1 ELSE d + (IF m > 0 THEN 1 ELSE 0)
  BY DEF PageCount
<1> HIDE DEF d, m
<1>4. PerPage * d = d * PerPage /\ (d + 1) * PerPage = d * PerPage + PerPage /\ d * PerPage \in Nat
  BY <1>1, <1>2
<1>5. CASE m > 0
  <2>1. PageCount(n) = d + 1
    BY <1>2, <1>3, <1>5
  <2> QED BY <1>1, <1>2, <1>4, <1>5, <2>1
<1>6. CASE m = 0 /\ d > 0
  <2>1. PageCount(n) = d
    BY <1>2, <1>3, <1>6
  <2>2. (d - 1) * PerPage = d * PerPage - PerPage
    BY <1>1, <1>2
  <2> QED BY <1>1, <1>2, <1>4, <1>6, <2>1, <2>2
<1>7. CASE m = 0 /\ d = 0
  <2>1. PageCount(n) = 1
    BY <1>2, <1>3, <1>7
  <2> QED BY <1>1, <1>2, <1>4, <1>7, <2>1
<1> QED BY <1>2, <1>5, <1>6, <1>7

\* More posts make no fewer pages.
LEMMA PagesGrow ==
  ASSUME NEW m \in Nat, NEW n \in Nat, m <= n
  PROVE  PageCount(m) <= PageCount(n)
<1> DEFINE p == PageCount(m)
           q == PageCount(n)
<1>1. /\ p \in Nat /\ q \in Nat /\ 1 <= q /\ n <= q * PerPage
      /\ p = 1 \/ (p - 1) * PerPage < m
  BY PagesHoldEntries
<1>2. PerPage \in Nat
  BY PagingAssumption
<1> HIDE DEF p, q
<1>3. ASSUME q < p PROVE FALSE
  <2>1. q <= p - 1 /\ p - 1 \in Nat
    BY <1>1, <1>3
  <2>2. q * PerPage <= (p - 1) * PerPage
    BY <1>1, <1>2, <2>1
  <2>3. (p - 1) * PerPage < m
    BY <1>1, <1>3
  <2>4. q * PerPage \in Nat /\ (p - 1) * PerPage \in Nat
    BY <1>1, <1>2, <2>1
  <2> QED BY <1>1, <2>2, <2>3, <2>4
<1> QED BY <1>1, <1>3 DEF p, q

\* A page holds what lies between its beginning and that of the next one.
LEMMA PageEnds ==
  ASSUME NEW n \in Nat, 1 <= n
  PROVE  /\ Cursor(n) \in Nat /\ n * PerPage \in Nat
         /\ Cursor(n) + PerPage = n * PerPage
         /\ Cursor(n + 1) = n * PerPage
         /\ Cursor(1) = 0
BY PagingAssumption DEF Cursor

\* A record never counts more pages than there are numbers for.
LEMMA PagesOfBoards ==
  ASSUME Counts, NEW t \in Times
  PROVE  /\ count[t] \in Nat /\ PageCount(count[t]) \in PageNumbers
         /\ 1 <= PageCount(count[t]) /\ PageCount(count[t]) <= MaxPage
         /\ count[t] <= PageCount(count[t]) * PerPage
<1>1. count[t] \in Nat /\ MaxPosts \in Nat /\ count[t] <= MaxPosts
  BY IndexPagesAssumption DEF Counts
<1>2. PageCount(count[t]) <= PageCount(MaxPosts)
  BY <1>1, PagesGrow
<1> QED BY <1>1, <1>2, PagesHoldEntries DEF PageNumbers, MaxPage

-----------------------------------------------------------------------------
(* The steps on board records *)

\* Every step of the listing is one of the board cache, or leaves it alone.
LEMMA StepsOfBoards == [Next]_vars => [BoardNext]_boardVars
<1> SUFFICES ASSUME [Next]_vars PROVE [BoardNext]_boardVars
  OBVIOUS
<1>1. TheBoard \in Names
  BY IndexPagesAssumption
<1>2. ASSUME NEW r \in Requests, Begin(r) \/ AskBoard(r) PROVE BoardNext
  BY <1>1, <1>2 DEF Begin, AskBoard, BoardNext
<1>3. ASSUME NEW r \in Requests, FetchBoard(r) PROVE BoardNext
  BY <1>3 DEF FetchBoard, BoardNext
<1>4. ASSUME NEW r \in Requests, Hit(r) \/ Generate(r) \/ GenerateFails(r) \/ NotFound(r)
      PROVE  BoardNext
  BY <1>4 DEF Hit, Generate, GenerateFails, NotFound, Show, BoardNext
<1>5. ASSUME NEW r \in Requests, End(r) PROVE UNCHANGED boardVars
  BY <1>5 DEF End
<1>6. CASE Arrive
  BY <1>6 DEF Arrive, BoardNext
<1>7. CASE UNCHANGED vars
  BY <1>7 DEF vars
<1> QED BY <1>2, <1>3, <1>4, <1>5, <1>6, <1>7 DEF Next

\* The listing uses the board cache as BoardCache describes it: its readers
\* are some of the callers of getBoardByName.
THEOREM ListingUsesTheBoardCache == Spec => BoardSpec
<1>1. Init => BoardInit
  BY DEF Init
<1> QED BY <1>1, StepsOfBoards, PTL DEF Spec, BoardSpec

-----------------------------------------------------------------------------
(* What remains true *)

\* The types of times and durations.
LEMMA Moments ==
  ASSUME BoardInv
  PROVE  /\ clock \in Times /\ newest[TheBoard] \in Times /\ newest[TheBoard] <= clock
         /\ \A t \in Times : t \in Nat
         /\ Staleness \in Nat /\ MaxRequest \in Nat /\ Expire \in Nat /\ PageTimeout \in Nat
         /\ Staleness = PageTimeout + Expire + 2 * MaxRequest - 2
<1>1. TheBoard \in Names
  BY IndexPagesAssumption
<1>2. clock \in Times /\ newest[TheBoard] \in Times /\ newest[TheBoard] <= clock
  BY <1>1 DEF BoardInv, BoardTypeOK, EntryAges
<1>3. /\ Staleness \in Nat /\ MaxRequest \in Nat /\ Expire \in Nat /\ PageTimeout \in Nat
      /\ Staleness = PageTimeout + Expire + 2 * MaxRequest - 2
  BY BoardCacheAssumption, IndexPagesAssumption DEF Staleness
<1> QED BY <1>2, <1>3 DEF Times

\* A walk stays as good as it was, whatever arrives.
LEMMA WalkKept ==
  ASSUME BoardInv, BoardInv', clock <= clock', newest[TheBoard] <= newest'[TheBoard],
         \A t \in Times : t <= clock => count'[t] = count[t],
         NEW r, NEW w, NEW posts, GoodWalk(w, posts), walk'[r] = w, seen'[r] = posts
  PROVE  GoodWalk(walk[r], seen[r])'
<1>1. /\ clock \in Nat /\ clock' \in Nat /\ newest[TheBoard] \in Nat /\ newest'[TheBoard] \in Nat
      /\ newest[TheBoard] <= clock /\ Staleness \in Nat /\ MaxRequest \in Nat
  <2>1. clock' \in Nat /\ newest'[TheBoard] \in Nat
    BY IndexPagesAssumption DEF BoardInv, BoardTypeOK, Times
  <2> QED BY <2>1, Moments
<1>2. /\ w \in Walks /\ w.begun \in Times /\ w.link \in Times /\ w.begun \in Nat /\ w.link \in Nat
      /\ w.begun <= clock /\ w.link <= newest[TheBoard]
  BY DEF GoodWalk, Walks, Times
<1>3. count'[w.link] = count[w.link]
  BY <1>1, <1>2
<1>4. w.begun >= Staleness => count'[w.begun - Staleness] = count[w.begun - Staleness]
  BY <1>1, <1>2, BoardCacheAssumption DEF Times
<1>5. w.link >= MaxRequest => count'[w.link - MaxRequest] = count[w.link - MaxRequest]
  BY <1>1, <1>2, BoardCacheAssumption DEF Times
<1>6. w.begun <= clock' /\ w.link <= newest'[TheBoard]
  BY <1>1, <1>2
<1> QED BY <1>2, <1>3, <1>4, <1>5, <1>6 DEF GoodWalk, SeenSoFar, Promised

\* An entry stays as good as it was until it expires.
LEMMA EntryKept ==
  ASSUME BoardInv, BoardInv', clock <= clock', newest[TheBoard] <= newest'[TheBoard],
         \A t \in Times : t <= clock => count'[t] = count[t],
         NEW n, NEW o, Entry(n, o), clock' < o.expire, mc'[n] = o
  PROVE  Entry(n, mc[n])'
<1>1. /\ clock \in Nat /\ clock' \in Nat /\ newest[TheBoard] \in Nat /\ newest'[TheBoard] \in Nat
      /\ newest[TheBoard] <= clock /\ Staleness \in Nat
  <2>1. clock' \in Nat /\ newest'[TheBoard] \in Nat
    BY IndexPagesAssumption DEF BoardInv, BoardTypeOK, Times
  <2> QED BY <2>1, Moments
<1>2. /\ o \in PageObjects /\ o.at \in Times /\ o.at \in Nat /\ o.listed \in Nat /\ o.expire \in Nat
      /\ o.at <= newest[TheBoard]
      /\ o.expire <= o.at + Staleness + 1 /\ o.expire <= o.listed + Staleness + 1
  BY DEF Entry, Answer, PageObjects, Times
<1>3. count'[o.at] = count[o.at]
  BY <1>1, <1>2
<1>4. o.at <= newest'[TheBoard] /\ clock' <= o.at + Staleness /\ clock' <= o.listed + Staleness
  BY <1>1, <1>2
<1> QED BY <1>2, <1>3, <1>4 DEF Entry, Answer, IsPage

-----------------------------------------------------------------------------
(* What requests are answered with *)

\* The request r looks up the board for a walk that follows a link which is
\* not newer than what has been returned.
LEMMA LookupRecords ==
  ASSUME BoardInv, Records, NEW r \in Requests, Lookup(r, TheBoard),
         walk'[r] # None => walk'[r].link \in Nat /\ walk'[r].link <= newest[TheBoard],
         \A q \in Requests \ {r} : walk'[q] = walk[q]
  PROVE  Records'
<1>1. /\ TheBoard \in Names /\ BoardTypeOK
      /\ clock \in Nat /\ newest[TheBoard] \in Nat /\ newest[TheBoard] <= clock
      /\ MaxRequest \in Nat /\ Expire \in Nat /\ \A t \in Times : t \in Nat
      /\ DOMAIN newest = Names
  BY IndexPagesAssumption, Moments DEF BoardInv, BoardTypeOK
<1>2. pc[r] = "idle" /\ clock' = clock /\ name' = [name EXCEPT ![r] = TheBoard]
      /\ started' = [started EXCEPT ![r] = clock]
  BY DEF Lookup
<1>3. newest[TheBoard] <= newest'[TheBoard] /\ newest'[TheBoard] \in Nat
  <2>1. CASE Live(brdCache[TheBoard])
    <3>1. brdCache[TheBoard].at \in Nat
      BY <1>1, <2>1, EntryTypes DEF Live
    <3> QED BY <1>1, <2>1, <3>1 DEF Lookup, Later
  <2>2. CASE ~Live(brdCache[TheBoard])
    BY <1>1, <2>2 DEF Lookup
  <2> QED BY <2>1, <2>2
<1>4. ASSUME NEW q \in Requests, q # r
      PROVE  /\ pc'[q] # "idle" => name'[q] = TheBoard
             /\ pc'[q] = "answered" =>
                  /\ board'[q] <= clock' /\ board'[q] <= newest'[TheBoard]
                  /\ started'[q] - board'[q] < Expire + MaxRequest
                  /\ walk'[q] # None => walk'[q].link - MaxRequest <= board'[q]
  <2>1. /\ pc'[q] = pc[q] /\ name'[q] = name[q] /\ started'[q] = started[q] /\ board'[q] = board[q]
        /\ walk'[q] = walk[q]
    BY <1>1, <1>4 DEF Lookup, BoardTypeOK
  <2>2. pc[q] = "answered" => board[q] \in Nat
    BY <1>1 DEF BoardTypeOK
  <2> QED BY <1>1, <1>2, <1>3, <2>1, <2>2 DEF Records
<1>5. ASSUME pc'[r] = "answered"
      PROVE  /\ board'[r] <= clock' /\ board'[r] <= newest'[TheBoard]
             /\ started'[r] - board'[r] < Expire + MaxRequest
             /\ walk'[r] # None => walk'[r].link - MaxRequest <= board'[r]
  <2> DEFINE e == brdCache[TheBoard]
  <2>1. Live(e)
    BY <1>1, <1>5 DEF Lookup, BoardTypeOK
  <2>2. /\ e # None /\ clock < e.expire
        /\ board'[r] = e.at /\ newest'[TheBoard] = Later(newest[TheBoard], e.at)
        /\ started'[r] = clock
    BY <1>1, <1>2, <2>1 DEF Lookup, BoardTypeOK, Live
  <2>3. /\ e.at \in Nat /\ e.expire \in Int /\ e.at <= clock
        /\ e.expire - Expire <= e.at + MaxRequest
        /\ newest[TheBoard] <= e.at + MaxRequest
    BY <1>1, <2>2, EntryTypes DEF BoardInv, EntryAges
  <2> HIDE DEF e
  <2> QED BY <1>1, <1>2, <2>2, <2>3 DEF Later
<1>6. name'[r] = TheBoard
  BY <1>1, <1>2 DEF BoardTypeOK
<1> QED BY <1>4, <1>5, <1>6 DEF Records

\* A fetch leaves records that are true of their time.
LEMMA FetchRecords ==
  ASSUME BoardInv, Records, Readers, NEW r \in Requests, Read(r) \/ Fail(r) \/ Set(r), walk' = walk
  PROVE  Records' /\ newest[TheBoard] <= newest'[TheBoard]
<1>1. /\ TheBoard \in Names /\ BoardTypeOK
      /\ clock \in Nat /\ newest[TheBoard] \in Nat /\ newest[TheBoard] <= clock
      /\ MaxRequest \in Nat /\ Expire \in Nat /\ Expire > 0 /\ \A t \in Times : t \in Nat
      /\ DOMAIN newest = Names
  BY IndexPagesAssumption, BoardCacheAssumption, Moments DEF BoardInv, BoardTypeOK
<1>2. CASE Read(r) \/ Fail(r)
  BY <1>1, <1>2 DEF Read, Fail, Records, BoardTypeOK
<1>3. CASE Set(r)
  <2>1. name[r] = TheBoard
    BY <1>3 DEF Set, Records
  <2>2. /\ newest'[TheBoard] = Later(newest[TheBoard], board[r])
        /\ pc' = [pc EXCEPT ![r] = "answered"]
        /\ UNCHANGED <<clock, name, started, board>>
    BY <1>1, <1>3, <2>1 DEF Set
  <2>3. /\ board[r] \in Nat /\ board[r] <= clock /\ clock <= board[r] + MaxRequest
        /\ started[r] \in Nat /\ started[r] <= board[r]
    BY <1>1, <1>3, SetInv DEF Set, BoardInv, BoardTypeOK, RequestAges
  <2>4. newest[TheBoard] <= newest'[TheBoard] /\ board[r] <= newest'[TheBoard] /\ newest'[TheBoard] \in Nat
    BY <1>1, <2>2, <2>3 DEF Later
  <2>5. ASSUME NEW q \in Requests, q # r, pc'[q] # "idle"
        PROVE  /\ name'[q] = TheBoard
               /\ pc'[q] = "answered" =>
                    /\ board'[q] <= clock' /\ board'[q] <= newest'[TheBoard]
                    /\ started'[q] - board'[q] < Expire + MaxRequest
                    /\ walk'[q] # None => walk'[q].link - MaxRequest <= board'[q]
    <3>1. pc'[q] = pc[q]
      BY <1>1, <2>2, <2>5 DEF BoardTypeOK
    <3>2. pc[q] = "answered" => board[q] \in Nat
      BY <1>1 DEF BoardTypeOK
    <3> QED BY <1>1, <2>2, <2>4, <2>5, <3>1, <3>2 DEF Records
  <2>6. walk[r] # None => walk[r].link \in Nat /\ walk[r].link <= newest[TheBoard]
    BY <1>1 DEF Readers, GoodWalk, Walks
  <2>7. /\ board[r] <= clock /\ board[r] <= newest'[TheBoard]
        /\ started[r] - board[r] < Expire + MaxRequest
        /\ walk[r] # None => walk[r].link - MaxRequest <= board[r]
    BY <1>1, <2>3, <2>4, <2>6
  <2>8. Records'
    BY <2>1, <2>2, <2>5, <2>7 DEF Records
  <2> QED BY <2>4, <2>8
<1> QED BY <1>2, <1>3

\* A request that leaves keeps the records of the others.
LEMMA LeaveRecords ==
  ASSUME BoardInv, Records, NEW r \in Requests, Leave(r),
         \A q \in Requests \ {r} : walk'[q] = walk[q]
  PROVE  Records'
BY DEF Leave, Records, BoardInv, BoardTypeOK

\* How old the record a request works with is: it was found before the
\* request ended, and began.
LEMMA RecordAge ==
  ASSUME BoardInv, Records, NEW r \in Requests, pc[r] = "answered"
  PROVE  /\ board[r] \in Times /\ board[r] <= clock /\ board[r] <= newest[TheBoard]
         /\ clock < board[r] + Expire + 2 * MaxRequest
<1>1. board[r] \in Times /\ started[r] \in Times
  BY DEF BoardInv, BoardTypeOK
<1>2. /\ started[r] <= clock /\ clock - started[r] <= MaxRequest
      /\ started[r] - board[r] < Expire + MaxRequest
      /\ board[r] <= clock /\ board[r] <= newest[TheBoard]
  BY DEF BoardInv, RequestAges, Records
<1> QED BY <1>1, <1>2, Moments

\* The page that is generated for a request is a good entry.
LEMMA GeneratedEntry ==
  ASSUME BoardInv, PagesInv, NEW r \in Requests, walk[r] # None, pc[r] = "answered",
         walk[r].want = 0 \/ IsPage(walk[r].want, count[board[r]]),
         NEW timeout \in Timeouts(walk[r].want)
  PROVE  Entry(walk[r].want, Generated(r, timeout))
<1> DEFINE o == Generated(r, timeout)
           b == board[r]
           n == PageNumber(r)
<1>1. /\ b \in Times /\ b \in Nat /\ b <= clock /\ b <= newest[TheBoard]
      /\ clock < b + Expire + 2 * MaxRequest
  BY RecordAge, Moments DEF PagesInv
<1>2. timeout \in Nat /\ 1 <= timeout /\ timeout <= PageTimeout
  BY IndexPagesAssumption DEF Timeouts
<1>3. PageCount(count[b]) \in Nat /\ 1 <= PageCount(count[b])
  <2>1. count[b] \in Nat
    BY <1>1, PagesOfBoards DEF PagesInv
  <2> QED BY <2>1, PagesHoldEntries
<1>4. walk[r].want \in Nat
  BY IndexPagesAssumption, PagesHoldEntries DEF PagesInv, Readers, GoodWalk, Walks, PageNumbers, MaxPage
<1>5. /\ n = IF walk[r].want = 0 THEN PageCount(count[b]) ELSE walk[r].want
      /\ n \in Nat /\ IsPage(n, count[b])
  BY <1>3, <1>4 DEF PageNumber, IsPage
<1>6. o = [page |-> n, at |-> b, listed |-> clock, expire |-> clock + timeout]
  BY DEF Generated
<1>7. /\ clock \in Times /\ clock \in Nat /\ Staleness \in Nat
      /\ MaxRequest \in Nat /\ Expire \in Nat /\ PageTimeout \in Nat
      /\ Staleness = PageTimeout + Expire + 2 * MaxRequest - 2
  BY Moments
<1> HIDE DEF o, b, n
<1>8. /\ clock <= b + Staleness /\ clock <= clock + Staleness
      /\ clock < clock + timeout
      /\ clock + timeout <= b + Staleness + 1 /\ clock + timeout <= clock + Staleness + 1
  <2>1. 1 <= Expire
    BY <1>7, BoardCacheAssumption
  <2> QED BY <1>1, <1>2, <1>7, <2>1
<1>9. o \in PageObjects
  BY <1>1, <1>2, <1>5, <1>6, <1>7 DEF PageObjects
<1> QED BY <1>1, <1>5, <1>6, <1>8, <1>9 DEF Entry, Answer, o

\* A walk is the same but for where it goes on, or that it is over.
LEMMA WalkGoesOn ==
  ASSUME NEW w \in Walks, NEW n, NEW at
  PROVE  [w EXCEPT !.want = n, !.link = at] =
           [want |-> n, older |-> w.older, begun |-> w.begun, link |-> at, ended |-> w.ended]
<1>1. PICK x : x = [w EXCEPT !.want = n]
  OBVIOUS
<1>2. x = [want |-> n, older |-> w.older, begun |-> w.begun, link |-> w.link, ended |-> w.ended]
  BY <1>1 DEF Walks
<1>3. [x EXCEPT !.link = at] =
        [want |-> n, older |-> w.older, begun |-> w.begun, link |-> at, ended |-> w.ended]
  BY <1>2
<1> QED BY <1>1, <1>3

\* All that changes of a walk that ends is its end.
LEMMA WalkStops ==
  ASSUME NEW w \in Walks, NEW e
  PROVE  [w EXCEPT !.ended = e] =
           [want |-> w.want, older |-> w.older, begun |-> w.begun, link |-> w.link, ended |-> e]
BY DEF Walks

\* The reader is shown a page, and goes on from there.
LEMMA ShowWalk ==
  ASSUME BoardInv, Counts, NEW w, NEW posts, GoodWalk(w, posts), w.ended = "no",
         NEW o, Answer(w.want, o, Staleness)
  PROVE  LET more == posts \cup Listed(o.page, count[o.listed]) IN
         /\ HasLink(w.older, o) =>
              GoodWalk([w EXCEPT !.want = Link(w.older, o), !.link = o.at], more)
         /\ ~HasLink(w.older, o) => GoodWalk([w EXCEPT !.ended = "finished"], more)
<1> DEFINE more == posts \cup Listed(o.page, count[o.listed])
           t == w.begun - Staleness
<1>1. /\ w \in Walks /\ w.want \in PageNumbers /\ w.older \in BOOLEAN
      /\ w.begun \in Nat /\ w.begun \in Times /\ w.link \in Times /\ w.begun <= clock
      /\ w.link <= newest[TheBoard] /\ w.want <= PageCount(count[w.link])
      /\ w.begun >= Staleness => SeenSoFar(w, posts)
  BY DEF GoodWalk, Walks, Times
<1>2. /\ o.page \in Nat /\ o.at \in Times /\ o.at \in Nat /\ o.listed \in Times /\ o.listed \in Nat
      /\ o.at <= newest[TheBoard]
      /\ clock <= o.at + Staleness /\ clock <= o.listed + Staleness
      /\ 1 <= o.page /\ o.page <= PageCount(count[o.at])
      /\ o.page = IF w.want = 0 THEN PageCount(count[o.at]) ELSE w.want
  BY DEF Answer, PageObjects, IsPage, Times
<1>3. /\ count[o.at] \in Nat /\ count[o.listed] \in Nat
      /\ PageCount(count[o.at]) \in Nat /\ PageCount(count[o.at]) <= MaxPage
      /\ count[o.at] <= PageCount(count[o.at]) * PerPage
  BY <1>2, PagesOfBoards, PagesHoldEntries
<1>4. MaxPage \in Nat /\ PerPage \in Nat
  BY IndexPagesAssumption, PagingAssumption, PagesHoldEntries DEF MaxPage
\* The posts the reader was promised were there for both snapshots.
<1>5. ASSUME w.begun >= Staleness
      PROVE  /\ count[t] \in Nat /\ count[t] <= count[o.at] /\ count[t] <= count[o.listed]
  <2>1. t \in Times /\ t <= o.at /\ t <= o.listed
    BY <1>1, <1>2, <1>5, Moments, BoardCacheAssumption DEF Times
  <2> QED BY <1>2, <2>1 DEF Counts
<1>6. /\ Cursor(o.page) \in Nat /\ Cursor(o.page) + PerPage = o.page * PerPage
      /\ Cursor(o.page + 1) = o.page * PerPage /\ o.page * PerPage \in Nat /\ Cursor(1) = 0
      /\ o.page = 1 \/ (o.page - 1) * PerPage = Cursor(o.page)
  BY <1>2, PageEnds DEF Cursor
<1>7. ASSUME w.begun >= Staleness, NEW i \in Promised(w), Cursor(o.page) < i, i <= o.page * PerPage
      PROVE  i \in more
  BY <1>3, <1>5, <1>6, <1>7 DEF Promised, Listed
<1>8. ASSUME w.begun >= Staleness, NEW i \in Promised(w)
      PROVE  i \in Nat /\ 1 <= i /\ i <= count[t] /\ i <= PageCount(count[o.at]) * PerPage
  BY <1>3, <1>4, <1>5, <1>8 DEF Promised
<1>9. ASSUME NEW n \in PageNumbers, n # 0, n <= PageCount(count[o.at]),
             w.begun >= Staleness =>
               IF w.older THEN \A i \in Promised(w) : n * PerPage < i => i \in more
                          ELSE \A i \in Promised(w) : i <= Cursor(n) => i \in more
      PROVE  GoodWalk([w EXCEPT !.want = n, !.link = o.at], more)
  <2> DEFINE x == [want |-> n, older |-> w.older, begun |-> w.begun, link |-> o.at,
                   ended |-> w.ended]
  <2>1. w \in Walks
    BY <1>1
  <2>2. [w EXCEPT !.want = n, !.link = o.at] = x
    BY <2>1, WalkGoesOn
  <2>3. x \in Walks
    BY <1>1, <1>2 DEF Walks
  <2>4. w.begun >= Staleness => SeenSoFar(x, more)
    BY <1>9 DEF SeenSoFar, Promised
  <2>5. GoodWalk(x, more)
    BY <1>1, <1>2, <1>9, <2>3, <2>4 DEF GoodWalk
  <2> QED BY <2>2, <2>5
<1>10. ASSUME w.begun >= Staleness => Promised(w) \subseteq more
       PROVE  GoodWalk([w EXCEPT !.ended = "finished"], more)
  <2> DEFINE x == [want |-> w.want, older |-> w.older, begun |-> w.begun, link |-> w.link,
                   ended |-> "finished"]
  <2>1. [w EXCEPT !.ended = "finished"] = x
    BY <1>1, WalkStops
  <2>2. x \in Walks
    BY <1>1 DEF Walks
  <2>3. GoodWalk(x, more)
    BY <1>1, <1>10, <2>2 DEF GoodWalk, Promised
  <2> QED BY <2>1, <2>3
<1> HIDE DEF more, t
<1>11. CASE w.older
  <2>1. ASSUME w.begun >= Staleness, NEW i \in Promised(w), Cursor(o.page) < i
        PROVE  i \in more
    <3>1. CASE i <= o.page * PerPage
      BY <1>7, <2>1, <3>1
    <3>2. CASE ~(i <= o.page * PerPage)
      <4>1. w.want # 0 /\ o.page = w.want
        BY <1>2, <1>8, <2>1, <3>2
      <4>2. w.want * PerPage < i
        BY <1>6, <1>8, <2>1, <3>2, <4>1
      <4>3. i \in posts
        BY <1>1, <1>11, <2>1, <4>1, <4>2 DEF SeenSoFar
      <4> QED BY <4>3 DEF more
    <3> QED BY <3>1, <3>2
  <2>2. HasLink(w.older, o) <=> o.page > 1
    BY <1>11 DEF HasLink
  <2>3. CASE o.page > 1
    <3>1. Link(w.older, o) = o.page - 1
      BY <1>11 DEF Link
    <3>2. o.page - 1 \in PageNumbers /\ o.page - 1 # 0 /\ o.page - 1 <= PageCount(count[o.at])
      BY <1>2, <1>3, <1>4, <2>3 DEF PageNumbers
    <3>3. (o.page - 1) * PerPage = Cursor(o.page)
      BY <1>6, <2>3
    <3>4. GoodWalk([w EXCEPT !.want = o.page - 1, !.link = o.at], more)
      BY <1>9, <1>11, <2>1, <3>2, <3>3
    <3> QED BY <2>2, <2>3, <3>1, <3>4 DEF more
  <2>4. CASE ~(o.page > 1)
    <3>1. Cursor(o.page) = 0
      BY <1>2, <1>6, <2>4
    <3>2. w.begun >= Staleness => Promised(w) \subseteq more
      BY <1>8, <2>1, <3>1
    <3> QED BY <1>10, <2>2, <2>4, <3>2 DEF more
  <2> QED BY <2>3, <2>4
<1>12. CASE ~w.older
  <2>1. ASSUME w.begun >= Staleness, NEW i \in Promised(w), i <= o.page * PerPage
        PROVE  i \in more
    <3>1. CASE Cursor(o.page) < i
      BY <1>7, <2>1, <3>1
    <3>2. CASE ~(Cursor(o.page) < i)
      <4>1. w.want # 0 /\ o.page = w.want
        BY <1>1, <1>2, <1>12, <2>1 DEF SeenSoFar
      <4>2. i <= Cursor(w.want)
        BY <1>6, <1>8, <2>1, <3>2, <4>1
      <4>3. i \in posts
        BY <1>1, <1>12, <2>1, <4>1, <4>2 DEF SeenSoFar
      <4> QED BY <4>3 DEF more
    <3> QED BY <3>1, <3>2
  <2>2. HasLink(w.older, o) <=> o.page < PageCount(count[o.at])
    BY <1>12 DEF HasLink
  <2>3. CASE o.page < PageCount(count[o.at])
    <3>1. Link(w.older, o) = o.page + 1
      BY <1>12 DEF Link
    <3>2. o.page + 1 \in PageNumbers /\ o.page + 1 # 0 /\ o.page + 1 <= PageCount(count[o.at])
      BY <1>2, <1>3, <1>4, <2>3 DEF PageNumbers
    <3>3. Cursor(o.page + 1) = o.page * PerPage
      BY <1>6
    <3>4. GoodWalk([w EXCEPT !.want = o.page + 1, !.link = o.at], more)
      BY <1>9, <1>12, <2>1, <3>2, <3>3
    <3> QED BY <2>2, <2>3, <3>1, <3>4 DEF more
  <2>4. CASE ~(o.page < PageCount(count[o.at]))
    <3>1. o.page = PageCount(count[o.at])
      BY <1>2, <1>3, <2>4
    <3>2. w.begun >= Staleness => Promised(w) \subseteq more
      BY <1>8, <2>1, <3>1
    <3> QED BY <1>10, <2>2, <2>4, <3>2 DEF more
  <2> QED BY <2>3, <2>4
<1> QED BY <1>1, <1>11, <1>12

\* A reader that is walking is answered with a good page.
LEMMA ShowReaders ==
  ASSUME BoardInv, BoardInv', PagesInv, NEW r \in Requests, Walking(r),
         NEW o, Answer(walk[r].want, o, Staleness), Show(r, o), count' = count
  PROVE  Counts' /\ Records' /\ Readers'
<1>1. clock' = clock /\ newest' = newest /\ Leave(r)
  BY DEF Show, Leave
<1>2. DOMAIN walk = Requests /\ DOMAIN seen = Requests /\ GoodWalk(walk[r], seen[r])
  BY DEF PagesInv, Readers, Walking
<1>3. walk[r] \in Walks /\ walk[r].ended = "no"
  BY <1>2 DEF GoodWalk, Walking
<1> DEFINE w == IF HasLink(walk[r].older, o)
                THEN [walk[r] EXCEPT !.want = Link(walk[r].older, o), !.link = o.at]
                ELSE [walk[r] EXCEPT !.ended = "finished"]
           posts == seen[r] \cup Listed(o.page, count[o.listed])
<1>4. GoodWalk(w, posts)
  BY <1>2, <1>3, ShowWalk DEF PagesInv
<1>5. walk'[r] = w /\ DOMAIN walk' = Requests /\ \A q \in Requests \ {r} : walk'[q] = walk[q]
  BY <1>2, <1>3 DEF Show
<1>6. seen'[r] = posts /\ DOMAIN seen' = Requests /\ \A q \in Requests \ {r} : seen'[q] = seen[q]
  BY <1>2 DEF Show
<1>7. PICK x, y : x = w /\ y = posts
  OBVIOUS
<1>8. GoodWalk(x, y) /\ walk'[r] = x /\ seen'[r] = y
  BY <1>4, <1>5, <1>6, <1>7
<1> HIDE DEF w, posts
<1>9. clock \in Nat /\ clock' \in Nat /\ newest[TheBoard] \in Nat
  BY <1>1, Moments
<1>10. GoodWalk(walk[r], seen[r])'
  BY <1>1, <1>8, <1>9, WalkKept
<1>11. ASSUME NEW q \in Requests, q # r, walk'[q] # None PROVE GoodWalk(walk[q], seen[q])'
  <2>1. PICK u, v : u = walk[q] /\ v = seen[q]
    OBVIOUS
  <2>2. GoodWalk(u, v) /\ walk'[q] = u /\ seen'[q] = v
    BY <1>5, <1>6, <1>11, <2>1 DEF PagesInv, Readers
  <2> QED BY <1>1, <1>9, <2>2, WalkKept
<1>12. Readers'
  BY <1>5, <1>6, <1>10, <1>11 DEF Readers
<1>13. Records'
  BY <1>1, <1>5, LeaveRecords DEF PagesInv
<1>14. Counts'
  BY <1>1 DEF PagesInv, Counts
<1> QED BY <1>12, <1>13, <1>14

-----------------------------------------------------------------------------
(* The steps *)

\* The invariant holds of an empty cache.
LEMMA ListingInit == Init => ListingInv
<1> SUFFICES ASSUME Init PROVE ListingInv
  OBVIOUS
<1>1. BoardInv
  BY BoardInitInv DEF Init
<1>2. Counts
  BY <1>1, IndexPagesAssumption, Moments DEF Init, Counts
<1>3. Records /\ PagesCached /\ Readers
  BY DEF Init, BoardInit, Records, PagesCached, Readers
<1> QED BY <1>1, <1>2, <1>3 DEF ListingInv, PagesInv

\* A step at which no walk goes on and no page is cached.
LEMMA ReadersKept ==
  ASSUME BoardInv, BoardInv', Readers, clock <= clock', newest[TheBoard] <= newest'[TheBoard],
         \A t \in Times : t <= clock => count'[t] = count[t],
         DOMAIN walk' = Requests, DOMAIN seen' = Requests,
         NEW S \in SUBSET Requests,
         \A q \in S : walk'[q] = walk[q] /\ seen'[q] = seen[q],
         \A q \in Requests \ S : walk'[q] # None => GoodWalk(walk[q], seen[q])'
  PROVE  Readers'
<1>1. ASSUME NEW q \in S, walk'[q] # None PROVE GoodWalk(walk[q], seen[q])'
  <2>1. PICK u, v : u = walk[q] /\ v = seen[q]
    OBVIOUS
  <2>2. GoodWalk(u, v) /\ walk'[q] = u /\ seen'[q] = v
    BY <1>1, <2>1 DEF Readers
  <2> QED BY <2>2, WalkKept
<1> QED BY <1>1 DEF Readers

\* Entries in S stay until they expire; what else is there is an answer now.
LEMMA PagesKept ==
  ASSUME BoardInv, BoardInv', PagesCached, clock <= clock', newest[TheBoard] <= newest'[TheBoard],
         \A t \in Times : t <= clock => count'[t] = count[t],
         DOMAIN mc' = PageNumbers,
         NEW S \in SUBSET PageNumbers,
         \A n \in S : mc'[n] # None => mc'[n] = mc[n] /\ clock' < mc[n].expire,
         \A n \in PageNumbers \ S : mc'[n] # None => Entry(n, mc[n])'
  PROVE  PagesCached'
<1>1. ASSUME NEW n \in S, mc'[n] # None PROVE Entry(n, mc[n])'
  <2>1. PICK o : o = mc[n]
    OBVIOUS
  <2>2. Entry(n, o) /\ mc'[n] = o /\ clock' < o.expire
    BY <1>1, <2>1 DEF PagesCached
  <2> QED BY <2>2, EntryKept
<1> QED BY <1>1 DEF PagesCached

\* The steps at which the clock stands still and memcached keeps what it has.
LEMMA PagesKeptNow ==
  ASSUME BoardInv, BoardInv', PagesInv, newest[TheBoard] <= newest'[TheBoard],
         clock' = clock, count' = count, mc' = mc
  PROVE  Counts' /\ PagesCached'
<1>1. Counts'
  BY DEF PagesInv, Counts
<1>2. \A n \in PageNumbers : mc[n] # None => clock < mc[n].expire
  BY DEF PagesInv, PagesCached, Entry
<1>3. PagesCached /\ clock \in Nat /\ DOMAIN mc = PageNumbers
  BY Moments DEF PagesInv, PagesCached
<1>4. PagesCached'
  <2> DEFINE S == PageNumbers
  <2>1. S \in SUBSET PageNumbers /\ PageNumbers \ S = {}
    OBVIOUS
  <2>2. clock <= clock'
    BY <1>3
  <2> QED BY <1>2, <1>3, <2>1, <2>2, PagesKept
<1> QED BY <1>1, <1>4

\* What was returned before is not newer than what has been returned since.
LEMMA NewestGrows ==
  ASSUME BoardInv, NEW r \in Requests, Lookup(r, TheBoard)
  PROVE  newest[TheBoard] <= newest'[TheBoard] /\ clock' = clock
<1>1. newest[TheBoard] \in Nat /\ TheBoard \in Names /\ DOMAIN newest = Names
  BY Moments, IndexPagesAssumption DEF BoardInv, BoardTypeOK
<1>2. CASE Live(brdCache[TheBoard])
  <2>1. brdCache[TheBoard].at \in Nat
    BY <1>1, <1>2, EntryTypes, Moments DEF Live, BoardInv
  <2> QED BY <1>1, <1>2, <2>1 DEF Lookup, Later
<1>3. CASE ~Live(brdCache[TheBoard])
  BY <1>1, <1>3 DEF Lookup
<1>4. clock' = clock
  BY DEF Lookup
<1> QED BY <1>2, <1>3, <1>4

\* One lemma for each action: a reader asks for a page,
LEMMA BeginStep ==
  ASSUME ListingInv, BoardInv', NEW r \in Requests, Begin(r)
  PROVE  PagesInv'
<1>1. PICK older \in BOOLEAN :
        walk' = [walk EXCEPT ![r] = [want |-> IF older THEN 0 ELSE 1, older |-> older,
                                     begun |-> clock, link |-> 0, ended |-> "no"]]
  BY DEF Begin
<1>2. /\ BoardInv /\ PagesInv /\ Readers /\ Records /\ Counts
      /\ Lookup(r, TheBoard) /\ walk[r] = None /\ UNCHANGED <<count, mc, seen>>
  BY DEF ListingInv, PagesInv, Begin
<1>3. newest[TheBoard] <= newest'[TheBoard] /\ clock' = clock
  BY <1>2, NewestGrows
<1>4. Counts' /\ PagesCached'
  BY <1>2, <1>3, PagesKeptNow
<1> DEFINE w == [want |-> IF older THEN 0 ELSE 1, older |-> older,
                 begun |-> clock, link |-> 0, ended |-> "no"]
<1>5. 0 \in Times /\ 0 \in Nat /\ clock \in Times /\ clock \in Nat /\ newest[TheBoard] \in Nat
  BY <1>2, Moments, BoardCacheAssumption DEF Times
<1>6. 0 \in PageNumbers /\ 1 \in PageNumbers
  BY IndexPagesAssumption, PagesHoldEntries DEF PageNumbers, MaxPage
<1>7. GoodWalk(w, seen[r])
  <2>1. w \in Walks
    BY <1>5, <1>6 DEF Walks
  <2>2. PageCount(count[0]) \in Nat /\ 1 <= PageCount(count[0])
    BY <1>2, <1>5, PagesOfBoards DEF PageNumbers
  <2>3. SeenSoFar(w, seen[r])
    BY <1>2, <1>5, PageEnds, PagesOfBoards DEF SeenSoFar, Promised
  <2> QED BY <1>5, <2>1, <2>2, <2>3 DEF GoodWalk
<1>8. /\ DOMAIN walk' = Requests /\ DOMAIN seen' = Requests /\ seen' = seen
      /\ walk'[r] = w /\ \A q \in Requests \ {r} : walk'[q] = walk[q]
  BY <1>1, <1>2 DEF Readers
<1>9. PICK x, y : x = w /\ y = seen[r]
  OBVIOUS
<1>10. GoodWalk(x, y) /\ walk'[r] = x /\ seen'[r] = y /\ x.link = 0
  BY <1>7, <1>8, <1>9
<1> HIDE DEF w
<1>11. GoodWalk(walk[r], seen[r])'
  BY <1>2, <1>3, <1>5, <1>10, WalkKept
<1>12. Readers'
  <2> DEFINE S == Requests \ {r}
  <2>1. /\ S \in SUBSET Requests
        /\ \A q \in S : walk'[q] = walk[q] /\ seen'[q] = seen[q]
        /\ \A q \in Requests \ S : q = r
    BY <1>8
  <2>2. clock <= clock' /\ \A t \in Times : t <= clock => count'[t] = count[t]
    BY <1>2, <1>3, <1>5
  <2> HIDE DEF S
  <2> QED BY <1>2, <1>3, <1>8, <1>11, <2>1, <2>2, ReadersKept
<1>13. Records'
  BY <1>2, <1>5, <1>8, <1>10, LookupRecords
<1> QED BY <1>4, <1>12, <1>13 DEF PagesInv

\* A step that concerns the board records only.
LEMMA WalksKeptNow ==
  ASSUME BoardInv, BoardInv', PagesInv, newest[TheBoard] <= newest'[TheBoard],
         clock' = clock, UNCHANGED <<count, mc, walk, seen>>
  PROVE  Counts' /\ PagesCached' /\ Readers'
<1>1. Counts' /\ PagesCached'
  BY PagesKeptNow
<1>2. Readers'
  <2> DEFINE S == Requests
  <2>1. /\ S \in SUBSET Requests /\ Requests \ S = {}
        /\ \A q \in S : walk'[q] = walk[q] /\ seen'[q] = seen[q]
        /\ Readers /\ DOMAIN walk' = Requests /\ DOMAIN seen' = Requests
    BY DEF PagesInv, Readers
  <2>2. clock <= clock' /\ \A t \in Times : t <= clock => count'[t] = count[t]
    BY Moments
  <2> HIDE DEF S
  <2> QED BY <2>1, <2>2, ReadersKept
<1> QED BY <1>1, <1>2

\* the board record is asked for,
LEMMA AskStep ==
  ASSUME ListingInv, BoardInv', NEW r \in Requests, AskBoard(r)
  PROVE  PagesInv'
<1>1. /\ BoardInv /\ PagesInv /\ Records
      /\ Lookup(r, TheBoard) /\ UNCHANGED <<count, mc, walk, seen>>
  BY DEF ListingInv, PagesInv, AskBoard
<1>2. newest[TheBoard] <= newest'[TheBoard] /\ clock' = clock
  BY <1>1, NewestGrows
<1>3. Counts' /\ PagesCached' /\ Readers'
  BY <1>1, <1>2, WalksKeptNow
<1>4. walk'[r] # None => walk'[r].link \in Nat /\ walk'[r].link <= newest[TheBoard]
  BY <1>1 DEF PagesInv, Readers, GoodWalk, Walks, Times
<1>5. Records'
  BY <1>1, <1>4, LookupRecords
<1> QED BY <1>3, <1>5 DEF PagesInv

\* it is fetched,
LEMMA FetchStep ==
  ASSUME ListingInv, BoardInv', NEW r \in Requests, FetchBoard(r)
  PROVE  PagesInv'
<1>1. /\ BoardInv /\ PagesInv /\ Records /\ Readers
      /\ Read(r) \/ Fail(r) \/ Set(r)
      /\ UNCHANGED <<count, mc, walk, seen>>
  BY DEF ListingInv, PagesInv, FetchBoard
<1>2. Records' /\ newest[TheBoard] <= newest'[TheBoard]
  BY <1>1, FetchRecords
<1>3. clock' = clock
  BY <1>1 DEF Read, Fail, Set
<1>4. Counts' /\ PagesCached' /\ Readers'
  BY <1>1, <1>2, <1>3, WalksKeptNow
<1> QED BY <1>2, <1>4 DEF PagesInv

\* memcached has the page,
LEMMA HitStep ==
  ASSUME ListingInv, BoardInv', NEW r \in Requests, Hit(r)
  PROVE  PagesInv'
<1>1. /\ BoardInv /\ PagesInv /\ Walking(r) /\ mc[walk[r].want] # None
      /\ Show(r, mc[walk[r].want]) /\ UNCHANGED <<count, mc>>
  BY DEF ListingInv, Hit
<1>2. walk[r].want \in PageNumbers
  BY <1>1 DEF Walking, PagesInv, Readers, GoodWalk, Walks
<1>3. PICK o : o = mc[walk[r].want] /\ Answer(walk[r].want, o, Staleness)
  BY <1>1, <1>2 DEF PagesInv, PagesCached, Entry
<1>4. Counts' /\ Records' /\ Readers'
  BY <1>1, <1>3, ShowReaders
<1>5. clock' = clock /\ newest' = newest /\ newest[TheBoard] <= newest'[TheBoard]
  BY <1>1, Moments DEF Show, Leave
<1>6. PagesCached'
  BY <1>1, <1>5, PagesKeptNow
<1> QED BY <1>4, <1>6 DEF PagesInv

\* it is made,
LEMMA GenerateStep ==
  ASSUME ListingInv, BoardInv', NEW r \in Requests, Generate(r)
  PROVE  PagesInv'
<1>1. /\ BoardInv /\ PagesInv /\ PagesCached /\ Walking(r) /\ pc[r] = "answered"
      /\ walk[r].want = 0 \/ IsPage(walk[r].want, count[board[r]])
      /\ UNCHANGED count
  BY DEF ListingInv, PagesInv, Generate
<1>2. PICK timeout \in Timeouts(walk[r].want) :
        /\ mc' \in {mc, [mc EXCEPT ![walk[r].want] = Generated(r, timeout)]}
        /\ Show(r, Generated(r, timeout))
  BY DEF Generate
<1>3. PICK o : o = Generated(r, timeout) /\ Entry(walk[r].want, o)
  BY <1>1, GeneratedEntry DEF Walking
<1>4. Answer(walk[r].want, o, Staleness) /\ Show(r, o)
  BY <1>2, <1>3 DEF Entry
<1>5. Counts' /\ Records' /\ Readers'
  BY <1>1, <1>4, ShowReaders
<1>6. /\ clock' = clock /\ newest' = newest
      /\ newest[TheBoard] <= newest'[TheBoard] /\ clock <= clock'
      /\ \A t \in Times : t <= clock => count'[t] = count[t]
  BY <1>1, <1>2, Moments DEF Show, Leave
<1>7. PICK n \in PageNumbers : n = walk[r].want
  BY <1>1 DEF Walking, PagesInv, Readers, GoodWalk, Walks
<1>8. DOMAIN mc = PageNumbers /\ \A k \in PageNumbers : mc[k] # None => clock < mc[k].expire
  BY <1>1 DEF PagesCached, Entry
<1>9. mc' = mc \/ mc' = [mc EXCEPT ![n] = o]
  BY <1>2, <1>3, <1>7
<1>10. CASE mc' = mc
  BY <1>1, <1>5, <1>6, <1>10, PagesKeptNow DEF PagesInv
<1>11. CASE mc' = [mc EXCEPT ![n] = o]
  <2>1. /\ DOMAIN mc' = PageNumbers /\ mc'[n] = o
        /\ \A k \in PageNumbers \ {n} : mc'[k] = mc[k]
    BY <1>8, <1>11
  <2>2. Entry(n, o) /\ clock' < o.expire
    BY <1>3, <1>6, <1>7 DEF Entry
  <2>3. Entry(n, mc[n])'
    BY <1>1, <1>6, <2>1, <2>2, EntryKept
  <2> DEFINE S == PageNumbers \ {n}
  <2>4. /\ S \in SUBSET PageNumbers /\ \A k \in PageNumbers \ S : k = n
        /\ \A k \in S : mc'[k] # None => mc'[k] = mc[k] /\ clock' < mc[k].expire
    BY <1>6, <1>8, <2>1
  <2> HIDE DEF S
  <2>5. PagesCached'
    BY <1>1, <1>6, <2>1, <2>3, <2>4, PagesKept
  <2> QED BY <1>5, <2>5 DEF PagesInv
<1> QED BY <1>9, <1>10, <1>11

\* it cannot be made,
LEMMA GenerateFailsStep ==
  ASSUME ListingInv, BoardInv', NEW r \in Requests, GenerateFails(r)
  PROVE  PagesInv'
<1>1. BoardInv /\ PagesInv /\ Records /\ Leave(r) /\ UNCHANGED <<count, mc, walk, seen>>
  BY DEF ListingInv, PagesInv, GenerateFails
<1>2. clock' = clock /\ newest[TheBoard] <= newest'[TheBoard]
  BY <1>1, Moments DEF Leave
<1>3. Counts' /\ PagesCached' /\ Readers'
  BY <1>1, <1>2, WalksKeptNow
<1>4. Records'
  BY <1>1, LeaveRecords
<1> QED BY <1>3, <1>4 DEF PagesInv

\* A walk that is over, or has got lost.
LEMMA StopReaders ==
  ASSUME BoardInv, BoardInv', PagesInv, NEW r \in Requests, clock' = clock, newest' = newest,
         UNCHANGED <<count, mc>>,
         DOMAIN walk' = Requests, DOMAIN seen' = Requests,
         \A q \in Requests \ {r} : walk'[q] = walk[q] /\ seen'[q] = seen[q],
         NEW w, NEW posts, walk'[r] = w, seen'[r] = posts, w # None => GoodWalk(w, posts)
  PROVE  Counts' /\ PagesCached' /\ Readers'
<1>1. newest[TheBoard] <= newest'[TheBoard] /\ clock <= clock' /\ Readers
  BY Moments DEF PagesInv
<1>2. Counts' /\ PagesCached'
  BY <1>1, PagesKeptNow
<1>3. w # None => GoodWalk(walk[r], seen[r])'
  BY <1>1, WalkKept
<1>4. Readers'
  <2> DEFINE S == Requests \ {r}
  <2>1. S \in SUBSET Requests /\ \A q \in Requests \ S : q = r
    OBVIOUS
  <2>2. \A q \in S : walk'[q] = walk[q] /\ seen'[q] = seen[q]
    OBVIOUS
  <2> HIDE DEF S
  <2> QED BY <1>1, <1>3, <2>1, <2>2, ReadersKept
<1> QED BY <1>2, <1>4

\* The page that a link led to is not one of a record that is at most
\* MaxRequest older than the one the link was made from.
LEMMA NotFoundStep ==
  ASSUME ListingInv, BoardInv', NEW r \in Requests, NotFound(r)
  PROVE  PagesInv'
<1> DEFINE w == walk[r]
           x == [want |-> w.want, older |-> w.older, begun |-> w.begun, link |-> w.link,
                 ended |-> "lost"]
           b == board[r]
<1>1. /\ BoardInv /\ PagesInv /\ Counts /\ Records /\ walk[r] # None /\ pc[r] = "answered"
      /\ w.want # 0 /\ ~IsPage(w.want, count[b])
      /\ walk' = [walk EXCEPT ![r].ended = "lost"]
      /\ Leave(r) /\ UNCHANGED <<count, mc, seen>>
  BY DEF ListingInv, PagesInv, NotFound, Walking
<1>2. GoodWalk(w, seen[r]) /\ DOMAIN walk = Requests /\ DOMAIN seen = Requests
  BY <1>1 DEF PagesInv, Readers
<1>3. w \in Walks
  BY <1>2 DEF GoodWalk
<1>4. walk' = [walk EXCEPT ![r] = x]
  <2>1. [w EXCEPT !.ended = "lost"] = x
    BY <1>3, WalkStops
  <2>2. walk' = [walk EXCEPT ![r] = [w EXCEPT !.ended = "lost"]]
    BY <1>1
  <2> QED BY <2>1, <2>2
<1>5. /\ w.link \in Times /\ w.link \in Nat /\ MaxRequest \in Nat /\ b \in Times /\ b \in Nat
      /\ w.link - MaxRequest <= b /\ Horizon \in Nat
  BY <1>1, <1>3, Moments, BoardCacheAssumption DEF Walks, Records, BoardInv, BoardTypeOK
<1>6. w.want \in Nat
  BY <1>3, IndexPagesAssumption, PagesHoldEntries DEF Walks, PageNumbers, MaxPage
<1>7. w.want > PageCount(count[b]) /\ PageCount(count[b]) \in Nat /\ count[b] \in Nat
  <2>1. count[b] \in Nat
    BY <1>1, <1>5, PagesOfBoards
  <2> QED BY <1>1, <1>6, <2>1, PagesHoldEntries DEF IsPage
<1>8. ASSUME w.link >= MaxRequest PROVE w.want > PageCount(count[w.link - MaxRequest])
  <2> DEFINE t == w.link - MaxRequest
  <2>1. t \in Times /\ t <= b
    BY <1>5, <1>8 DEF Times
  <2>2. count[t] \in Nat /\ count[t] <= count[b]
    BY <1>1, <1>5, <2>1, PagesOfBoards DEF Counts
  <2>3. PageCount(count[t]) <= PageCount(count[b]) /\ PageCount(count[t]) \in Nat
    BY <1>7, <2>2, PagesGrow, PagesHoldEntries
  <2> QED BY <1>6, <1>7, <2>3
<1>9. GoodWalk(x, seen[r])
  <2>1. x \in Walks
    BY <1>3 DEF Walks
  <2> QED BY <1>2, <1>8, <2>1 DEF GoodWalk
<1>10. PICK y : y = x
  OBVIOUS
<1> HIDE DEF x
<1>11. /\ walk'[r] = y /\ GoodWalk(y, seen[r]) /\ seen' = seen
       /\ DOMAIN walk' = Requests /\ DOMAIN seen' = Requests
       /\ \A q \in Requests \ {r} : walk'[q] = walk[q] /\ seen'[q] = seen[q]
  BY <1>1, <1>2, <1>4, <1>9, <1>10
<1>12. PICK posts : posts = seen[r]
  OBVIOUS
<1>13. Counts' /\ PagesCached' /\ Readers'
  <2>1. clock' = clock /\ newest' = newest /\ UNCHANGED <<count, mc>>
    BY <1>1 DEF Leave
  <2>2. GoodWalk(y, posts) /\ seen'[r] = posts
    BY <1>11, <1>12
  <2> QED BY <1>1, <1>11, <2>1, <2>2, StopReaders
<1>14. Records'
  BY <1>1, <1>11, LeaveRecords
<1> QED BY <1>13, <1>14 DEF PagesInv

\* the request ends,
LEMMA EndStep ==
  ASSUME ListingInv, BoardInv', NEW r \in Requests, End(r)
  PROVE  PagesInv'
<1>1. /\ BoardInv /\ PagesInv /\ Readers /\ Records
      /\ walk' = [walk EXCEPT ![r] = None] /\ seen' = [seen EXCEPT ![r] = {}]
      /\ UNCHANGED <<boardVars, count, mc>>
  BY DEF ListingInv, PagesInv, End
<1>2. /\ DOMAIN walk' = Requests /\ DOMAIN seen' = Requests
      /\ walk'[r] = None /\ seen'[r] = {}
      /\ \A q \in Requests \ {r} : walk'[q] = walk[q] /\ seen'[q] = seen[q]
  BY <1>1 DEF Readers
<1>3. clock' = clock /\ newest' = newest /\ UNCHANGED <<count, mc>>
  BY <1>1 DEF boardVars
<1>4. Counts' /\ PagesCached' /\ Readers'
  BY <1>1, <1>2, <1>3, StopReaders
<1>5. Records'
  BY <1>1, <1>2 DEF boardVars, requestVars, Records
<1> QED BY <1>4, <1>5 DEF PagesInv

\* and a post arrives.
LEMMA ArriveStep ==
  ASSUME ListingInv, BoardInv', Arrive
  PROVE  PagesInv'
<1>1. /\ BoardInv /\ PagesInv /\ Counts /\ Records /\ PagesCached /\ Readers
      /\ clock' = clock + 1 /\ UNCHANGED <<pc, name, started, board, newest, walk, seen>>
      /\ mc' = [n \in DOMAIN mc |->
                  IF mc[n] # None /\ mc[n].expire <= clock' THEN None ELSE mc[n]]
  BY DEF ListingInv, PagesInv, Arrive, Tick, requestVars
<1>2. PICK n \in 0 .. MaxBurst :
        /\ count[clock] + n <= MaxPosts
        /\ count' = [t \in Times |-> IF t <= clock THEN count[t] ELSE count[clock] + n]
  BY DEF Arrive
<1>3. /\ clock \in Nat /\ clock \in Times /\ \A t \in Times : t \in Nat
      /\ n \in Nat /\ MaxPosts \in Nat /\ newest[TheBoard] \in Nat
  BY <1>1, Moments, IndexPagesAssumption
<1>4. \A t \in Times : t <= clock => count'[t] = count[t]
  BY <1>2
<1>5. Counts'
  <2>1. \A t \in Times : count[t] \in Nat /\ count[t] <= MaxPosts
    BY <1>1, <1>3 DEF Counts
  <2>2. count' \in [Times -> 0 .. MaxPosts]
    BY <1>2, <1>3, <2>1
  <2>3. ASSUME NEW t \in Times, NEW u \in Times, t <= u PROVE count'[t] <= count'[u]
    <3>1. CASE u <= clock
      BY <1>1, <1>2, <1>3, <2>3, <3>1 DEF Counts
    <3>2. CASE t <= clock /\ clock < u
      <4>1. count[t] <= count[clock]
        BY <1>1, <1>3, <3>2 DEF Counts
      <4>2. count'[t] = count[t] /\ count'[u] = count[clock] + n
        BY <1>2, <1>3, <3>2
      <4> QED BY <1>3, <2>1, <4>1, <4>2
    <3>3. CASE clock < t
      <4>1. count'[t] = count[clock] + n /\ count'[u] = count[clock] + n
        BY <1>2, <1>3, <2>3, <3>3
      <4> QED BY <1>3, <2>1, <4>1
    <3> QED BY <1>3, <2>3, <3>1, <3>2, <3>3
  <2>4. \A t \in Times : clock' <= t => count'[t] = count'[clock']
    <3>1. clock' \in Times
      BY DEF BoardInv, BoardTypeOK
    <3> QED BY <1>1, <1>2, <1>3, <3>1
  <2> QED BY <2>2, <2>3, <2>4 DEF Counts
<1>6. clock <= clock' /\ newest[TheBoard] <= newest'[TheBoard] /\ clock' \in Nat
  BY <1>1, <1>3
<1>7. Readers'
  <2> DEFINE S == Requests
  <2>1. /\ S \in SUBSET Requests /\ Requests \ S = {}
        /\ \A q \in S : walk'[q] = walk[q] /\ seen'[q] = seen[q]
        /\ DOMAIN walk' = Requests /\ DOMAIN seen' = Requests
    BY <1>1 DEF Readers
  <2> HIDE DEF S
  <2> QED BY <1>1, <1>4, <1>6, <2>1, ReadersKept
<1>8. PagesCached'
  <2> DEFINE S == PageNumbers
  <2>1. /\ S \in SUBSET PageNumbers /\ PageNumbers \ S = {} /\ DOMAIN mc' = PageNumbers
    BY <1>1 DEF PagesCached
  <2>2. ASSUME NEW k \in S, mc'[k] # None PROVE mc'[k] = mc[k] /\ clock' < mc[k].expire
    <3>1. mc'[k] = mc[k] /\ mc[k] # None /\ ~(mc[k].expire <= clock')
      BY <1>1, <2>1, <2>2 DEF PagesCached
    <3>2. mc[k].expire \in Nat
      BY <1>1, <3>1 DEF PagesCached, Entry, Answer, PageObjects
    <3> QED BY <1>6, <3>1, <3>2
  <2> HIDE DEF S
  <2> QED BY <1>1, <1>4, <1>6, <2>1, <2>2, PagesKept
<1>9. Records'
  <2>1. \A r \in Requests : pc[r] = "answered" => board[r] \in Nat
    BY <1>1, <1>3 DEF BoardInv, BoardTypeOK
  <2> QED BY <1>1, <1>3, <2>1 DEF Records
<1> QED BY <1>5, <1>7, <1>8, <1>9 DEF PagesInv

\* Every action keeps the invariant.
LEMMA ListingStep == ListingInv /\ [Next]_vars => ListingInv'
<1> SUFFICES ASSUME ListingInv, [Next]_vars PROVE ListingInv'
  OBVIOUS
<1>1. BoardInv'
  BY StepsOfBoards, BoardStep DEF ListingInv
<1>2. ASSUME NEW r \in Requests,
             \/ Begin(r) \/ AskBoard(r) \/ FetchBoard(r)
             \/ Hit(r) \/ Generate(r) \/ GenerateFails(r) \/ NotFound(r) \/ End(r)
      PROVE  PagesInv'
  BY <1>1, <1>2, BeginStep, AskStep, FetchStep, HitStep, GenerateStep, GenerateFailsStep,
     NotFoundStep, EndStep
<1>3. ASSUME Arrive PROVE PagesInv'
  BY <1>1, <1>3, ArriveStep
<1>4. ASSUME UNCHANGED vars PROVE PagesInv'
  BY <1>4 DEF vars, boardVars, requestVars, ListingInv, PagesInv, Counts, Records, PagesCached,
              Readers, Entry, Answer, GoodWalk, SeenSoFar, Promised
<1>5. PagesInv'
  BY <1>2, <1>3, <1>4 DEF Next
<1> QED BY <1>1, <1>5 DEF ListingInv

-----------------------------------------------------------------------------
(* The theorems *)

\* Whatever memcached has kept and the readers have seen comes from snapshots
\* of a known age (handleBbs, getBoardByName, generateBbsIndex).
THEOREM ListingInvariant == Spec => []ListingInv
<1>1. Init => ListingInv
  BY ListingInit
<1>2. ListingInv /\ [Next]_vars => ListingInv'
  BY ListingStep
<1> QED BY <1>1, <1>2, PTL DEF Spec

\* A reader that has walked through the whole board has seen every post that
\* was there Staleness before it began, whichever pages came from the cache
\* and whatever arrived meanwhile (generateBbsIndex and NewPaging).
THEOREM ReadersMissNothing == Spec => []WalksMissNothing
<1>1. ListingInv => WalksMissNothing
  BY DEF ListingInv, PagesInv, Readers, GoodWalk, Promised, WalksMissNothing
<1> QED BY <1>1, ListingInvariant, PTL

\* A link leads to a page that existed when its board record was read, and
\* it is dead only if that page had begun within MaxRequest before
\* (handleBbs, PrevPage and NextPage).
THEOREM OnlyYoungLinksAreDead == Spec => []DeadLinksAreYoung
<1>1. ListingInv => DeadLinksAreYoung
  BY DEF ListingInv, PagesInv, Readers, GoodWalk, DeadLinksAreYoung
<1> QED BY <1>1, ListingInvariant, PTL

=============================================================================
