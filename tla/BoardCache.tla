----------------------------- MODULE BoardCache -----------------------------
(***************************************************************************)
(* cached_inproc.go: the board records every request starts from are kept  *)
(* in the process for brdCacheExpire.  A record is what boardd answered    *)
(* once: its number of posts, its flags.  What matters of it here is how   *)
(* old it is, so a record is the time at which boardd read it.             *)
(*                                                                         *)
(* The two critical sections of brdCacheLk are one action each, time.Now() *)
(* is read inside them.  Between them lies an RPC without a lock: several  *)
(* requests may fetch the same board, and finish in any order.             *)
(***************************************************************************)
EXTENDS Integers

CONSTANTS Requests,    \* the requests that are handled concurrently
          Names,       \* board names, folded by strings.ToLower
          Expire,      \* brdCacheExpire
          MaxRequest,  \* how long a request takes at most: an assumption on
                       \* boardd and the network, the RPC has no deadline
          Horizon,     \* the clock stops here
          None         \* nil

ASSUME BoardCacheAssumption ==
  /\ Expire \in Nat \ {0} /\ MaxRequest \in Nat /\ Horizon \in Nat
  /\ None \notin Nat /\ None \notin [at : Nat, expire : Nat]

VARIABLES clock,
          brdCache,  \* brdCache[n]: the entry, or None
          pc,        \* where the request is in getBoardByNameCached
          name,      \* its argument brdname
          started,   \* when the request began, 0 between requests
          board,     \* the record it has fetched or found, or None
          newest     \* newest[n]: the newest record of n that was ever returned

requestVars == <<pc, name, started, board>>
boardVars == <<clock, brdCache, requestVars, newest>>

Times == 0 .. Horizon
PCs == {"idle", "fetching", "fetched", "answered"}
Entries == [at : Times, expire : 0 .. Horizon + Expire]

\* The types; a record is at hand exactly when it was fetched without error,
\* or found.
BoardTypeOK ==
  /\ clock \in Times
  /\ brdCache \in [Names -> Entries \cup {None}]
  /\ pc \in [Requests -> PCs]
  /\ name \in [Requests -> Names]
  /\ started \in [Requests -> Times]
  /\ board \in [Requests -> Times \cup {None}]
  /\ newest \in [Names -> Times]
  /\ \A r \in Requests : pc[r] \in {"fetched", "answered"} <=> board[r] # None

BoardInit ==
  /\ clock = 0
  /\ brdCache = [n \in Names |-> None]
  /\ pc = [r \in Requests |-> "idle"]
  /\ name \in [Requests -> Names]
  /\ started = [r \in Requests |-> 0]
  /\ board = [r \in Requests |-> None]
  /\ newest = [n \in Names |-> 0]

Later(a, b) == IF a < b THEN b ELSE a

-----------------------------------------------------------------------------
(* getBrdCache *)

\* Mutant: the entry is good for the instant at which it expires.
LiveOneLonger(e) == e # None /\ clock <= e.expire

\* time.Now().Before(entry.Expire)
Live(e) == e # None /\ clock < e.expire

\* The entry found is returned; an expired one is deleted and fetched again.
Lookup(r, n) ==
  /\ pc[r] = "idle"
  /\ name' = [name EXCEPT ![r] = n]
  /\ started' = [started EXCEPT ![r] = clock]
  /\ IF Live(brdCache[n])
     THEN /\ pc' = [pc EXCEPT ![r] = "answered"]
          /\ board' = [board EXCEPT ![r] = brdCache[n].at]
          /\ newest' = [newest EXCEPT ![n] = Later(@, brdCache[n].at)]
          /\ UNCHANGED brdCache
     ELSE /\ pc' = [pc EXCEPT ![r] = "fetching"]
          /\ brdCache' = [brdCache EXCEPT ![n] = None]
          /\ UNCHANGED <<board, newest>>
  /\ UNCHANGED clock

-----------------------------------------------------------------------------
(* ptt.GetBoards *)

\* boardd reads the board at some moment while the RPC is under way.
Read(r) ==
  /\ pc[r] = "fetching"
  /\ board' = [board EXCEPT ![r] = clock]
  /\ pc' = [pc EXCEPT ![r] = "fetched"]
  /\ UNCHANGED <<clock, brdCache, name, started, newest>>

\* Mutant: the error is dropped.
FailIgnored(r) ==
  /\ pc[r] \in {"fetching", "fetched"}
  /\ board' = [board EXCEPT ![r] = None]
  /\ pc' = [pc EXCEPT ![r] = "fetched"]
  /\ started' = [started EXCEPT ![r] = 0]
  /\ UNCHANGED <<clock, brdCache, name, newest>>

\* The RPC fails, before or after boardd has read: the caller gets the error
\* and the cache stays as it is.
Fail(r) ==
  /\ pc[r] \in {"fetching", "fetched"}
  /\ board' = [board EXCEPT ![r] = None]
  /\ pc' = [pc EXCEPT ![r] = "idle"]
  /\ started' = [started EXCEPT ![r] = 0]
  /\ UNCHANGED <<clock, brdCache, name, newest>>

-----------------------------------------------------------------------------
(* setBrdCache *)

\* Mutant: the entry somebody else has put there meanwhile is kept.
EntryUnlessThere(r) ==
  IF brdCache[name[r]] = None
  THEN [at |-> board[r], expire |-> clock + Expire]
  ELSE brdCache[name[r]]

EntryFor(r) == [at |-> board[r], expire |-> clock + Expire]

\* The record replaces whatever is there, and is returned.
Set(r) ==
  /\ pc[r] = "fetched"
  /\ brdCache' = [brdCache EXCEPT ![name[r]] = EntryFor(r)]
  /\ newest' = [newest EXCEPT ![name[r]] = Later(@, board[r])]
  /\ pc' = [pc EXCEPT ![r] = "answered"]
  /\ UNCHANGED <<clock, name, started, board>>

\* The handler has used its record and returns.
Leave(r) ==
  /\ pc[r] = "answered"
  /\ pc' = [pc EXCEPT ![r] = "idle"]
  /\ board' = [board EXCEPT ![r] = None]
  /\ started' = [started EXCEPT ![r] = 0]
  /\ UNCHANGED <<clock, brdCache, name, newest>>

\* Time passes, but no request takes longer than MaxRequest.
Tick ==
  /\ clock < Horizon
  /\ \A r \in Requests : pc[r] # "idle" => clock - started[r] < MaxRequest
  /\ clock' = clock + 1
  /\ UNCHANGED <<brdCache, requestVars, newest>>

-----------------------------------------------------------------------------

BoardNext ==
  \/ \E r \in Requests :
       \/ \E n \in Names : Lookup(r, n)
       \/ Read(r) \/ Fail(r) \/ Set(r) \/ Leave(r)
  \/ Tick

BoardSpec == BoardInit /\ [][BoardNext]_boardVars

-----------------------------------------------------------------------------
(* Properties *)

Answers(r) == pc[r] # "answered" /\ pc'[r] = "answered"

\* A request never works with a record older than the expiry and the duration
\* of the request that fetched it, whoever fetched it and in whatever order
\* the fetches ended.
FreshBoards ==
  [][\A r \in Requests : Answers(r) => clock - board'[r] < Expire + MaxRequest]_boardVars

\* What readers see of a board goes back in time by the duration of one
\* request at most: the fetch that began first may well end last and put its
\* older record over a newer one that others have been given.
BoundedRegress ==
  [][\A r \in Requests : Answers(r) => board'[r] >= newest[name'[r]] - MaxRequest]_boardVars

=============================================================================
