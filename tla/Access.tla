------------------------------- MODULE Access -------------------------------
(***************************************************************************)
(* What becomes of a request for something on a board: pttweb.go's         *)
(* ErrorWrapper, getBoardByName, hasPermViewBoard, handleAskOver18 and      *)
(* handleArticleCommon, over the board cache (module BoardCache, whose      *)
(* actions every handler goes through).                                    *)
(*                                                                         *)
(* A member of Requests is a tab that opens one thing.  The tabs belong to  *)
(* one reader and share a cookie jar.  The boards change while requests are *)
(* under way: history[n][t] is what board n was at time t, so that a cached *)
(* record, which is the time at which boardd read it, stands for the board  *)
(* as it was then.                                                         *)
(***************************************************************************)
EXTENDS BoardCache, FiniteSets

CONSTANTS EnableOver18Cookie,  \* config.EnableOver18Cookie
          MaxChanges           \* bound: how often a board changes

ASSUME AccessAssumption ==
  /\ EnableOver18Cookie \in BOOLEAN
  /\ MaxChanges \in Nat

\* A public board; one for which readers must be of age; one boardd does not
\* give to the web (deleted, or hidden: codes.NotFound, PermissionDenied).
Statuses == {"public", "over18", "gone"}

\* A list, a search or an article; the same for the user agent of a crawler; the
\* feed; an article id whose file has an older name than the one made from it.
Kinds == {"page", "crawl", "feed", "old"}

\* Context and what the handler has on its stack: what it was asked for, the
\* depth of handleArticleCommon, the cookie.
Contexts == [kind : Kinds, attempt : 1 .. 2, hasOver18Cookie : BOOLEAN]
NoContext == [kind |-> "page", attempt |-> 1, hasOver18Cookie |-> FALSE]

Settled == {"page", "home", "notFound", "error"}
Screens == Settled \cup {"blank", "loading", "ask", "sent"}

VARIABLES history,
          context,          \* the request the tab has made
          screen,           \* what the tab shows
          consented         \* the cookie is in the reader's jar

accessVars == <<boardVars, history, context, screen, consented>>

AccessTypeOK ==
  /\ BoardTypeOK
  /\ history \in [Names -> [Times -> Statuses]]
  /\ context \in [Requests -> Contexts]
  /\ screen \in [Requests -> Screens]
  /\ consented \in BOOLEAN
  /\ \A r \in Requests :
       /\ pc[r] # "idle" => screen[r] = "loading"
       /\ screen[r] = "loading" /\ pc[r] = "idle" => context[r].attempt = 2
       /\ screen[r] \in Settled \cup {"blank"} => context[r] = NoContext

AccessInit ==
  /\ BoardInit
  /\ history \in {[n \in Names |-> [t \in Times |-> s[n]]] : s \in [Names -> Statuses]}
  /\ context = [r \in Requests |-> NoContext]
  /\ screen = [r \in Requests |-> "blank"]
  /\ consented = FALSE

-----------------------------------------------------------------------------
(* Requests reach the server. *)

CheckOver18Cookie == consented

\* handleRequest and MergeFromRequest, then the lookup of getBoardByName.
Request(r, n, k) ==
  /\ Lookup(r, n)
  /\ screen' = [screen EXCEPT ![r] = "loading"]
  /\ context' = [context EXCEPT ![r] =
       [kind |-> k, attempt |-> 1, hasOver18Cookie |-> CheckOver18Cookie]]
  /\ UNCHANGED <<history, consented>>

Open(r, n, k) == screen[r] = "blank" /\ Request(r, n, k)

\* A name that IsValidBrdName refuses.
OpenMisnamed(r) ==
  /\ screen[r] = "blank"
  /\ screen' = [screen EXCEPT ![r] = "notFound"]
  /\ UNCHANGED <<boardVars, history, context, consented>>

-----------------------------------------------------------------------------
(* Answers. *)

\* The second call of handleArticleCommon failed, with whatever error: the
\* first one returns its own, ErrNotFound.
Clarified(r, s) == IF context[r].attempt = 2 /\ s # "page" THEN "notFound" ELSE s

\* The handler returns, and the tab shows s.  The URL of the question keeps
\* what was asked for.
Ends(r, s) ==
  /\ screen' = [screen EXCEPT ![r] = Clarified(r, s)]
  /\ context' = [context EXCEPT ![r] = IF Clarified(r, s) = "ask" THEN @ ELSE NoContext]
  /\ UNCHANGED <<history, consented>>

GoesOn == UNCHANGED <<history, context, screen, consented>>

\* ptt.GetBoards: boardd does not give a board that is gone.
\* clarifyRemoteError makes the 404 page of its status and leaves every other
\* error, which becomes a 500.
ReadBoard(r) == history[name[r]][clock] # "gone" /\ Read(r) /\ GoesOn

BoardRefused(r) ==
  /\ pc[r] = "fetching"
  /\ \E t \in started[r] .. clock : history[name[r]][t] = "gone"
  /\ Fail(r)
  /\ Ends(r, "notFound")

BoardFails(r) == Fail(r) /\ Ends(r, "error")

StoreBoard(r) == Set(r) /\ GoesOn

IsCrawler(r) == context[r].kind = "crawl"

\* The feed's handler calls SetSkipOver18.
IsOver18(r) == context[r].hasOver18Cookie \/ context[r].kind = "feed"

\* Mutant: whoever comes by an article id is let in.
PermByAid(r, s) ==
  IF s # "over18" \/ context[r].kind \in {"old", "crawl"} \/ IsOver18(r) THEN "ok"
  ELSE IF EnableOver18Cookie THEN "ask" ELSE "notFound"

\* hasPermViewBoard, for a record of a board that was s: nil or its error.
HasPermViewBoard(r, s) ==
  IF s # "over18" THEN "ok"
  ELSE IF ~EnableOver18Cookie THEN "notFound"
  ELSE IF IsCrawler(r) \/ IsOver18(r) THEN "ok" ELSE "ask"

Verdict(r) == HasPermViewBoard(r, history[name[r]][board[r]])

\* The error is a page: 404, or a redirect to the question, which the browser
\* follows.
Refuse(r) ==
  /\ pc[r] = "answered" /\ Verdict(r) # "ok"
  /\ Leave(r)
  /\ Ends(r, Verdict(r))

\* oldFilename: the file is not there by the name made from the id.
HasOldFilename(r) == context[r].kind = "old" /\ context[r].attempt = 1

\* cacheMgr.Get has the page, or its generator's error; of a file that is not
\* there boardd sends no content (TryOlder) or a status.
Serve(r) ==
  /\ pc[r] = "answered" /\ Verdict(r) = "ok"
  /\ Leave(r)
  /\ \E s \in {IF HasOldFilename(r) THEN "notFound" ELSE "page", "error"} : Ends(r, s)

\* On ErrNotFound handleArticleCommon calls itself, and looks the board up again.
TryOlder(r) ==
  /\ pc[r] = "answered" /\ Verdict(r) = "ok"
  /\ HasOldFilename(r)
  /\ Leave(r)
  /\ context' = [context EXCEPT ![r].attempt = 2]
  /\ UNCHANGED <<history, screen, consented>>

LookupAgain(r) ==
  /\ screen[r] = "loading" /\ pc[r] = "idle"
  /\ Lookup(r, name[r])
  /\ GoesOn

-----------------------------------------------------------------------------
(* handleAskOver18: from is the URL the reader was sent here from. *)

\* Mutant: the cookie is not set.
YesWithoutCookie(r) ==
  /\ screen[r] = "ask"
  /\ screen' = [screen EXCEPT ![r] = "sent"]
  /\ UNCHANGED <<boardVars, history, context, consented>>

Yes(r) ==
  /\ screen[r] = "ask"
  /\ screen' = [screen EXCEPT ![r] = "sent"]
  /\ consented' = TRUE
  /\ UNCHANGED <<boardVars, history, context>>

No(r) ==
  /\ screen[r] = "ask"
  /\ screen' = [screen EXCEPT ![r] = "home"]
  /\ context' = [context EXCEPT ![r] = NoContext]
  /\ UNCHANGED <<boardVars, history, consented>>

\* The browser follows Location.
GoBack(r) == screen[r] = "sent" /\ Request(r, name[r], context[r].kind)

-----------------------------------------------------------------------------

Changes(n) == Cardinality({t \in Times \ {0} : history[n][t] # history[n][t - 1]})

\* The board n is s from the next moment on.
Becomes(n, s) == [t \in Times |-> IF t <= clock THEN history[n][t] ELSE s]

\* Time passes, except between two lines of one handler.
TimePasses ==
  /\ Tick
  /\ \A r \in Requests : screen[r] = "loading" => pc[r] # "idle"
  /\ \/ UNCHANGED history
     \/ \E n \in Names, s \in Statuses :
          Changes(n) < MaxChanges /\ history' = [history EXCEPT ![n] = Becomes(n, s)]
  /\ UNCHANGED <<context, screen, consented>>

HandlerStep(r) ==
  \/ ReadBoard(r) \/ BoardRefused(r) \/ BoardFails(r) \/ StoreBoard(r)
  \/ Refuse(r) \/ Serve(r) \/ TryOlder(r) \/ LookupAgain(r)

ReaderAnswers(r) == Yes(r) \/ No(r) \/ GoBack(r)

AccessNext ==
  \/ \E r \in Requests :
       \/ \E n \in Names, k \in Kinds : Open(r, n, k)
       \/ OpenMisnamed(r)
       \/ HandlerStep(r) \/ ReaderAnswers(r)
  \/ TimePasses

AccessSpec == AccessInit /\ [][AccessNext]_accessVars

\* Handlers run, and boardd answers or the connection fails; a reader who is
\* asked says yes or no, and the browser follows a redirect.  Nobody is obliged
\* to open anything, and the clock need not run.
AccessFairness ==
  \A r \in Requests : WF_accessVars(HandlerStep(r)) /\ WF_accessVars(ReaderAnswers(r))

FairAccessSpec == AccessSpec /\ AccessFairness

-----------------------------------------------------------------------------
(* Properties *)

\* What may be shown to the tab r of a board that is s, errors apart.  The 404
\* for the id of an old article: a status of boardd, or anything that went wrong
\* with the second call, also that the reader would have to be asked.
Proper(r, s) ==
  {CASE s = "gone"   -> "notFound"
     [] s = "public" -> "page"
     [] s = "over18" ->
          IF ~EnableOver18Cookie THEN "notFound"
          ELSE IF context[r].kind \in {"crawl", "feed"} \/ context[r].hasOver18Cookie
          THEN "page" ELSE "ask"}
  \cup (IF context[r].kind = "old" THEN {"notFound"} ELSE {})

\* How old the record behind an answer may be: one request may have fetched it
\* and another one worked with it.
Recent == {t \in Times : t <= clock /\ clock - t < Expire + 2 * MaxRequest}

\* Whatever is shown, to the crawler, the reader of age and the one who is
\* not, was proper for the board as it was at some recent moment, however many
\* requests fetched, cached and overtook each other's records meanwhile.
AnswersAreOfOneMoment ==
  [][\A r \in Requests :
       screen[r] = "loading" /\ screen'[r] \notin {"loading", "error"} =>
         \E t \in Recent : screen'[r] \in Proper(r, history[name[r]][t])]_accessVars

\* Whatever is opened ends with a page, an error page, or at home: being asked,
\* answering and being sent back does not go round in circles, and the second
\* look at an article is the last one.
VisitsEnd ==
  \A r \in Requests : screen[r] \in {"loading", "ask", "sent"} ~> screen[r] \in Settled

=============================================================================
