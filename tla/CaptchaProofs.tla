--------------------------- MODULE CaptchaProofs ----------------------------
(***************************************************************************)
(* Theorems about Captcha for any handles, keys, inserts and requests.     *)
(***************************************************************************)
EXTENDS Captcha, TLAPS

\* A page has no key before the request is answered, and between the verdict
\* and the second fetch the entry, if there is one, was there since.
OnTheWay ==
  \A r \in Requests :
    /\ pc[r] # "answered" => page[r] = Blank
    /\ pc[r] = "verified" =>
         /\ solved[r] = "right"
         /\ redis[handle[r]] # None => redis[handle[r]] \in since[r]

CaptchaInv == CaptchaTypeOK /\ KeysStand /\ OnTheWay /\ ShownKeysAreLive

LEMMA CaptchaInit == Init => CaptchaInv
BY CaptchaAssumption
   DEF Init, CaptchaInv, CaptchaTypeOK, KeysStand, OnTheWay, ShownKeysAreLive, PCs,
       CaptchaPages, Errs, Blank

-----------------------------------------------------------------------------
(* Inserts *)

\* Requests do not notice what an insert does, unless it stores.
LEMMA QuietInsert ==
  ASSUME CaptchaInv, NEW i \in Inserts,
         Ask(i) \/ Refuse(i) \/ Conflict(i) \/ SetFails(i)
  PROVE  CaptchaInv'
<1>1. UNCHANGED <<redis, requestVars, told, since>>
  BY DEF Ask, Refuse, Conflict, SetFails
<1>2. insert' \in [Inserts -> Insertions \cup {None}]
  <2>1. CASE Ask(i)
    BY <2>1 DEF CaptchaInv, CaptchaTypeOK, Ask, Insertions, Statuses
  <2>2. CASE Refuse(i) \/ Conflict(i) \/ SetFails(i)
    BY <2>2 DEF CaptchaInv, CaptchaTypeOK, Refuse, Conflict, SetFails, Admitted, Sent, Reply,
                Insertions, Statuses
  <2> QED BY <2>1, <2>2
<1> QED
  BY <1>1, <1>2 DEF CaptchaInv, CaptchaTypeOK, KeysStand, OnTheWay, ShownKeysAreLive, requestVars

\* A handle that has no entry has told nobody anything, and the new key is
\* there since then for whoever is verified.
LEMMA Storing ==
  ASSUME CaptchaInv, NEW i \in Inserts, SetNX(i)
  PROVE  CaptchaInv'
<1> DEFINE h == insert[i].handle
           k == insert[i].key
<1>1. insert[i] \in Insertions /\ h \in Handles \ LongHandles /\ k \in Keys
  BY DEF CaptchaInv, CaptchaTypeOK, SetNX, Admitted, BadRequest, Sent, Insertions
<1>2. insert' \in [Inserts -> Insertions \cup {None}]
  <2>1. \A st \in Statuses : Reply(i, st) => insert' \in [Inserts -> Insertions \cup {None}]
    BY <1>1 DEF CaptchaInv, CaptchaTypeOK, Reply, Insertions
  <2> QED BY <2>1 DEF SetNX, Statuses
<1>3. UNCHANGED requestVars /\ redis[h] = None /\ redis' = [redis EXCEPT ![h] = k]
  BY DEF SetNX, Stored
<1>4. /\ since' \in [Requests -> SUBSET Keys]
      /\ \A r \in Requests :
           since'[r] = IF pc[r] = "verified" /\ handle[r] = h THEN since[r] \cup {k} ELSE since[r]
  BY <1>1 DEF SetNX, Stored, CaptchaInv, CaptchaTypeOK
<1>5. told[h] = {} /\ (told' = told \/ told' = [told EXCEPT ![h] = @ \cup {k}])
  BY <1>1, <1>3, CaptchaAssumption DEF SetNX, CaptchaInv, CaptchaTypeOK, KeysStand
<1> HIDE DEF h, k
<1>6. CaptchaTypeOK'
  BY <1>1, <1>2, <1>3, <1>4, <1>5 DEF CaptchaInv, CaptchaTypeOK, requestVars
<1>7. KeysStand'
  BY <1>1, <1>3, <1>5 DEF CaptchaInv, CaptchaTypeOK, KeysStand
<1>8. OnTheWay'
  BY <1>1, <1>3, <1>4 DEF CaptchaInv, CaptchaTypeOK, OnTheWay, requestVars
<1>9. ShownKeysAreLive'
  BY <1>3, <1>4 DEF CaptchaInv, ShownKeysAreLive, requestVars
<1> QED BY <1>6, <1>7, <1>8, <1>9 DEF CaptchaInv

-----------------------------------------------------------------------------
(* Requests *)

\* A new request has no page yet.
LEMMA Visiting ==
  ASSUME CaptchaInv, NEW r \in Requests, Visit(r)
  PROVE  CaptchaInv'
<1>1. /\ UNCHANGED <<redis, insert, told>>
      /\ pc' = [pc EXCEPT ![r] = "checking"] /\ page' = [page EXCEPT ![r] = Blank]
      /\ since' = [since EXCEPT ![r] = {}]
  BY DEF Visit
<1>2. PICK h \in Handles : handle' = [handle EXCEPT ![r] = h]
  BY DEF Visit
<1>3. PICK s \in {"no", "wrong", "right"} : solved' = [solved EXCEPT ![r] = s]
  BY DEF Visit
<1>4. Blank \in CaptchaPages /\ Blank.key = None
  BY DEF Blank, CaptchaPages, Errs
<1>5. CaptchaTypeOK'
  BY <1>1, <1>2, <1>3, <1>4 DEF CaptchaInv, CaptchaTypeOK, PCs
<1>6. KeysStand'
  BY <1>1 DEF CaptchaInv, KeysStand
<1>7. OnTheWay' /\ ShownKeysAreLive'
  BY <1>1, <1>2, <1>3, <1>4 DEF CaptchaInv, CaptchaTypeOK, OnTheWay, ShownKeysAreLive
<1> QED BY <1>5, <1>6, <1>7 DEF CaptchaInv

\* A request that fails, or has to be verified, gets no key.
LEMMA Waiting ==
  ASSUME CaptchaInv, NEW r \in Requests, FetchFails(r) \/ Check(r) \/ VerifyFails(r)
  PROVE  CaptchaInv'
<1>1. /\ UNCHANGED <<redis, insert, handle, solved, told, since>>
      /\ pc[r] # "answered" /\ page[r] = Blank
  BY DEF FetchFails, Check, VerifyFails, CaptchaInv, OnTheWay
<1>2. PICK p \in {"answered", "verifying"} : pc' = [pc EXCEPT ![r] = p]
  BY DEF FetchFails, Check, VerifyFails, Fail
<1>3. \/ page' = page
      \/ p = "answered" /\ \E err \in Errs : page' = [page EXCEPT ![r].err = err]
  <2>1. CASE Check(r)
    BY <2>1 DEF Check
  <2>2. CASE FetchFails(r) \/ VerifyFails(r)
    <3>1. pc' = [pc EXCEPT ![r] = "answered"] /\ \E err \in Errs : page' = [page EXCEPT ![r].err = err]
      BY <2>2 DEF FetchFails, VerifyFails, Fail, Errs
    <3> QED BY <1>2, <3>1 DEF CaptchaInv, CaptchaTypeOK
  <2> QED BY <2>1, <2>2
<1>4. /\ page' \in [Requests -> CaptchaPages] /\ page'[r].key = None
      /\ \A q \in Requests : q # r => page'[q] = page[q] /\ pc'[q] = pc[q]
      /\ pc'[r] = p /\ (p = "verifying" => page'[r] = Blank)
  BY <1>1, <1>2, <1>3 DEF CaptchaInv, CaptchaTypeOK, CaptchaPages, Blank
<1>5. CaptchaTypeOK'
  BY <1>1, <1>2, <1>4 DEF CaptchaInv, CaptchaTypeOK, PCs
<1>6. KeysStand'
  BY <1>1 DEF CaptchaInv, KeysStand
<1>7. OnTheWay' /\ ShownKeysAreLive'
  BY <1>1, <1>2, <1>4 DEF CaptchaInv, OnTheWay, ShownKeysAreLive
<1> QED BY <1>5, <1>6, <1>7 DEF CaptchaInv

\* The verdict: what is in redis now is there since.
LEMMA Verifying ==
  ASSUME CaptchaInv, NEW r \in Requests, Verify(r)
  PROVE  CaptchaInv'
<1>1. /\ UNCHANGED <<redis, insert, handle, solved, page, told>>
      /\ solved[r] = "right" /\ pc[r] = "verifying"
      /\ pc' = [pc EXCEPT ![r] = "verified"]
      /\ since' = [since EXCEPT ![r] = {redis[handle[r]]} \ {None}]
  BY DEF Verify
<1>2. handle[r] \in Handles /\ redis[handle[r]] \in Keys \cup {None}
  BY DEF CaptchaInv, CaptchaTypeOK
<1>3. /\ since' \in [Requests -> SUBSET Keys]
      /\ redis[handle[r]] # None => redis[handle[r]] \in since'[r]
      /\ \A q \in Requests : q # r => since'[q] = since[q] /\ pc'[q] = pc[q]
      /\ pc'[r] = "verified" /\ pc' \in [Requests -> PCs]
  BY <1>1, <1>2 DEF CaptchaInv, CaptchaTypeOK, PCs
<1>4. page[r].key = None
  BY <1>1 DEF CaptchaInv, OnTheWay, Blank
<1> QED
  BY <1>1, <1>3, <1>4 DEF CaptchaInv, CaptchaTypeOK, KeysStand, OnTheWay, ShownKeysAreLive

\* The second fetch finds a key that is there since the verdict.
LEMMA Showing ==
  ASSUME CaptchaInv, NEW r \in Requests, Show(r)
  PROVE  CaptchaInv'
<1> DEFINE k == redis[handle[r]]
<1>1. /\ handle[r] \in Handles /\ k \in Keys /\ Fetch(handle[r]) = k
      /\ pc[r] = "verified" /\ solved[r] = "right" /\ k \in since[r]
      /\ page[r] = Blank
  BY DEF Show, Fetch, CaptchaInv, CaptchaTypeOK, OnTheWay
<1>2. /\ UNCHANGED <<redis, insert, handle, solved, since>>
      /\ pc' = [pc EXCEPT ![r] = "answered"]
      /\ page' = [page EXCEPT ![r].key = k]
      /\ told' = [told EXCEPT ![handle[r]] = @ \cup {k}]
  BY <1>1 DEF Show
<1>3. /\ page' \in [Requests -> CaptchaPages] /\ page'[r].key = k /\ page'[r].err = "none"
      /\ \A q \in Requests : q # r => page'[q] = page[q] /\ pc'[q] = pc[q]
      /\ pc'[r] = "answered"
  BY <1>1, <1>2 DEF CaptchaInv, CaptchaTypeOK, CaptchaPages, Blank
<1>4. CaptchaTypeOK'
  BY <1>1, <1>2, <1>3 DEF CaptchaInv, CaptchaTypeOK, PCs
<1>5. KeysStand'
  BY <1>1, <1>2 DEF CaptchaInv, CaptchaTypeOK, KeysStand
<1>6. OnTheWay' /\ ShownKeysAreLive'
  BY <1>1, <1>2, <1>3 DEF CaptchaInv, OnTheWay, ShownKeysAreLive
<1> QED BY <1>4, <1>5, <1>6 DEF CaptchaInv

-----------------------------------------------------------------------------

\* An expired key has been told to nobody.
LEMMA Expiring ==
  ASSUME CaptchaInv, NEW h \in Handles, Expire(h)
  PROVE  CaptchaInv'
BY DEF CaptchaInv, CaptchaTypeOK, KeysStand, OnTheWay, ShownKeysAreLive, Expire, requestVars

LEMMA CaptchaStep == CaptchaInv /\ [Next]_vars => CaptchaInv'
<1> SUFFICES ASSUME CaptchaInv, [Next]_vars PROVE CaptchaInv'
  OBVIOUS
<1>1. CASE UNCHANGED vars
  BY <1>1 DEF CaptchaInv, CaptchaTypeOK, KeysStand, OnTheWay, ShownKeysAreLive, vars, requestVars
<1>2. CASE Next
  BY <1>2, QuietInsert, Storing, Visiting, Waiting, Verifying, Showing, Expiring DEF Next
<1> QED BY <1>1, <1>2

LEMMA CaptchaAlways == Spec => []CaptchaInv
BY CaptchaInit, CaptchaStep, PTL DEF Spec

\* The types, and that every entry in redis is one that can be fetched.
THEOREM CaptchaTyping == Spec => []CaptchaTypeOK
BY CaptchaAlways, PTL DEF CaptchaInv

\* A key that was acknowledged or shown is its handle's key until it expires.
THEOREM ToldKeysStand == Spec => []KeysStand
BY CaptchaAlways, PTL DEF CaptchaInv

\* A key is shown only after a verified response, and was live after that.
THEOREM OnlyLiveKeysAreShown == Spec => []ShownKeysAreLive
BY CaptchaAlways, PTL DEF CaptchaInv

=============================================================================
