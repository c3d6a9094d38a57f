------------------------------ MODULE Captcha -------------------------------
(***************************************************************************)
(* captcha/handler.go: a bulletin board system inserts a verification key  *)
(* under a handle; a user who solves a reCAPTCHA on the handle's page is   *)
(* shown the key, and types it into the system.                            *)
(*                                                                         *)
(* Everything is kept in redis, under the handle, until it expires; the    *)
(* handlers run concurrently, in any number of pttweb processes.  Redis    *)
(* and reCAPTCHA are external: a call may fail, an insert may be done and  *)
(* its reply lost.  Keys are valid UTF-8, so what the JSON of an entry is  *)
(* decoded to is what was encoded.                                         *)
(***************************************************************************)
EXTENDS FiniteSets

CONSTANTS Handles,
          LongHandles,  \* those longer than MaxCaptchaHandleLength
          Keys,
          Inserts,      \* requests of the bulletin board system
          Requests,     \* requests of users
          None          \* no entry, no key, no request

ASSUME CaptchaAssumption ==
  /\ LongHandles \subseteq Handles
  /\ None \notin Keys /\ None \notin Handles

VARIABLES redis,   \* redis[h]: the key under handle h, or None
          insert,  \* insert[i]: what i asks for, and its status
          pc,      \* pc[r]: where handleCaptchaInternal is
          handle,  \* handle[r]: the value of the form field
          solved,  \* solved[r]: whether there is a response, and it is right
          page,    \* page[r]: the page.Captcha to be shown
          told,    \* told[h]: keys that were acknowledged or shown for h since
                   \* the last expiry; for the properties only
          since    \* since[r]: the keys under handle[r] since reCAPTCHA said
                   \* yes to r; for the properties only

requestVars == <<pc, handle, solved, page>>
vars == <<redis, insert, requestVars, told, since>>

\* Of the fields: "none" is when one of them is empty.
Secrets == {"none", "wrong", "right"}
Statuses == {"sent", "ok", "badRequest", "forbidden", "conflict", "error"}
Insertions == [handle : Handles, key : Keys, secret : Secrets, status : Statuses]

PCs == {"idle", "checking", "verifying", "verified", "answered"}
Errs == {"none", "notFound", "verifyFailed", "internal"}
CaptchaPages == [key : Keys \cup {None}, err : Errs]
Blank == [key |-> None, err |-> "none"]

\* The types; and whatever is in redis can be fetched.
CaptchaTypeOK ==
  /\ redis \in [Handles -> Keys \cup {None}]
  /\ insert \in [Inserts -> Insertions \cup {None}]
  /\ pc \in [Requests -> PCs]
  /\ handle \in [Requests -> Handles]
  /\ solved \in [Requests -> {"no", "wrong", "right"}]
  /\ page \in [Requests -> CaptchaPages]
  /\ told \in [Handles -> SUBSET Keys]
  /\ since \in [Requests -> SUBSET Keys]
  /\ \A h \in LongHandles : redis[h] = None

Init ==
  /\ redis = [h \in Handles |-> None]
  /\ insert = [i \in Inserts |-> None]
  /\ pc = [r \in Requests |-> "idle"]
  /\ handle \in [Requests -> Handles]
  /\ solved = [r \in Requests |-> "no"]
  /\ page = [r \in Requests |-> Blank]
  /\ told = [h \in Handles |-> {}]
  /\ since = [r \in Requests |-> {}]

-----------------------------------------------------------------------------
(* handleCaptchaInsert *)

\* A request of the system, or another try after an error.
Ask(i) ==
  /\ \/ \E h \in Handles, k \in Keys, secret \in Secrets :
          insert' = [insert EXCEPT ![i] =
                       [handle |-> h, key |-> k, secret |-> secret, status |-> "sent"]]
     \/ /\ insert[i] # None /\ insert[i].status = "error"
        /\ insert' = [insert EXCEPT ![i].status = "sent"]
  /\ insert[i] # None => insert[i].status # "sent"
  /\ UNCHANGED <<redis, requestVars, told, since>>

Sent(i) == insert[i] # None /\ insert[i].status = "sent"

Reply(i, status) == insert' = [insert EXCEPT ![i].status = status]

\* An empty field, or a handle that is too long, is 400...
BadRequest(i) == insert[i].secret = "none" \/ insert[i].handle \in LongHandles

\* ... and a wrong secret is 403.
Refuse(i) ==
  /\ Sent(i)
  /\ \/ BadRequest(i) /\ Reply(i, "badRequest")
     \/ ~BadRequest(i) /\ insert[i].secret = "wrong" /\ Reply(i, "forbidden")
  /\ UNCHANGED <<redis, requestVars, told, since>>

\* Mutant: the length of the handle is not looked at.
AdmittedAnyLength(i) == Sent(i) /\ insert[i].secret = "right"

Admitted(i) == Sent(i) /\ ~BadRequest(i) /\ insert[i].secret = "right"

\* What is stored matters to the requests that are on their way.
Stored(h, k) ==
  /\ redis' = [redis EXCEPT ![h] = k]
  /\ since' = [r \in Requests |->
                 IF pc[r] = "verified" /\ handle[r] = h THEN since[r] \cup {k} ELSE since[r]]

\* Mutant: Set, without NX, which does not fail.
SetNXReplacing(i) ==
  /\ Admitted(i)
  /\ Stored(insert[i].handle, insert[i].key)
  /\ \/ Reply(i, "ok") /\ told' = [told EXCEPT ![insert[i].handle] = @ \cup {insert[i].key}]
     \/ Reply(i, "error") /\ UNCHANGED told
  /\ UNCHANGED requestVars

\* SetNX stores unless there is an entry.  The reply may be lost.
SetNX(i) ==
  /\ Admitted(i)
  /\ redis[insert[i].handle] = None
  /\ Stored(insert[i].handle, insert[i].key)
  /\ \/ Reply(i, "ok") /\ told' = [told EXCEPT ![insert[i].handle] = @ \cup {insert[i].key}]
     \/ Reply(i, "error") /\ UNCHANGED told
  /\ UNCHANGED requestVars

\* There is an entry: 409, also when it is from an earlier try of the same
\* insert whose reply was lost.
Conflict(i) ==
  /\ Admitted(i)
  /\ redis[insert[i].handle] # None
  /\ Reply(i, "conflict")
  /\ UNCHANGED <<redis, requestVars, told, since>>

\* Redis is not reached.
SetFails(i) ==
  /\ Admitted(i)
  /\ Reply(i, "error")
  /\ UNCHANGED <<redis, requestVars, told, since>>

-----------------------------------------------------------------------------
(* handleCaptcha *)

\* A request for the page of a handle, with or without a response to its
\* reCAPTCHA.  An answered one makes room for the next.
Visit(r) ==
  /\ pc[r] \in {"idle", "answered"}
  /\ pc' = [pc EXCEPT ![r] = "checking"]
  /\ \E h \in Handles : handle' = [handle EXCEPT ![r] = h]
  /\ \E s \in {"no", "wrong", "right"} : solved' = [solved EXCEPT ![r] = s]
  /\ page' = [page EXCEPT ![r] = Blank]
  /\ since' = [since EXCEPT ![r] = {}]
  /\ UNCHANGED <<redis, insert, told>>

\* fetchVerificationKey: of a handle that is too long redis is not asked.
Fetch(h) == IF h \in LongHandles THEN None ELSE redis[h]

\* translateCaptchaErr: an error that has a place on the page is shown there,
\* with an internal one there is no page of the handle.
Fail(r, err) ==
  /\ pc' = [pc EXCEPT ![r] = "answered"]
  /\ page' = [page EXCEPT ![r].err = err]

FetchFails(r) ==
  /\ pc[r] \in {"checking", "verified"}
  /\ \/ Fetch(handle[r]) = None /\ Fail(r, "notFound")
     \/ handle[r] \notin LongHandles /\ Fail(r, "internal")
  /\ UNCHANGED <<redis, insert, handle, solved, told, since>>

\* Mutant: the key goes to the page with the first look at it.
CheckTaking(r) ==
  /\ pc[r] = "checking"
  /\ Fetch(handle[r]) # None
  /\ pc' = [pc EXCEPT ![r] = IF solved[r] = "no" THEN "answered" ELSE "verifying"]
  /\ page' = [page EXCEPT ![r].key = Fetch(handle[r])]
  /\ UNCHANGED <<redis, insert, handle, solved, told, since>>

\* The handle is valid: without a response the page has the reCAPTCHA to solve.
Check(r) ==
  /\ pc[r] = "checking"
  /\ Fetch(handle[r]) # None
  /\ pc' = [pc EXCEPT ![r] = IF solved[r] = "no" THEN "answered" ELSE "verifying"]
  /\ UNCHANGED <<redis, insert, handle, solved, page, told, since>>

\* r.Verify(response, ""): reCAPTCHA may not be reached.
VerifyFails(r) ==
  /\ pc[r] = "verifying"
  /\ Fail(r, "verifyFailed")
  /\ UNCHANGED <<redis, insert, handle, solved, told, since>>

Verify(r) ==
  /\ pc[r] = "verifying" /\ solved[r] = "right"
  /\ pc' = [pc EXCEPT ![r] = "verified"]
  /\ since' = [since EXCEPT ![r] = {redis[handle[r]]} \ {None}]
  /\ UNCHANGED <<redis, insert, handle, solved, page, told>>

\* The key is fetched once more, and shown.
Show(r) ==
  /\ pc[r] = "verified"
  /\ Fetch(handle[r]) # None
  /\ page' = [page EXCEPT ![r].key = Fetch(handle[r])]
  /\ told' = [told EXCEPT ![handle[r]] = @ \cup {Fetch(handle[r])}]
  /\ pc' = [pc EXCEPT ![r] = "answered"]
  /\ UNCHANGED <<redis, insert, handle, solved, since>>

-----------------------------------------------------------------------------

\* An entry expires after ExpireSecs; or redis loses it.
Expire(h) ==
  /\ redis[h] # None
  /\ redis' = [redis EXCEPT ![h] = None]
  /\ told' = [told EXCEPT ![h] = {}]
  /\ UNCHANGED <<insert, requestVars, since>>

Next ==
  \/ \E i \in Inserts : Ask(i) \/ Refuse(i) \/ SetNX(i) \/ Conflict(i) \/ SetFails(i)
  \/ \E r \in Requests :
       Visit(r) \/ FetchFails(r) \/ Check(r) \/ VerifyFails(r) \/ Verify(r) \/ Show(r)
  \/ \E h \in Handles : Expire(h)

Spec == Init /\ [][Next]_vars

-----------------------------------------------------------------------------
(* Properties *)

\* The key that an insert was acknowledged for, or that a user was shown, is
\* the handle's key until it expires, however inserts race, are repeated, and
\* lose their replies; so nobody is ever told another one meanwhile.
KeysStand == \A h \in Handles : told[h] \subseteq {redis[h]}

\* A key is shown only to a user whose response reCAPTCHA has accepted, and it
\* was the handle's key at a moment after that: never one that had expired
\* while the user was solving, or while reCAPTCHA was asked.
ShownKeysAreLive ==
  \A r \in Requests : page[r].key # None =>
    /\ pc[r] = "answered" /\ page[r].err = "none"
    /\ solved[r] = "right" /\ page[r].key \in since[r]

=============================================================================
