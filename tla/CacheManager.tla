---------------------------- MODULE CacheManager ----------------------------
(***************************************************************************)
(* cache/cache.go: the read-through cache in front of every page.  A Get   *)
(* looks the key up in memcached and, on a miss or on any error, joins the *)
(* callers waiting for the key; the first of them starts a goroutine that  *)
(* generates the object, stores it and sends it to everybody who waits.    *)
(* Both memcached calls hold a reservation of the gate (module Gate).      *)
(*                                                                         *)
(* A call of Get is a member of Calls and is made once.  Its goroutine is  *)
(* at pc[c]; the doGenerate goroutine it may have started is at gpc[c].    *)
(* The two never use the gate together, so both reserve as c.              *)
(*                                                                         *)
(*   pc[c]   "idle"          Get not called yet                            *)
(*           "getFromCache"  has, or was refused, a reservation            *)
(*           "asking"        mc.Get under way                              *)
(*           "answered"      mc.Get returned, reservation still held       *)
(*           "missed"        about to call putPendings                     *)
(*           "blocked"       <-ch                                          *)
(*           "done"          Get returned result[c]                        *)
(*   gpc[c]  "none"          no goroutine started                          *)
(*           "generating"    in generate(key)                              *)
(*           "generated"     generate returned obj[c]                      *)
(*           "storeResultCache", "setting", "answered": as for getFromCache *)
(*           "stored"        about to call removePendings                  *)
(*           "responding"    sending to audience[c]                        *)
(***************************************************************************)
EXTENDS Integers, Sequences, FiniteSets

CONSTANTS Calls, Keys,
          MaxOpen,      \* both bounds of the gate (cache.go:61)
          MaxVersion,   \* bound: how often the object behind a key changes
          LateStores,   \* may a Set the client gave up on still be applied?
          Absent,       \* memcached has no entry; also "no answer"
          Garbled,      \* an entry or answer NewFromBytes cannot decode
          Failure       \* an error instead of an object

\* An object generated for a key; ver tells how old the data behind it is.
Pages == [key : Keys, ver : 0 .. MaxVersion]

\* gate.New(0, 0) would refuse everybody; the rest only names distinct things.
ASSUME CacheAssumption ==
  /\ MaxOpen \in Nat \ {0}
  /\ MaxVersion \in Nat
  /\ LateStores \in BOOLEAN
  /\ {Absent, Garbled, Failure} \cap Pages = {}
  /\ Absent # Garbled /\ Absent # Failure /\ Garbled # Failure

VARIABLES pc, key, reply, result,          \* the goroutines in Get
          gpc, obj, audience,              \* the doGenerate goroutines
          pending,                         \* m.pending, <<>> for no entry
          num, queue, rsv,                 \* m.gate
          mc,                              \* memcached: external
          late,                            \* Sets given up on: external
          version                          \* the data behind: external

callVars == <<pc, key, reply, result>>
genVars == <<gpc, obj, audience>>
gateVars == <<num, queue, rsv>>
envVars == <<mc, late, version>>
vars == <<callVars, genVars, pending, gateVars, envVars>>

TheGate == INSTANCE Gate
  WITH Reservations <- Calls, MaxInflight <- MaxOpen, MaxWait <- MaxOpen, state <- rsv

PCs == {"idle", "getFromCache", "asking", "answered", "missed", "blocked", "done"}
GPCs == {"none", "generating", "generated", "storeResultCache", "setting",
         "answered", "stored", "responding", "finished"}

Outcomes == Pages \cup {Garbled, Failure}

TypeOK ==
  /\ pc \in [Calls -> PCs]
  /\ key \in [Calls -> Keys]
  /\ reply \in [Calls -> Pages \cup {Absent, Garbled}]
  /\ result \in [Calls -> Outcomes \cup {Absent}]
  /\ gpc \in [Calls -> GPCs]
  /\ obj \in [Calls -> Pages \cup {Absent, Failure}]
  /\ audience \in [Calls -> Seq(Calls)]
  /\ pending \in [Keys -> Seq(Calls)]
  /\ mc \in [Keys -> Pages \cup {Absent, Garbled}]
  /\ late \in SUBSET Pages
  /\ version \in [Keys -> 0 .. MaxVersion]
  /\ TheGate!TypeOK
  /\ \A c \in Calls : pc[c] = "done" <=> result[c] # Absent

\* memcached outlives the process: at the start it may hold entries another
\* release wrote.
Init ==
  /\ pc = [c \in Calls |-> "idle"]
  /\ key \in [Calls -> Keys]
  /\ reply = [c \in Calls |-> Absent]
  /\ result = [c \in Calls |-> Absent]
  /\ gpc = [c \in Calls |-> "none"]
  /\ obj = [c \in Calls |-> Absent]
  /\ audience = [c \in Calls |-> <<>>]
  /\ pending = [k \in Keys |-> <<>>]
  /\ mc \in [Keys -> {Absent, Garbled}]
  /\ late = {}
  /\ version = [k \in Keys |-> 0]
  /\ TheGate!Init

-----------------------------------------------------------------------------
(* Get: the lookup.  getFromCache reserves, waits, asks and releases. *)

StartGet(c) ==
  /\ pc[c] = "idle"
  /\ TheGate!Reserve(c)
  /\ pc' = [pc EXCEPT ![c] = "getFromCache"]
  /\ UNCHANGED <<key, reply, result, genVars, pending, envVars>>

\* ErrTooBusy is logged and treated as a miss.
GetTooBusy(c) ==
  /\ pc[c] = "getFromCache"
  /\ TheGate!GiveUp(c)
  /\ pc' = [pc EXCEPT ![c] = "missed"]
  /\ UNCHANGED <<key, reply, result, genVars, pending, envVars>>

\* Mutant: a call that is not granted at once goes on without memcached.
GetImpatient(c) ==
  /\ pc[c] = "getFromCache"
  /\ \/ TheGate!Wait(c) /\ pc' = [pc EXCEPT ![c] = "asking"]
     \/ TheGate!ReleaseUnwaited(c) /\ pc' = [pc EXCEPT ![c] = "missed"]
  /\ UNCHANGED <<key, reply, result, genVars, pending, envVars>>

\* Mutant: the call does not wait for its reservation.
GetGoesAhead(c) ==
  /\ pc[c] = "getFromCache"
  /\ rsv[c] \in {"queued", "granted"}
  /\ pc' = [pc EXCEPT ![c] = "asking"]
  /\ UNCHANGED <<key, reply, result, genVars, pending, gateVars, envVars>>

GetWaited(c) ==
  /\ pc[c] = "getFromCache"
  /\ TheGate!Wait(c)
  /\ pc' = [pc EXCEPT ![c] = "asking"]
  /\ UNCHANGED <<key, reply, result, genVars, pending, envVars>>

\* m.mc.Get: the entry, or an error, which here means the same as no entry.
McGet(c) ==
  /\ pc[c] = "asking"
  /\ \E a \in {mc[key[c]], Absent} : reply' = [reply EXCEPT ![c] = a]
  /\ pc' = [pc EXCEPT ![c] = "answered"]
  /\ UNCHANGED <<key, result, genVars, pending, gateVars, envVars>>

\* Mutant: an entry that cannot be decoded gives neither object nor error.
DecodedSilently(a) == IF a = Garbled THEN Absent ELSE a

\* tp.NewFromBytes(data): the object, or the decoder's error.
Decoded(a) == a

\* Mutant: an entry that cannot be decoded is asked for again.
GetReleasedAskingAgain(c) ==
  /\ pc[c] = "answered"
  /\ IF reply[c] = Garbled
     THEN pc' = [pc EXCEPT ![c] = "asking"] /\ UNCHANGED <<result, gateVars>>
     ELSE /\ TheGate!ReleaseAfterWait(c)
          /\ IF reply[c] = Absent
             THEN pc' = [pc EXCEPT ![c] = "missed"] /\ UNCHANGED result
             ELSE /\ pc' = [pc EXCEPT ![c] = "done"]
                  /\ result' = [result EXCEPT ![c] = Decoded(reply[c])]
  /\ reply' = [reply EXCEPT ![c] = Absent]
  /\ UNCHANGED <<key, genVars, pending, envVars>>

\* The deferred Release.  A hit is returned, decoded or not.
GetReleased(c) ==
  /\ pc[c] = "answered"
  /\ TheGate!ReleaseAfterWait(c)
  /\ IF reply[c] = Absent
     THEN pc' = [pc EXCEPT ![c] = "missed"] /\ UNCHANGED result
     ELSE /\ pc' = [pc EXCEPT ![c] = "done"]
          /\ result' = [result EXCEPT ![c] = Decoded(reply[c])]
  /\ reply' = [reply EXCEPT ![c] = Absent]
  /\ UNCHANGED <<key, genVars, pending, envVars>>

-----------------------------------------------------------------------------
(* Get: joining the callers that wait, and the answer. *)

\* Mutant: every caller generates.
PutPendingsAllFirst(c) ==
  /\ pc[c] = "missed"
  /\ pc' = [pc EXCEPT ![c] = "blocked"]
  /\ pending' = [pending EXCEPT ![key[c]] = Append(@, c)]
  /\ gpc' = [gpc EXCEPT ![c] = "generating"]
  /\ UNCHANGED <<key, reply, result, obj, audience, gateVars, envVars>>

\* Mutant: the list is made anew for every caller.
PutPendingsAnew(c) ==
  /\ pc[c] = "missed"
  /\ pc' = [pc EXCEPT ![c] = "blocked"]
  /\ pending' = [pending EXCEPT ![key[c]] = <<c>>]
  /\ gpc' = IF pending[key[c]] = <<>> THEN [gpc EXCEPT ![c] = "generating"] ELSE gpc
  /\ UNCHANGED <<key, reply, result, obj, audience, gateVars, envVars>>

\* putPendings, "go m.doGenerate" by the first caller, and <-ch.
PutPendings(c) ==
  /\ pc[c] = "missed"
  /\ pc' = [pc EXCEPT ![c] = "blocked"]
  /\ pending' = [pending EXCEPT ![key[c]] = Append(@, c)]
  /\ gpc' = IF pending[key[c]] = <<>> THEN [gpc EXCEPT ![c] = "generating"] ELSE gpc
  /\ UNCHANGED <<key, reply, result, obj, audience, gateVars, envVars>>

-----------------------------------------------------------------------------
(* doGenerate *)

\* generate(key) is the caller's function: it fails, or makes an object of
\* the data as it is at some moment while it runs.
Generate(c) ==
  /\ gpc[c] = "generating"
  /\ \E o \in {[key |-> key[c], ver |-> version[key[c]]], Failure} :
       obj' = [obj EXCEPT ![c] = o]
  /\ gpc' = [gpc EXCEPT ![c] = "generated"]
  /\ UNCHANGED <<callVars, audience, pending, gateVars, envVars>>

\* An error of generate, or of EncodeToBytes: nothing is stored.
SkipStore(c) ==
  /\ gpc[c] = "generated"
  /\ gpc' = [gpc EXCEPT ![c] = "stored"]
  /\ UNCHANGED <<callVars, obj, audience, pending, gateVars, envVars>>

\* Mutant: the callers are answered first, the object is stored afterwards.
StartStoreAfterwards(c) ==
  /\ gpc[c] = "finished"
  /\ obj[c] # Failure
  /\ TheGate!Reserve(c)
  /\ gpc' = [gpc EXCEPT ![c] = "storeResultCache"]
  /\ UNCHANGED <<callVars, obj, audience, pending, envVars>>

\* storeResultCache reserves, waits, sets and releases.
StartStore(c) ==
  /\ gpc[c] = "generated"
  /\ obj[c] # Failure
  /\ TheGate!Reserve(c)
  /\ gpc' = [gpc EXCEPT ![c] = "storeResultCache"]
  /\ UNCHANGED <<callVars, obj, audience, pending, envVars>>

StoreTooBusy(c) ==
  /\ gpc[c] = "storeResultCache"
  /\ TheGate!GiveUp(c)
  /\ gpc' = [gpc EXCEPT ![c] = "stored"]
  /\ UNCHANGED <<callVars, obj, audience, pending, envVars>>

StoreWaited(c) ==
  /\ gpc[c] = "storeResultCache"
  /\ TheGate!Wait(c)
  /\ gpc' = [gpc EXCEPT ![c] = "setting"]
  /\ UNCHANGED <<callVars, obj, audience, pending, envVars>>

\* m.mc.Set: applied, not applied, or given up on after the client's Timeout
\* and applied by the server later.  Its error is only logged.
McSet(c) ==
  /\ gpc[c] = "setting"
  /\ \/ mc' = [mc EXCEPT ![key[c]] = obj[c]] /\ UNCHANGED late
     \/ UNCHANGED <<mc, late>>
     \/ LateStores /\ late' = late \cup {obj[c]} /\ UNCHANGED mc
  /\ gpc' = [gpc EXCEPT ![c] = "answered"]
  /\ UNCHANGED <<callVars, obj, audience, pending, gateVars, version>>

StoreReleased(c) ==
  /\ gpc[c] = "answered"
  /\ TheGate!ReleaseAfterWait(c)
  /\ gpc' = [gpc EXCEPT ![c] = "stored"]
  /\ UNCHANGED <<callVars, obj, audience, pending, envVars>>

\* Mutant: the list is read but not deleted.
RemovePendingsKeeping(c) ==
  /\ gpc[c] = "stored"
  /\ audience' = [audience EXCEPT ![c] = pending[key[c]]]
  /\ gpc' = [gpc EXCEPT ![c] = "responding"]
  /\ UNCHANGED <<callVars, obj, pending, gateVars, envVars>>

\* Mutant: only the caller that started the goroutine is answered.
RemoveFirstPending(c) ==
  /\ gpc[c] = "stored"
  /\ audience' = [audience EXCEPT ![c] = SubSeq(pending[key[c]], 1, 1)]
  /\ pending' = [pending EXCEPT ![key[c]] = Tail(@)]
  /\ gpc' = [gpc EXCEPT ![c] = "responding"]
  /\ UNCHANGED <<callVars, obj, gateVars, envVars>>

RemovePendings(c) ==
  /\ gpc[c] = "stored"
  /\ audience' = [audience EXCEPT ![c] = pending[key[c]]]
  /\ pending' = [pending EXCEPT ![key[c]] = <<>>]
  /\ gpc' = [gpc EXCEPT ![c] = "responding"]
  /\ UNCHANGED <<callVars, obj, gateVars, envVars>>

\* c <- result: the receiver is at <-ch and Get returns.
Respond(c) ==
  /\ gpc[c] = "responding"
  /\ audience[c] # <<>>
  /\ LET d == Head(audience[c])
     IN /\ pc[d] = "blocked"
        /\ pc' = [pc EXCEPT ![d] = "done"]
        /\ result' = [result EXCEPT ![d] = obj[c]]
  /\ audience' = [audience EXCEPT ![c] = Tail(@)]
  /\ UNCHANGED <<key, reply, gpc, obj, pending, gateVars, envVars>>

\* doGenerate returns.
Finish(c) ==
  /\ gpc[c] = "responding"
  /\ audience[c] = <<>>
  /\ gpc' = [gpc EXCEPT ![c] = "finished"]
  /\ UNCHANGED <<callVars, obj, audience, pending, gateVars, envVars>>

-----------------------------------------------------------------------------
(* The environment: memcached and the data behind the pages. *)

\* Expiry, or eviction under memory pressure.
Evict(k) ==
  /\ mc[k] # Absent
  /\ mc' = [mc EXCEPT ![k] = Absent]
  /\ UNCHANGED <<callVars, genVars, pending, gateVars, late, version>>

ApplyLateSet(p) ==
  /\ p \in late
  /\ mc' = [mc EXCEPT ![p.key] = p]
  /\ late' = late \ {p}
  /\ UNCHANGED <<callVars, genVars, pending, gateVars, version>>

Change(k) ==
  /\ version[k] < MaxVersion
  /\ version' = [version EXCEPT ![k] = @ + 1]
  /\ UNCHANGED <<callVars, genVars, pending, gateVars, mc, late>>

-----------------------------------------------------------------------------

GetStep(c) ==
  \/ GetTooBusy(c) \/ GetWaited(c) \/ McGet(c) \/ GetReleased(c) \/ PutPendings(c)

GenerateStep(c) ==
  \/ Generate(c) \/ SkipStore(c) \/ StartStore(c) \/ StoreTooBusy(c)
  \/ StoreWaited(c) \/ McSet(c) \/ StoreReleased(c)
  \/ RemovePendings(c) \/ Respond(c) \/ Finish(c)

Environment ==
  \/ \E k \in Keys : Evict(k) \/ Change(k)
  \/ \E p \in late : ApplyLateSet(p)

\* The calls are used up; nothing is left to happen in the process.
Terminated ==
  /\ \A c \in Calls : pc[c] = "done" /\ gpc[c] \in {"none", "finished"}
  /\ UNCHANGED vars

Next ==
  \/ \E c \in Calls : StartGet(c) \/ GetStep(c) \/ GenerateStep(c)
  \/ Environment
  \/ Terminated

Spec == Init /\ [][Next]_vars

\* Goroutines that can run do; memcached answers or the client times out
\* (cache.go:55); generate returns, which nothing in this repository enforces:
\* the RPCs below it have no deadline.  Nobody is obliged to call Get.
Fairness ==
  \A c \in Calls : WF_vars(GetStep(c)) /\ WF_vars(GenerateStep(c))

FairSpec == Spec /\ Fairness

-----------------------------------------------------------------------------
(* Properties *)

\* The calls that have a goroutine generating k which has not yet collected
\* the callers that wait for it.
Generating(k) ==
  {c \in Calls : key[c] = k /\ gpc[c] \notin {"none", "responding", "finished"}}

\* One object is generated at a time for a key, and exactly while somebody is
\* registered as waiting for it.
OneGenerator ==
  \A k \in Keys :
    /\ \A c, d \in Generating(k) : c = d
    /\ Generating(k) = {} <=> pending[k] = <<>>

Listed(c, s) == \E i \in DOMAIN s : s[i] = c
NoRepeats(s) == \A i, j \in DOMAIN s : s[i] = s[j] => i = j

\* Whoever blocks on its channel is going to be sent something: it waits for
\* its own key, or for a goroutine that is sending.
NoLostWaiter ==
  \A c \in Calls : pc[c] = "blocked" =>
    \/ Listed(c, pending[key[c]])
    \/ \E g \in Calls : gpc[g] = "responding" /\ Listed(c, audience[g])

\* Nobody is sent anything twice, and every send finds its receiver: a second
\* send on the unbuffered channel would block doGenerate for good.
NoStraySend ==
  /\ \A k \in Keys : NoRepeats(pending[k])
  /\ \A k \in Keys, c \in Calls : Listed(c, pending[k]) =>
       /\ pc[c] = "blocked" /\ key[c] = k
       /\ \A g \in Calls : ~Listed(c, audience[g])
  /\ \A g \in Calls : NoRepeats(audience[g])
  /\ \A g, c \in Calls : Listed(c, audience[g]) =>
       /\ pc[c] = "blocked" /\ key[c] = key[g]
       /\ \A h \in Calls \ {g} : ~Listed(c, audience[h])

\* As many connections to memcached are in use as the configuration allows.
Connected == {c \in Calls : pc[c] = "asking" \/ gpc[c] = "setting"}
ConnectionBound == Cardinality(Connected) <= MaxOpen

\* An entry is never replaced by an older one: the next generation of a key
\* reads its data after this one has stored.  Only the server can do it, by
\* applying a Set the client has given up on.
NeverOlder ==
  [][(\E p \in late : ApplyLateSet(p)) \/
       \A k \in Keys :
         mc[k] \in Pages /\ mc'[k] \in Pages => mc[k].ver <= mc'[k].ver]_mc

\* Every Get returns, with whatever result.
EveryGetReturns ==
  \A c \in Calls : pc[c] = "getFromCache" ~> pc[c] = "done"

\* The manager releases what it reserved and nothing before it has waited:
\* what the theorems about the gate ask of its callers.
GateClient == TheGate!Spec

\* Callers that wait for a key share one generation: all of them get what it
\* made, and what it made is for that key.
SentTo(c) ==
  IF \E g \in Calls : Listed(c, audience[g])
  THEN obj[CHOOSE g \in Calls : Listed(c, audience[g])]
  ELSE result[c]

CargoFor(k) == {p \in Pages : p.key = k} \cup {Garbled, Failure}

Abstract == INSTANCE SingleFlight
  WITH Passengers <- Calls, Destinations <- Keys, Cargo <- CargoFor, Nothing <- Absent,
       aboard <- [k \in Keys |-> {c \in Calls : Listed(c, pending[k])}],
       got <- [c \in Calls |-> SentTo(c)]

Flights == Abstract!Spec

=============================================================================
