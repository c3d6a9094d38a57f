------------------------- MODULE CacheManagerProofs -------------------------
(***************************************************************************)
(* Theorems about CacheManager for any calls, keys and bounds.  The gate's *)
(* own theorems are used through GP: the manager's steps are steps of the  *)
(* gate, so the gate's invariant holds here.  Waiting, the invariant of    *)
(* the pending lists, is inductive.                                        *)
(***************************************************************************)
EXTENDS CacheManager, FiniteSetTheorems, TLAPS

GP == INSTANCE GateProofs
  WITH Reservations <- Calls, MaxInflight <- MaxOpen, MaxWait <- MaxOpen, state <- rsv

-----------------------------------------------------------------------------
(* The manager is a client of the gate. *)

LEMMA OneGate == [TheGate!Next]_(TheGate!vars) <=> [GP!Next]_(GP!vars)
BY DEF TheGate!Next, GP!Next, TheGate!Reserve, GP!Reserve, TheGate!Refuse, GP!Refuse,
       TheGate!GrantNow, GP!GrantNow, TheGate!Enqueue, GP!Enqueue,
       TheGate!HasRoom, GP!HasRoom, TheGate!GiveUp, GP!GiveUp,
       TheGate!Wait, GP!Wait, TheGate!ReleaseAfterWait, GP!ReleaseAfterWait,
       TheGate!Release, GP!Release, TheGate!Granted, GP!Granted,
       TheGate!Dropped, GP!Dropped, TheGate!vars, GP!vars

LEMMA GateStep == [Next]_vars => [TheGate!Next]_(TheGate!vars)
<1> SUFFICES ASSUME [Next]_vars PROVE [TheGate!Next]_(TheGate!vars)
  OBVIOUS
<1> USE DEF TheGate!Next, TheGate!vars
<1>1. ASSUME NEW c \in Calls, StartGet(c) \/ GetStep(c)
      PROVE  [TheGate!Next]_(TheGate!vars)
  BY <1>1 DEF StartGet, GetStep, GetTooBusy, GetWaited, McGet, GetReleased, PutPendings, gateVars
<1>2. ASSUME NEW c \in Calls, GenerateStep(c)
      PROVE  [TheGate!Next]_(TheGate!vars)
  BY <1>2 DEF GenerateStep, Generate, SkipStore, StartStore, StoreTooBusy, StoreWaited,
              McSet, StoreReleased, RemovePendings, Respond, Finish, gateVars
<1>3. ASSUME Environment \/ Terminated \/ UNCHANGED vars
      PROVE  [TheGate!Next]_(TheGate!vars)
  BY <1>3 DEF Environment, Evict, Change, ApplyLateSet, Terminated, vars, gateVars
<1> QED BY <1>1, <1>2, <1>3 DEF Next

\* Whatever the manager reserves it waits for before it releases it: the
\* condition under which the gate keeps its bounds.
THEOREM ManagerIsGateClient == Spec => GateClient
<1>1. Init => TheGate!Init
  BY DEF Init
<1> QED BY <1>1, GateStep, PTL DEF Spec, GateClient, TheGate!Spec

LEMMA GateInvariant == Spec => [](GP!Inv /\ GP!InflightBound /\ GP!TypeOK)
<1>1. TheGate!Init => GP!Init
  BY DEF TheGate!Init, GP!Init
<1>2. TheGate!Spec => GP!Spec
  BY <1>1, OneGate, PTL DEF TheGate!Spec, GP!Spec
<1>3. MaxOpen \in Nat
  BY CacheAssumption
<1>4. GP!Spec => []GP!Inv
  BY <1>3, GP!Invariant
<1>5. GP!Spec => []GP!InflightBound
  BY <1>3, GP!InflightIsBounded
<1>6. GP!Spec => []GP!TypeOK
  BY <1>3, GP!Typing
<1> QED BY <1>2, <1>4, <1>5, <1>6, ManagerIsGateClient, PTL DEF GateClient

-----------------------------------------------------------------------------
(* Lists of waiting callers. *)

LEMMA EmptyList ==
  NoRepeats(<<>>) /\ \A d \in Calls : ~Listed(d, <<>>)
BY DEF NoRepeats, Listed

LEMMA AppendList ==
  ASSUME NEW s \in Seq(Calls), NEW c \in Calls
  PROVE  /\ \A d \in Calls : Listed(d, Append(s, c)) <=> Listed(d, s) \/ d = c
         /\ NoRepeats(s) /\ ~Listed(c, s) => NoRepeats(Append(s, c))
<1> DEFINE t == Append(s, c)
<1>1. /\ DOMAIN s = 1 .. Len(s) /\ DOMAIN t = 1 .. Len(s) + 1 /\ Len(s) \in Nat
      /\ t[Len(s) + 1] = c
      /\ \A i \in 1 .. Len(s) : t[i] = s[i]
  OBVIOUS
<1>2. \A i \in 1 .. Len(s) + 1 : i \in 1 .. Len(s) \/ i = Len(s) + 1
  BY <1>1
<1>3. Len(s) + 1 \in 1 .. Len(s) + 1 /\ 1 .. Len(s) \subseteq 1 .. Len(s) + 1
  BY <1>1
<1> HIDE DEF t
<1>4. \A d \in Calls : Listed(d, t) <=> Listed(d, s) \/ d = c
  BY <1>1, <1>2, <1>3 DEF Listed
<1>5. NoRepeats(s) /\ ~Listed(c, s) => NoRepeats(t)
  BY <1>1, <1>2 DEF Listed, NoRepeats
<1> QED BY <1>4, <1>5 DEF t

LEMMA TailList ==
  ASSUME NEW s \in Seq(Calls), s # <<>>, NoRepeats(s)
  PROVE  /\ Head(s) \in Calls /\ Listed(Head(s), s) /\ Tail(s) \in Seq(Calls)
         /\ \A d \in Calls : Listed(d, Tail(s)) <=> Listed(d, s) /\ d # Head(s)
         /\ NoRepeats(Tail(s))
<1> DEFINE t == Tail(s)
<1>1. /\ DOMAIN s = 1 .. Len(s) /\ Len(s) \in Nat /\ Len(s) >= 1
      /\ Head(s) = s[1] /\ s[1] \in Calls
      /\ t \in Seq(Calls) /\ DOMAIN t = 1 .. Len(s) - 1
      /\ \A i \in 1 .. Len(s) - 1 : t[i] = s[i + 1]
  OBVIOUS
<1>2. \A i \in 1 .. Len(s) - 1 : i + 1 \in 1 .. Len(s) /\ i + 1 # 1
  BY <1>1
<1>3. \A i \in 1 .. Len(s) : i = 1 \/ (i - 1 \in 1 .. Len(s) - 1 /\ (i - 1) + 1 = i)
  BY <1>1
<1>4. 1 \in 1 .. Len(s)
  BY <1>1
<1> HIDE DEF t
<1>5. Listed(Head(s), s)
  BY <1>1, <1>4 DEF Listed
<1>6. ASSUME NEW d \in Calls
      PROVE  Listed(d, t) <=> Listed(d, s) /\ d # Head(s)
  <2>1. Listed(d, t) => Listed(d, s) /\ d # Head(s)
    BY <1>1, <1>2, <1>4 DEF Listed, NoRepeats
  <2>2. Listed(d, s) /\ d # Head(s) => Listed(d, t)
    <3> SUFFICES ASSUME NEW i \in 1 .. Len(s), s[i] = d, d # s[1]
                 PROVE  \E j \in 1 .. Len(s) - 1 : t[j] = d
      BY <1>1 DEF Listed
    <3>1. i - 1 \in 1 .. Len(s) - 1 /\ (i - 1) + 1 = i
      BY <1>3
    <3>2. t[i - 1] = s[(i - 1) + 1]
      BY <1>1, <3>1
    <3> QED BY <3>1, <3>2
  <2> QED BY <2>1, <2>2
<1>7. NoRepeats(t)
  <2> SUFFICES ASSUME NEW i \in 1 .. Len(s) - 1, NEW j \in 1 .. Len(s) - 1, t[i] = t[j]
               PROVE  i = j
    BY <1>1 DEF NoRepeats
  <2>1. i + 1 = j + 1
    BY <1>1, <1>2 DEF NoRepeats
  <2> QED BY <2>1
<1> QED BY <1>1, <1>5, <1>6, <1>7 DEF t

-----------------------------------------------------------------------------
(* The invariant of the waiting callers. *)

\* What a doGenerate goroutine does before it collects its audience.
Active == GPCs \ {"none", "responding", "finished"}

WaitTypes ==
  /\ pc \in [Calls -> PCs]
  /\ key \in [Calls -> Keys]
  /\ gpc \in [Calls -> GPCs]
  /\ audience \in [Calls -> Seq(Calls)]
  /\ pending \in [Keys -> Seq(Calls)]

\* A call starts a goroutine when it blocks, not before, and a goroutine has
\* an audience only while it responds.
Phases ==
  \A c \in Calls :
    /\ pc[c] \notin {"blocked", "done"} => gpc[c] = "none"
    /\ gpc[c] # "responding" => audience[c] = <<>>

Waiting == WaitTypes /\ Phases /\ OneGenerator /\ NoLostWaiter /\ NoStraySend

LEMMA WaitingInit == Init => Waiting
<1> SUFFICES ASSUME Init PROVE Waiting
  OBVIOUS
<1>1. WaitTypes /\ Phases /\ NoLostWaiter
  BY DEF Init, WaitTypes, Phases, NoLostWaiter, PCs, GPCs
<1>2. OneGenerator
  BY DEF Init, OneGenerator, Generating
<1>3. NoStraySend
  BY EmptyList DEF Init, NoStraySend
<1> QED BY <1>1, <1>2, <1>3 DEF Waiting

\* A step of a call that neither blocks nor was blocked.
LEMMA QuietGet ==
  ASSUME Waiting, NEW c \in Calls, NEW p \in PCs \ {"blocked"},
         pc[c] \in PCs \ {"blocked", "done"},
         pc' = [pc EXCEPT ![c] = p], UNCHANGED <<key, gpc, audience, pending>>
  PROVE  Waiting'
<1>1. /\ pc' \in [Calls -> PCs]
      /\ gpc[c] = "none"
      /\ \A d \in Calls : pc'[d] = "blocked" <=> pc[d] = "blocked"
      /\ \A d \in Calls : d # c => pc'[d] = pc[d]
  BY DEF Waiting, WaitTypes, Phases
<1>2. WaitTypes' /\ Phases'
  BY <1>1 DEF Waiting, WaitTypes, Phases
<1>3. OneGenerator'
  BY DEF Waiting, OneGenerator, Generating
<1>4. NoLostWaiter' /\ NoStraySend'
  BY <1>1 DEF Waiting, NoLostWaiter, NoStraySend
<1> QED BY <1>2, <1>3, <1>4 DEF Waiting

\* A step of a goroutine that has yet to collect its audience.
LEMMA QuietGenerate ==
  ASSUME Waiting, NEW c \in Calls, NEW p \in Active, gpc[c] \in Active,
         gpc' = [gpc EXCEPT ![c] = p], UNCHANGED <<pc, key, audience, pending>>
  PROVE  Waiting'
<1>1. /\ gpc' \in [Calls -> GPCs]
      /\ \A d \in Calls : gpc'[d] \in Active <=> gpc[d] \in Active
      /\ \A d \in Calls : gpc'[d] = "responding" <=> gpc[d] = "responding"
      /\ \A d \in Calls : gpc'[d] = "none" <=> gpc[d] = "none"
  BY DEF Waiting, WaitTypes, Active
<1>2. WaitTypes' /\ Phases'
  BY <1>1 DEF Waiting, WaitTypes, Phases
<1>3. \A k \in Keys : Generating(k)' = Generating(k)
  BY <1>1 DEF Waiting, WaitTypes, Generating, Active
<1>4. OneGenerator'
  BY <1>3 DEF Waiting, OneGenerator
<1>5. NoLostWaiter' /\ NoStraySend'
  BY <1>1 DEF Waiting, NoLostWaiter, NoStraySend
<1> QED BY <1>2, <1>4, <1>5 DEF Waiting

LEMMA WaitingPut ==
  ASSUME Waiting, NEW c \in Calls, PutPendings(c)
  PROVE  Waiting'
<1>0. PICK k0 \in Keys : k0 = key[c]
  BY DEF Waiting, WaitTypes
<1>1. /\ k0 \in Keys /\ pending[k0] \in Seq(Calls)
      /\ pc[c] = "missed" /\ gpc[c] = "none" /\ audience[c] = <<>>
      /\ pc' = [pc EXCEPT ![c] = "blocked"]
      /\ pending' = [pending EXCEPT ![k0] = Append(pending[k0], c)]
      /\ gpc' = IF pending[k0] = <<>> THEN [gpc EXCEPT ![c] = "generating"] ELSE gpc
      /\ UNCHANGED <<key, audience>>
  BY <1>0 DEF Waiting, WaitTypes, Phases, PutPendings
<1>2. /\ \A d \in Calls : Listed(d, pending'[k0]) <=> Listed(d, pending[k0]) \/ d = c
      /\ \A k \in Keys : k # k0 => pending'[k] = pending[k]
      /\ pending' \in [Keys -> Seq(Calls)]
  BY <1>0, <1>1, AppendList DEF Waiting, WaitTypes
<1>3. /\ \A k \in Keys : ~Listed(c, pending[k])
      /\ \A g \in Calls : ~Listed(c, audience[g])
  BY <1>0, <1>1 DEF Waiting, NoStraySend
<1>4. WaitTypes'
  BY <1>0, <1>1, <1>2 DEF Waiting, WaitTypes, PCs, GPCs
<1>5. /\ \A d \in Calls : d # c => pc'[d] = pc[d] /\ gpc'[d] = gpc[d]
      /\ pc'[c] = "blocked"
      /\ gpc'[c] = IF pending[k0] = <<>> THEN "generating" ELSE "none"
  BY <1>0, <1>1 DEF Waiting, WaitTypes
<1>6. Phases'
  BY <1>0, <1>1, <1>5 DEF Waiting, Phases
<1>7. OneGenerator'
  <2>1. CASE pending[k0] = <<>>
    <3>1. Generating(k0) = {}
      BY <1>0, <1>1, <2>1 DEF Waiting, OneGenerator
    <3>2. Generating(k0)' = {c}
      BY <1>0, <1>1, <1>5, <2>1, <3>1 DEF Generating
    <3>3. \A k \in Keys : k # k0 => Generating(k)' = Generating(k)
      BY <1>0, <1>1, <1>5 DEF Generating
    <3>4. pending'[k0] # <<>>
      BY <1>2, EmptyList
    <3> SUFFICES ASSUME NEW k \in Keys
                 PROVE  /\ \A d, e \in Generating(k)' : d = e
                        /\ Generating(k)' = {} <=> pending'[k] = <<>>
      BY DEF OneGenerator
    <3>5. CASE k = k0
      BY <3>2, <3>4, <3>5
    <3>6. CASE k # k0
      BY <1>2, <3>3, <3>6 DEF Waiting, OneGenerator
    <3> QED BY <3>5, <3>6
  <2>2. CASE pending[k0] # <<>>
    <3>1. \A k \in Keys : Generating(k)' = Generating(k)
      BY <1>0, <1>1, <2>2 DEF Generating
    <3>2. pending'[k0] # <<>>
      BY <1>2, EmptyList
    <3> QED BY <1>2, <2>2, <3>1, <3>2 DEF Waiting, OneGenerator
  <2> QED BY <2>1, <2>2
<1>8. NoLostWaiter'
  <2> SUFFICES ASSUME NEW d \in Calls, pc'[d] = "blocked"
               PROVE  \/ Listed(d, pending'[key'[d]])
                      \/ \E g \in Calls : gpc'[g] = "responding" /\ Listed(d, audience'[g])
    BY DEF NoLostWaiter
  <2>1. CASE d = c
    BY <1>0, <1>1, <1>2, <2>1
  <2>2. CASE d # c
    <3>1. \/ Listed(d, pending[key[d]])
          \/ \E g \in Calls : gpc[g] = "responding" /\ Listed(d, audience[g])
      BY <1>5, <2>2 DEF Waiting, NoLostWaiter
    <3>2. \A g \in Calls : gpc[g] = "responding" => gpc'[g] = "responding"
      BY <1>0, <1>1, <1>5
    <3>3. key[d] \in Keys
      BY DEF Waiting, WaitTypes
    <3> QED BY <1>0, <1>1, <1>2, <3>1, <3>2, <3>3
  <2> QED BY <2>1, <2>2
<1>9. NoStraySend'
  <2>1. \A k \in Keys : NoRepeats(pending'[k])
    <3>1. NoRepeats(pending'[k0])
      BY <1>0, <1>1, <1>3, AppendList DEF Waiting, WaitTypes, NoStraySend
    <3> QED BY <1>2, <3>1 DEF Waiting, NoStraySend
  <2>2. ASSUME NEW k \in Keys, NEW d \in Calls, Listed(d, pending'[k])
        PROVE  /\ pc'[d] = "blocked" /\ key'[d] = k
               /\ \A g \in Calls : ~Listed(d, audience'[g])
    BY <1>0, <1>1, <1>2, <1>3, <1>5, <2>2 DEF Waiting, NoStraySend
  <2>3. \A g, d \in Calls : Listed(d, audience'[g]) =>
          /\ pc'[d] = "blocked" /\ key'[d] = key'[g]
          /\ \A h \in Calls \ {g} : ~Listed(d, audience'[h])
    BY <1>0, <1>1, <1>5 DEF Waiting, NoStraySend
  <2>4. \A g \in Calls : NoRepeats(audience'[g])
    BY <1>0, <1>1 DEF Waiting, NoStraySend
  <2> QED BY <2>1, <2>2, <2>3, <2>4 DEF NoStraySend
<1> QED BY <1>4, <1>6, <1>7, <1>8, <1>9 DEF Waiting

LEMMA WaitingRemove ==
  ASSUME Waiting, NEW c \in Calls, RemovePendings(c)
  PROVE  Waiting'
<1>0. PICK k0 \in Keys : k0 = key[c]
  BY DEF Waiting, WaitTypes
<1>1. /\ k0 \in Keys /\ pending[k0] \in Seq(Calls)
      /\ gpc[c] = "stored" /\ audience[c] = <<>> /\ gpc' = [gpc EXCEPT ![c] = "responding"]
      /\ audience' = [audience EXCEPT ![c] = pending[k0]]
      /\ pending' = [pending EXCEPT ![k0] = <<>>]
      /\ UNCHANGED <<key, pc>>
  BY <1>0 DEF Waiting, WaitTypes, Phases, RemovePendings, callVars
<1>2. /\ \A k \in Keys : k # k0 => pending'[k] = pending[k]
      /\ pending'[k0] = <<>>
      /\ audience'[c] = pending[k0]
      /\ \A g \in Calls : g # c => audience'[g] = audience[g] /\ gpc'[g] = gpc[g]
      /\ gpc'[c] = "responding"
  BY <1>0, <1>1 DEF Waiting, WaitTypes
<1>3. \A d \in Calls : ~Listed(d, audience[c]) /\ ~Listed(d, pending'[k0])
  BY <1>0, <1>1, <1>2, EmptyList
<1>4. WaitTypes'
  BY <1>0, <1>1 DEF Waiting, WaitTypes, GPCs
<1>5. Phases'
  BY <1>0, <1>1, <1>2 DEF Waiting, Phases
<1>6. OneGenerator'
  <2>1. c \in Generating(k0)
    BY <1>0, <1>1 DEF Generating
  <2>2. Generating(k0)' = Generating(k0) \ {c}
    BY <1>0, <1>1, <1>2 DEF Generating
  <2>3. Generating(k0)' = {}
    BY <1>0, <1>1, <2>1, <2>2 DEF Waiting, OneGenerator
  <2>4. \A k \in Keys : k # k0 => Generating(k)' = Generating(k)
    BY <1>0, <1>1, <1>2 DEF Generating
  <2> SUFFICES ASSUME NEW k \in Keys
               PROVE  /\ \A d, e \in Generating(k)' : d = e
                      /\ Generating(k)' = {} <=> pending'[k] = <<>>
    BY DEF OneGenerator
  <2>5. CASE k = k0
    BY <1>2, <2>3, <2>5
  <2>6. CASE k # k0
    BY <1>2, <2>4, <2>6 DEF Waiting, OneGenerator
  <2> QED BY <2>5, <2>6
<1>7. NoLostWaiter'
  <2> SUFFICES ASSUME NEW d \in Calls, pc'[d] = "blocked"
               PROVE  \/ Listed(d, pending'[key'[d]])
                      \/ \E g \in Calls : gpc'[g] = "responding" /\ Listed(d, audience'[g])
    BY DEF NoLostWaiter
  <2>1. CASE Listed(d, pending[key[d]])
    BY <1>0, <1>1, <1>2, <2>1 DEF Waiting, WaitTypes
  <2>2. CASE \E g \in Calls : gpc[g] = "responding" /\ Listed(d, audience[g])
    BY <1>0, <1>1, <1>2, <2>2
  <2> QED BY <1>0, <1>1, <2>1, <2>2 DEF Waiting, NoLostWaiter
<1>8. NoStraySend'
  <2>1. \A k \in Keys : NoRepeats(pending'[k])
    BY <1>2, EmptyList DEF Waiting, NoStraySend
  <2>2. ASSUME NEW k \in Keys, NEW d \in Calls, Listed(d, pending'[k])
        PROVE  /\ pc'[d] = "blocked" /\ key'[d] = k
               /\ \A g \in Calls : ~Listed(d, audience'[g])
    <3>1. k # k0 /\ Listed(d, pending[k])
      BY <1>2, <1>3, <2>2
    <3>2. /\ pc[d] = "blocked" /\ key[d] = k
          /\ \A g \in Calls : ~Listed(d, audience[g])
      BY <3>1 DEF Waiting, NoStraySend
    <3>3. ~Listed(d, pending[k0])
      BY <1>0, <1>1, <3>1, <3>2 DEF Waiting, NoStraySend
    <3> QED BY <1>0, <1>1, <1>2, <3>2, <3>3
  <2>3. \A g \in Calls : NoRepeats(audience'[g])
    BY <1>0, <1>1, <1>2 DEF Waiting, NoStraySend
  <2>4. ASSUME NEW g \in Calls, NEW d \in Calls, Listed(d, audience'[g])
        PROVE  /\ pc'[d] = "blocked" /\ key'[d] = key'[g]
               /\ \A h \in Calls \ {g} : ~Listed(d, audience'[h])
    <3>1. CASE g = c
      <4>1. Listed(d, pending[k0])
        BY <1>2, <2>4, <3>1
      <4> QED BY <1>0, <1>1, <1>2, <3>1, <4>1 DEF Waiting, NoStraySend
    <3>2. CASE g # c
      <4>1. Listed(d, audience[g])
        BY <1>2, <2>4, <3>2
      <4>2. /\ pc[d] = "blocked" /\ key[d] = key[g]
            /\ \A h \in Calls \ {g} : ~Listed(d, audience[h])
        BY <4>1 DEF Waiting, NoStraySend
      <4>3. ~Listed(d, pending[k0])
        BY <1>0, <1>1, <4>1 DEF Waiting, NoStraySend
      <4> QED BY <1>0, <1>1, <1>2, <4>2, <4>3
    <3> QED BY <3>1, <3>2
  <2> QED BY <2>1, <2>2, <2>3, <2>4 DEF NoStraySend
<1> QED BY <1>4, <1>5, <1>6, <1>7, <1>8 DEF Waiting

LEMMA WaitingRespond ==
  ASSUME Waiting, NEW c \in Calls, Respond(c)
  PROVE  Waiting'
<1> DEFINE d0 == Head(audience[c])
<1>1. /\ audience[c] \in Seq(Calls) /\ audience[c] # <<>> /\ NoRepeats(audience[c])
      /\ gpc[c] = "responding"
      /\ pc[d0] = "blocked" /\ pc' = [pc EXCEPT ![d0] = "done"]
      /\ audience' = [audience EXCEPT ![c] = Tail(audience[c])]
      /\ UNCHANGED <<key, gpc, pending>>
  BY DEF Waiting, WaitTypes, NoStraySend, Respond
<1>2. /\ d0 \in Calls /\ Listed(d0, audience[c]) /\ Tail(audience[c]) \in Seq(Calls)
      /\ \A d \in Calls : Listed(d, Tail(audience[c])) <=> Listed(d, audience[c]) /\ d # d0
      /\ NoRepeats(Tail(audience[c]))
  BY <1>1, TailList
<1>3. /\ audience'[c] = Tail(audience[c])
      /\ \A g \in Calls : g # c => audience'[g] = audience[g]
      /\ \A d \in Calls : d # d0 => pc'[d] = pc[d]
      /\ pc'[d0] = "done"
  BY <1>1, <1>2 DEF Waiting, WaitTypes
<1>4. /\ \A k \in Keys : ~Listed(d0, pending[k])
      /\ \A g \in Calls : g # c => ~Listed(d0, audience[g])
  BY <1>2 DEF Waiting, NoStraySend
<1>5. WaitTypes'
  BY <1>1, <1>2 DEF Waiting, WaitTypes, PCs
<1>6. Phases'
  BY <1>1, <1>3 DEF Waiting, Phases
<1>7. OneGenerator'
  BY <1>1 DEF Waiting, OneGenerator, Generating
<1>8. NoLostWaiter'
  <2> SUFFICES ASSUME NEW d \in Calls, pc'[d] = "blocked"
               PROVE  \/ Listed(d, pending'[key'[d]])
                      \/ \E g \in Calls : gpc'[g] = "responding" /\ Listed(d, audience'[g])
    BY DEF NoLostWaiter
  <2>1. d # d0 /\ pc[d] = "blocked"
    BY <1>3
  <2>2. CASE Listed(d, pending[key[d]])
    BY <1>1, <2>2
  <2>3. ASSUME NEW g \in Calls, gpc[g] = "responding", Listed(d, audience[g])
        PROVE  gpc'[g] = "responding" /\ Listed(d, audience'[g])
    BY <1>1, <1>2, <1>3, <2>1, <2>3
  <2> QED BY <2>1, <2>2, <2>3 DEF Waiting, NoLostWaiter
<1>9. NoStraySend'
  <2>1. \A k \in Keys : NoRepeats(pending'[k])
    BY <1>1 DEF Waiting, NoStraySend
  <2>2. \A g, d \in Calls : Listed(d, audience'[g]) => Listed(d, audience[g]) /\ d # d0
    BY <1>2, <1>3, <1>4
  <2>3. ASSUME NEW k \in Keys, NEW d \in Calls, Listed(d, pending'[k])
        PROVE  /\ pc'[d] = "blocked" /\ key'[d] = k
               /\ \A g \in Calls : ~Listed(d, audience'[g])
    BY <1>1, <1>3, <1>4, <2>2, <2>3 DEF Waiting, NoStraySend
  <2>4. \A g \in Calls : NoRepeats(audience'[g])
    BY <1>2, <1>3 DEF Waiting, NoStraySend
  <2>5. ASSUME NEW g \in Calls, NEW d \in Calls, Listed(d, audience'[g])
        PROVE  /\ pc'[d] = "blocked" /\ key'[d] = key'[g]
               /\ \A h \in Calls \ {g} : ~Listed(d, audience'[h])
    BY <1>1, <1>3, <2>2, <2>5 DEF Waiting, NoStraySend
  <2> QED BY <2>1, <2>3, <2>4, <2>5 DEF NoStraySend
<1> QED BY <1>5, <1>6, <1>7, <1>8, <1>9 DEF Waiting

LEMMA WaitingFinish ==
  ASSUME Waiting, NEW c \in Calls, Finish(c)
  PROVE  Waiting'
<1>1. /\ gpc[c] = "responding" /\ audience[c] = <<>>
      /\ gpc' = [gpc EXCEPT ![c] = "finished"]
      /\ UNCHANGED <<pc, key, audience, pending>>
  BY DEF Finish, callVars
<1>2. /\ \A d \in Calls : d # c => gpc'[d] = gpc[d]
      /\ gpc'[c] = "finished"
  BY <1>1 DEF Waiting, WaitTypes
<1>3. WaitTypes' /\ Phases'
  BY <1>1, <1>2 DEF Waiting, WaitTypes, Phases, GPCs
<1>4. \A k \in Keys : Generating(k)' = Generating(k)
  BY <1>1, <1>2 DEF Generating
<1>5. OneGenerator'
  BY <1>1, <1>4 DEF Waiting, OneGenerator
<1>6. \A d \in Calls : ~Listed(d, audience[c])
  BY <1>1, EmptyList
<1>7. NoLostWaiter' /\ NoStraySend'
  BY <1>1, <1>2, <1>6 DEF Waiting, NoLostWaiter, NoStraySend
<1> QED BY <1>3, <1>5, <1>7 DEF Waiting

LEMMA WaitingStep == Waiting /\ [Next]_vars => Waiting'
<1> SUFFICES ASSUME Waiting, [Next]_vars PROVE Waiting'
  OBVIOUS
<1>1. ASSUME NEW c \in Calls,
             StartGet(c) \/ GetTooBusy(c) \/ GetWaited(c) \/ McGet(c) \/ GetReleased(c)
      PROVE  Waiting'
  <2>1. \E p \in PCs \ {"blocked"} :
          /\ pc[c] \in PCs \ {"blocked", "done"}
          /\ pc' = [pc EXCEPT ![c] = p]
          /\ UNCHANGED <<key, gpc, audience, pending>>
    BY <1>1 DEF StartGet, GetTooBusy, GetWaited, McGet, GetReleased, PCs, genVars
  <2> QED BY <2>1, QuietGet
<1>2. ASSUME NEW c \in Calls,
             \/ Generate(c) \/ SkipStore(c) \/ StartStore(c) \/ StoreTooBusy(c)
             \/ StoreWaited(c) \/ McSet(c) \/ StoreReleased(c)
      PROVE  Waiting'
  <2>1. \E p \in Active :
          /\ gpc[c] \in Active
          /\ gpc' = [gpc EXCEPT ![c] = p]
          /\ UNCHANGED <<pc, key, audience, pending>>
    BY <1>2 DEF Generate, SkipStore, StartStore, StoreTooBusy, StoreWaited, McSet,
                StoreReleased, Active, GPCs, callVars
  <2> QED BY <2>1, QuietGenerate
<1>3. ASSUME Environment \/ Terminated \/ UNCHANGED vars
      PROVE  Waiting'
  <2>1. UNCHANGED <<pc, key, gpc, audience, pending>>
    BY <1>3 DEF Environment, Evict, Change, ApplyLateSet, Terminated, vars, callVars, genVars
  <2> QED BY <2>1 DEF Waiting, WaitTypes, Phases, OneGenerator, Generating, NoLostWaiter, NoStraySend
<1> QED
  BY <1>1, <1>2, <1>3, WaitingPut, WaitingRemove, WaitingRespond, WaitingFinish
  DEF Next, GetStep, GenerateStep

LEMMA WaitingInvariant == Spec => []Waiting
BY WaitingInit, WaitingStep, PTL DEF Spec

\* A key has one goroutine that generates, exactly while callers are registered
\* for it: a miss is never generated twice at a time, and a caller never joins
\* a list that nobody is going to collect.
THEOREM OneGenerationAtATime == Spec => []OneGenerator
BY WaitingInvariant, PTL DEF Waiting

\* Whoever blocks on its channel is in the list of its key, or in the audience
\* of a goroutine that is sending: for any number of calls and keys.
THEOREM WaitersAreServed == Spec => []NoLostWaiter
BY WaitingInvariant, PTL DEF Waiting

\* No caller is in two lists, or twice in one, and whoever is in one is at its
\* channel: doGenerate never sends to nobody, which would block it for good.
THEOREM SendsFindTheirReceivers == Spec => []NoStraySend
BY WaitingInvariant, PTL DEF Waiting

-----------------------------------------------------------------------------
(* Types. *)

Data ==
  /\ reply \in [Calls -> Pages \cup {Absent, Garbled}]
  /\ result \in [Calls -> Outcomes \cup {Absent}]
  /\ obj \in [Calls -> Pages \cup {Absent, Failure}]
  /\ mc \in [Keys -> Pages \cup {Absent, Garbled}]
  /\ late \in SUBSET Pages
  /\ version \in [Keys -> 0 .. MaxVersion]
  /\ \A c \in Calls : gpc[c] \notin {"none", "generating"} => obj[c] \in Pages \cup {Failure}
  /\ \A c \in Calls : gpc[c] \in {"storeResultCache", "setting"} => obj[c] \in Pages
  /\ \A c \in Calls : pc[c] = "done" <=> result[c] # Absent

LEMMA DataInit == Init => Data
BY CacheAssumption DEF Init, Data

LEMMA DataStep == Waiting /\ Data /\ [Next]_vars => Data'
<1> SUFFICES ASSUME Waiting, Data, [Next]_vars PROVE Data'
  OBVIOUS
<1>1. ASSUME NEW c \in Calls,
             StartGet(c) \/ GetTooBusy(c) \/ GetWaited(c) \/ McGet(c) \/ PutPendings(c)
      PROVE  Data'
  <2>1. UNCHANGED <<result, obj, mc, late, version>>
    BY <1>1 DEF StartGet, GetTooBusy, GetWaited, McGet, PutPendings, genVars, envVars
  <2>2. reply' \in [Calls -> Pages \cup {Absent, Garbled}]
    BY <1>1, ZenonT(40) DEF Waiting, WaitTypes, Data, StartGet, GetTooBusy, GetWaited, McGet, PutPendings
  <2>3. \A d \in Calls : pc'[d] = "done" <=> pc[d] = "done"
    BY <1>1 DEF Waiting, WaitTypes, StartGet, GetTooBusy, GetWaited, McGet, PutPendings
  <2>4. \A d \in Calls : gpc'[d] = gpc[d] \/ gpc'[d] = "generating"
    BY <1>1 DEF Waiting, WaitTypes, StartGet, GetTooBusy, GetWaited, McGet, PutPendings, genVars
  <2> QED BY <2>1, <2>2, <2>3, <2>4 DEF Data
<1>2. ASSUME NEW c \in Calls, GetReleased(c)
      PROVE  Data'
  <2>1. /\ UNCHANGED <<gpc, obj, mc, late, version>>
        /\ reply' = [reply EXCEPT ![c] = Absent]
        /\ pc[c] = "answered"
        /\ \/ pc' = [pc EXCEPT ![c] = "missed"] /\ UNCHANGED result
           \/ /\ reply[c] # Absent
              /\ pc' = [pc EXCEPT ![c] = "done"]
              /\ result' = [result EXCEPT ![c] = reply[c]]
    BY <1>2 DEF GetReleased, Decoded, genVars, envVars
  <2>2. result' \in [Calls -> Outcomes \cup {Absent}]
    BY <2>1 DEF Data, Outcomes
  <2>3. \A d \in Calls : pc'[d] = "done" <=> result'[d] # Absent
    BY <2>1 DEF Waiting, WaitTypes, Data
  <2>4. reply' \in [Calls -> Pages \cup {Absent, Garbled}]
    BY <2>1 DEF Data
  <2> QED BY <2>1, <2>2, <2>3, <2>4 DEF Data
<1>3. ASSUME NEW c \in Calls, Generate(c)
      PROVE  Data'
  <2>1. PICK o \in {[key |-> key[c], ver |-> version[key[c]]], Failure} :
          obj' = [obj EXCEPT ![c] = o]
    BY <1>3 DEF Generate
  <2>2. o \in Pages \cup {Failure}
    BY <2>1 DEF Waiting, WaitTypes, Data, Pages
  <2>3. /\ UNCHANGED <<pc, reply, result, mc, late, version>>
        /\ gpc' = [gpc EXCEPT ![c] = "generated"]
    BY <1>3 DEF Generate, callVars, envVars
  <2>4. /\ obj' \in [Calls -> Pages \cup {Absent, Failure}]
        /\ \A d \in Calls : d # c => obj'[d] = obj[d] /\ gpc'[d] = gpc[d]
        /\ obj'[c] \in Pages \cup {Failure} /\ gpc'[c] = "generated"
    BY <2>1, <2>2, <2>3 DEF Waiting, WaitTypes, Data
  <2> QED BY <2>3, <2>4 DEF Data
<1>4. ASSUME NEW c \in Calls,
             SkipStore(c) \/ StartStore(c) \/ StoreTooBusy(c) \/ StoreWaited(c)
             \/ StoreReleased(c) \/ RemovePendings(c) \/ Finish(c)
      PROVE  Data'
  <2>1. UNCHANGED <<pc, reply, result, obj, mc, late, version>>
    BY <1>4 DEF SkipStore, StartStore, StoreTooBusy, StoreWaited,
                StoreReleased, RemovePendings, Finish, callVars, envVars
  <2>2. \A d \in Calls : gpc'[d] \notin {"none", "generating"} =>
          gpc[d] \notin {"none", "generating"}
    BY <1>4 DEF Waiting, WaitTypes, SkipStore, StartStore, StoreTooBusy, StoreWaited,
                StoreReleased, RemovePendings, Finish
  <2>3. \A d \in Calls : gpc'[d] \in {"storeResultCache", "setting"} =>
          \/ gpc[d] \in {"storeResultCache", "setting"}
          \/ gpc[d] = "generated" /\ obj[d] # Failure
    BY <1>4 DEF Waiting, WaitTypes, SkipStore, StartStore, StoreTooBusy, StoreWaited,
                StoreReleased, RemovePendings, Finish
  <2> QED BY <2>1, <2>2, <2>3 DEF Data
<1>5. ASSUME NEW c \in Calls, McSet(c)
      PROVE  Data'
  <2>1. /\ UNCHANGED <<pc, reply, result, obj, version>>
        /\ obj[c] \in Pages /\ key[c] \in Keys
        /\ gpc[c] = "setting" /\ gpc' = [gpc EXCEPT ![c] = "answered"]
    BY <1>5 DEF McSet, Waiting, WaitTypes, Data, callVars
  <2>2. mc' \in [Keys -> Pages \cup {Absent, Garbled}] /\ late' \in SUBSET Pages
    BY <1>5, <2>1 DEF McSet, Data
  <2> QED BY <2>1, <2>2 DEF Data, Waiting, WaitTypes
<1>6. ASSUME NEW c \in Calls, Respond(c)
      PROVE  Data'
  <2> DEFINE d0 == Head(audience[c])
  <2>0. d0 \in Calls /\ obj[c] \in Pages \cup {Failure}
    <3>1. audience[c] \in Seq(Calls) /\ audience[c] # <<>> /\ gpc[c] = "responding"
      BY <1>6 DEF Respond, Waiting, WaitTypes
    <3>2. d0 \in Calls
      BY <3>1
    <3>3. obj[c] \in Pages \cup {Failure}
      BY <3>1 DEF Data
    <3> QED BY <3>2, <3>3
  <2>1. /\ d0 \in Calls
        /\ pc' = [pc EXCEPT ![d0] = "done"]
        /\ result' = [result EXCEPT ![d0] = obj[c]]
        /\ obj[c] \in Pages \cup {Failure}
        /\ UNCHANGED <<reply, obj, gpc, mc, late, version>>
    BY <1>6, <2>0 DEF Respond, envVars
  <2>2. obj[c] # Absent
    BY <2>1, CacheAssumption
  <2>3. result' \in [Calls -> Outcomes \cup {Absent}]
    BY <2>1 DEF Data, Outcomes
  <2>4. \A d \in Calls : pc'[d] = "done" <=> result'[d] # Absent
    BY <2>1, <2>2 DEF Data, Waiting, WaitTypes
  <2> QED BY <2>1, <2>3, <2>4 DEF Data
<1>7. CASE Environment
  <2>1. UNCHANGED <<pc, reply, result, gpc, obj>>
    BY <1>7 DEF Environment, Evict, Change, ApplyLateSet, callVars, genVars
  <2>2. mc' \in [Keys -> Pages \cup {Absent, Garbled}] /\ late' \in SUBSET Pages
    BY <1>7 DEF Environment, Evict, Change, ApplyLateSet, Data, Pages
  <2>3. version' \in [Keys -> 0 .. MaxVersion]
    BY <1>7, CacheAssumption DEF Environment, Evict, Change, ApplyLateSet, Data
  <2> QED BY <2>1, <2>2, <2>3 DEF Data
<1>8. CASE Terminated \/ UNCHANGED vars
  BY <1>8 DEF Terminated, vars, callVars, genVars, envVars, Data
<1> QED
  BY <1>1, <1>2, <1>3, <1>4, <1>5, <1>6, <1>7, <1>8 DEF Next, GetStep, GenerateStep

LEMMA DataInvariant == Spec => []Data
BY DataInit, DataStep, WaitingInvariant, PTL DEF Spec

\* The types, and that a Get has a result exactly when it has returned.
THEOREM CacheTyping == Spec => []TypeOK
<1>1. Waiting /\ Data /\ GP!TypeOK => TypeOK
  BY DEF Waiting, WaitTypes, Data, TypeOK, GP!TypeOK, TheGate!TypeOK, GP!States, TheGate!States
<1> QED BY <1>1, WaitingInvariant, DataInvariant, GateInvariant, PTL

-----------------------------------------------------------------------------
(* Connections. *)

\* Whoever talks to memcached owns a slot of the gate.
Held ==
  \A c \in Calls :
    pc[c] \in {"asking", "answered"} \/ gpc[c] \in {"setting", "answered"}
      => rsv[c] = "inflight"

\* A reservation that is in flight stays so until its owner releases it.
LEMMA InflightStays ==
  ASSUME GP!Inv, NEW c \in Calls, NEW d \in Calls, c # d, rsv[d] = "inflight",
         \/ TheGate!Reserve(c) \/ TheGate!GiveUp(c) \/ TheGate!Wait(c)
         \/ TheGate!ReleaseAfterWait(c)
  PROVE  rsv'[d] = "inflight"
<1>1. rsv \in [Calls -> GP!States]
  BY DEF GP!Inv, GP!AnyInv, GP!Types
<1>2. CASE TheGate!Reserve(c) \/ TheGate!GiveUp(c) \/ TheGate!Wait(c)
  BY <1>1, <1>2 DEF TheGate!Reserve, TheGate!Refuse, TheGate!GrantNow, TheGate!Enqueue,
                    TheGate!GiveUp, TheGate!Wait
<1>3. CASE TheGate!ReleaseAfterWait(c)
  <2>1. CASE queue = <<>>
    BY <1>1, <1>3, <2>1 DEF TheGate!ReleaseAfterWait, TheGate!Release, TheGate!Granted, TheGate!Dropped
  <2>2. CASE queue # <<>>
    <3>1. Head(queue) # d
      BY <2>2 DEF GP!Inv, GP!AnyInv, GP!Types, GP!QueueOrder
    <3>2. rsv' = [TheGate!Dropped(c) EXCEPT ![Head(queue)] = IF @ = "queued" THEN "granted" ELSE "idle"]
      BY <1>3, <2>2 DEF TheGate!ReleaseAfterWait, TheGate!Release, TheGate!Granted
    <3> QED BY <1>1, <3>1, <3>2 DEF TheGate!Dropped
  <2> QED BY <2>1, <2>2
<1> QED BY <1>2, <1>3

LEMMA HeldStep == GP!Inv /\ Waiting /\ Held /\ [Next]_vars => Held'
<1> SUFFICES ASSUME GP!Inv, Waiting, Held, [Next]_vars PROVE Held'
  OBVIOUS
<1> DEFINE Talks(d) == pc[d] \in {"asking", "answered"} \/ gpc[d] \in {"setting", "answered"}
<1>1. ASSUME NEW c \in Calls, StartGet(c) \/ GetTooBusy(c) \/ GetReleased(c)
      PROVE  Held'
  <2>1. \A d \in Calls : Talks(d)' => d # c /\ Talks(d)
    BY <1>1 DEF Waiting, WaitTypes, Phases, StartGet, GetTooBusy, GetReleased, genVars
  <2> QED BY <1>1, <2>1, InflightStays DEF Held, StartGet, GetTooBusy, GetReleased
<1>2. ASSUME NEW c \in Calls, GetWaited(c) \/ StoreWaited(c)
      PROVE  Held'
  <2>1. \A d \in Calls : Talks(d)' => d = c \/ Talks(d)
    BY <1>2 DEF Waiting, WaitTypes, GetWaited, StoreWaited, genVars, callVars
  <2>2. TheGate!Wait(c)
    BY <1>2 DEF GetWaited, StoreWaited
  <2>3. rsv'[c] = "inflight"
    BY <2>2 DEF TheGate!Wait, GP!Inv, GP!AnyInv, GP!Types
  <2> QED BY <2>1, <2>2, <2>3, InflightStays DEF Held
<1>3. ASSUME NEW c \in Calls,
             McGet(c) \/ PutPendings(c) \/ Generate(c) \/ SkipStore(c)
             \/ McSet(c) \/ RemovePendings(c) \/ Finish(c)
      PROVE  Held'
  <2>1. \A d \in Calls : Talks(d)' => Talks(d)
    BY <1>3 DEF Waiting, WaitTypes, McGet, PutPendings, Generate, SkipStore, McSet,
                RemovePendings, Finish, callVars, genVars
  <2>2. rsv' = rsv
    BY <1>3 DEF McGet, PutPendings, Generate, SkipStore, McSet, RemovePendings, Finish, gateVars
  <2> QED BY <2>1, <2>2 DEF Held
<1>4. ASSUME NEW c \in Calls, StartStore(c) \/ StoreTooBusy(c) \/ StoreReleased(c)
      PROVE  Held'
  <2>1. \A d \in Calls : Talks(d)' => d # c /\ Talks(d)
    BY <1>4 DEF Waiting, WaitTypes, Phases, StartStore, StoreTooBusy, StoreReleased, callVars
  <2> QED BY <1>4, <2>1, InflightStays DEF Held, StartStore, StoreTooBusy, StoreReleased
<1>5. ASSUME NEW c \in Calls, Respond(c)
      PROVE  Held'
  <2>1. Head(audience[c]) \in Calls
    BY <1>5 DEF Respond, Waiting, WaitTypes
  <2>2. \A d \in Calls : Talks(d)' => Talks(d)
    BY <1>5, <2>1 DEF Waiting, WaitTypes, Respond
  <2> QED BY <1>5, <2>2 DEF Held, Respond, gateVars
<1>6. CASE Environment \/ Terminated \/ UNCHANGED vars
  BY <1>6 DEF Environment, Evict, Change, ApplyLateSet, Terminated, vars, callVars, genVars,
              gateVars, Held
<1> QED BY <1>1, <1>2, <1>3, <1>4, <1>5, <1>6 DEF Next, GetStep, GenerateStep

LEMMA HeldInvariant == Spec => []Held
<1>1. Init => Held
  BY DEF Init, Held
<1> QED BY <1>1, HeldStep, GateInvariant, WaitingInvariant, PTL DEF Spec

\* At most MaxOpen calls and goroutines talk to memcached together.
THEOREM ConnectionsAreBounded == Spec => []ConnectionBound
<1>1. GP!Inv /\ GP!InflightBound /\ Held => ConnectionBound
  <2> SUFFICES ASSUME GP!Inv, GP!InflightBound, Held PROVE ConnectionBound
    OBVIOUS
  <2>1. Connected \subseteq GP!Holders
    BY DEF Connected, GP!Holders, Held
  <2>2. IsFiniteSet(GP!Holders) /\ Cardinality(GP!Holders) <= MaxOpen
    BY DEF GP!Inv, GP!WaitFirst, GP!InflightBound, GP!IsFiniteSet, GP!Cardinality,
           IsFiniteSet, Cardinality
  <2>3. Cardinality(Connected) <= Cardinality(GP!Holders) /\ IsFiniteSet(Connected)
    BY <2>1, <2>2, FS_Subset
  <2> QED BY <2>2, <2>3, FS_CardinalityType, CacheAssumption DEF ConnectionBound
<1> QED BY <1>1, GateInvariant, HeldInvariant, PTL

-----------------------------------------------------------------------------
(* Ages of entries. *)

Storing(c) == gpc[c] \in {"generated", "storeResultCache", "setting"} /\ obj[c] \in Pages

\* Between generating and storing an object nothing newer gets into memcached,
\* nor on its way there.
Ages ==
  /\ \A k \in Keys : mc[k] \in Pages => mc[k].ver <= version[k]
  /\ \A p \in late : p.ver <= version[p.key]
  /\ \A c \in Calls : obj[c] \in Pages => obj[c].key = key[c] /\ obj[c].ver <= version[key[c]]
  /\ \A c \in Calls : Storing(c) /\ mc[key[c]] \in Pages => mc[key[c]].ver <= obj[c].ver
  /\ \A c \in Calls, p \in late : Storing(c) /\ p.key = key[c] => p.ver <= obj[c].ver

NoOlder == \A k \in Keys : mc[k] \in Pages /\ mc'[k] \in Pages => mc[k].ver <= mc'[k].ver

LEMMA AgesInit == Init => Ages
BY CacheAssumption DEF Init, Ages, Storing

LEMMA AgesStep ==
  ASSUME Waiting, Data, Ages, [Next]_vars
  PROVE  Ages' /\ (NoOlder \/ \E p \in late : ApplyLateSet(p))
<1>0. /\ \A p \in Pages : p.key \in Keys /\ p.ver \in Nat /\ p.ver <= p.ver
      /\ late \subseteq Pages
  BY CacheAssumption DEF Pages, Data
<1>1. ASSUME NEW c \in Calls, Generate(c)
      PROVE  Ages' /\ NoOlder
  <2>1. PICK o \in {[key |-> key[c], ver |-> version[key[c]]], Failure} :
          obj' = [obj EXCEPT ![c] = o]
    BY <1>1 DEF Generate
  <2>2. UNCHANGED <<key, mc, late, version>> /\ gpc' = [gpc EXCEPT ![c] = "generated"]
    BY <1>1 DEF Generate, callVars, envVars
  <2>3. key[c] \in Keys /\ version[key[c]] \in Nat
    BY CacheAssumption DEF Waiting, WaitTypes, Data
  <2>4. /\ \A d \in Calls : d # c => obj'[d] = obj[d] /\ gpc'[d] = gpc[d]
        /\ obj'[c] = o
    BY <2>1, <2>2 DEF Waiting, WaitTypes, Data
  <2>5. o \in Pages => o.key = key[c] /\ o.ver = version[key[c]]
    BY CacheAssumption
  <2>6. o \in Pages => o.ver <= version[key[c]]
    BY <2>3, <2>5
  <2> QED BY <1>0, <2>2, <2>3, <2>4, <2>5, <2>6 DEF Ages, Storing, NoOlder
<1>2. ASSUME NEW c \in Calls, McSet(c)
      PROVE  Ages' /\ NoOlder
  <2>1. /\ UNCHANGED <<key, obj, version>>
        /\ \/ mc' = mc /\ late' = late
           \/ mc' = [mc EXCEPT ![key[c]] = obj[c]] /\ late' = late
           \/ mc' = mc /\ late' = late \cup {obj[c]}
        /\ gpc[c] = "setting" /\ gpc' = [gpc EXCEPT ![c] = "answered"]
    BY <1>2 DEF McSet, callVars
  <2>2. obj[c] \in Pages /\ obj[c].key = key[c] /\ key[c] \in Keys /\ Storing(c)
    BY <2>1 DEF Waiting, WaitTypes, Data, Ages, Storing
  <2>3. \A d \in Calls : Storing(d)' => d # c /\ Storing(d) /\ obj'[d] = obj[d] /\ key'[d] = key[d]
    BY <2>1 DEF Waiting, WaitTypes, Storing
  <2>4. ASSUME NEW d \in Calls, Storing(d)'
        PROVE  key[d] # key[c]
    <3>1. d # c /\ Storing(d) /\ key[d] \in Keys
      BY <2>3, <2>4 DEF Waiting, WaitTypes
    <3>2. key[d] = key[c] => d \in Generating(key[c]) /\ c \in Generating(key[c])
      BY <2>1, <3>1 DEF Generating, Storing
    <3> QED BY <2>2, <3>1, <3>2 DEF Waiting, OneGenerator
  <2>5. CASE mc' = mc /\ late' = late
    BY <1>0, <2>1, <2>3, <2>5 DEF Ages, NoOlder
  <2>6. CASE mc' = [mc EXCEPT ![key[c]] = obj[c]] /\ late' = late
    <3>1. /\ \A k \in Keys : k # key[c] => mc'[k] = mc[k]
          /\ mc'[key[c]] = obj[c]
      BY <2>2, <2>6 DEF Data
    <3>2. NoOlder
      BY <1>0, <2>2, <3>1 DEF Ages, NoOlder
    <3>3. \A k \in Keys : mc'[k] \in Pages => mc'[k].ver <= version[k]
      BY <2>2, <3>1 DEF Ages
    <3>4. \A d \in Calls : Storing(d)' => mc'[key[d]] = mc[key[d]]
      BY <2>4, <3>1 DEF Waiting, WaitTypes
    <3> QED BY <2>1, <2>3, <2>6, <3>2, <3>3, <3>4 DEF Ages
  <2>7. CASE mc' = mc /\ late' = late \cup {obj[c]}
    <3>1. NoOlder
      BY <1>0, <2>7 DEF NoOlder
    <3>2. \A p \in late' : p.ver <= version[p.key]
      BY <2>2, <2>7 DEF Ages
    <3>3. \A d \in Calls, p \in late' : Storing(d)' /\ p.key = key[d] => p \in late
      BY <2>2, <2>4, <2>7
    <3> QED BY <2>1, <2>3, <2>7, <3>1, <3>2, <3>3 DEF Ages
  <2> QED BY <2>1, <2>5, <2>6, <2>7
<1>3. ASSUME NEW c \in Calls,
             \/ StartGet(c) \/ GetStep(c) \/ SkipStore(c) \/ StartStore(c) \/ StoreTooBusy(c)
             \/ StoreWaited(c) \/ StoreReleased(c) \/ RemovePendings(c) \/ Respond(c) \/ Finish(c)
      PROVE  Ages' /\ NoOlder
  <2>1. UNCHANGED <<key, obj, mc, late, version>>
    BY <1>3 DEF StartGet, GetStep, GetTooBusy, GetWaited, McGet, GetReleased, PutPendings, SkipStore,
                StartStore, StoreTooBusy, StoreWaited, StoreReleased, RemovePendings, Respond, Finish,
                callVars, genVars, envVars
  <2>2. \A d \in Calls : gpc'[d] \in {"generated", "storeResultCache", "setting"} =>
          gpc[d] \in {"generated", "storeResultCache", "setting"}
    <3>1. CASE StartGet(c) \/ GetStep(c) \/ Respond(c)
      BY <3>1 DEF Waiting, WaitTypes, StartGet, GetStep, GetTooBusy, GetWaited, McGet, GetReleased,
                  PutPendings, Respond, genVars
    <3>2. CASE \/ SkipStore(c) \/ StartStore(c) \/ StoreTooBusy(c) \/ StoreWaited(c)
               \/ StoreReleased(c) \/ RemovePendings(c) \/ Finish(c)
      BY <3>2 DEF Waiting, WaitTypes, SkipStore, StartStore, StoreTooBusy, StoreWaited,
                  StoreReleased, RemovePendings, Finish
    <3> QED BY <1>3, <3>1, <3>2
  <2> QED BY <1>0, <2>1, <2>2 DEF Ages, Storing, NoOlder
<1>4. ASSUME NEW k \in Keys, Evict(k) \/ Change(k)
      PROVE  Ages' /\ NoOlder
  <2>1. UNCHANGED <<key, gpc, obj, late>>
    BY <1>4 DEF Evict, Change, callVars, genVars
  <2>2. \A l \in Keys : mc'[l] = mc[l] \/ mc'[l] = Absent
    BY <1>4 DEF Evict, Change, Data
  <2>3. \A l \in Keys : version[l] \in Nat /\ version'[l] \in Nat /\ version[l] <= version'[l]
    BY <1>4, CacheAssumption DEF Evict, Change, Data
  <2>4. Absent \notin Pages
    BY CacheAssumption
  <2>5. \A c \in Calls : key[c] \in Keys
    BY DEF Waiting, WaitTypes
  <2>6. \A l \in Keys, p \in Pages : p.ver <= version[l] => p.ver <= version'[l]
    BY <1>0, <2>3
  <2> QED BY <1>0, <2>1, <2>2, <2>4, <2>5, <2>6 DEF Ages, Storing, NoOlder
<1>5. ASSUME NEW p \in late, ApplyLateSet(p)
      PROVE  Ages'
  <2>1. /\ UNCHANGED <<key, gpc, obj, version>>
        /\ mc' = [mc EXCEPT ![p.key] = p] /\ late' = late \ {p}
    BY <1>5 DEF ApplyLateSet, callVars, genVars
  <2>2. \A k \in Keys : mc'[k] = mc[k] \/ (mc'[k] = p /\ k = p.key)
    BY <1>0, <2>1 DEF Data
  <2>3. \A c \in Calls : key[c] \in Keys
    BY DEF Waiting, WaitTypes
  <2> QED BY <1>0, <2>1, <2>2, <2>3 DEF Ages, Storing
<1>6. CASE Terminated \/ UNCHANGED vars
  BY <1>0, <1>6 DEF Terminated, vars, callVars, genVars, envVars, Ages, Storing, NoOlder
<1> QED BY <1>1, <1>2, <1>3, <1>4, <1>5, <1>6 DEF Next, GenerateStep, Environment

\* The next generation of a key starts after this one has stored, so memcached
\* never goes back to older data, unless it applies a Set that was given up on.
THEOREM EntriesNeverGetOlder == Spec => NeverOlder
<1>1. Waiting /\ Data /\ Ages /\ [Next]_vars => Ages'
  BY AgesStep
<1>2. Waiting /\ Data /\ Ages /\ [Next]_vars =>
        [(\E p \in late : ApplyLateSet(p)) \/
           \A k \in Keys : mc[k] \in Pages /\ mc'[k] \in Pages => mc[k].ver <= mc'[k].ver]_mc
  BY AgesStep DEF NoOlder
<1> QED BY <1>1, <1>2, AgesInit, WaitingInvariant, DataInvariant, PTL DEF Spec, NeverOlder

-----------------------------------------------------------------------------
(* The manager implements the shared flight. *)

\* What is cached, answered and generated under a key was made for that key.
Keyed ==
  /\ \A k \in Keys : mc[k] \in Pages => mc[k].key = k
  /\ \A c \in Calls : reply[c] \in Pages => reply[c].key = key[c]
  /\ \A c \in Calls : obj[c] \in Pages => obj[c].key = key[c]

LEMMA KeyedInit == Init => Keyed
BY CacheAssumption DEF Init, Keyed

LEMMA KeyedStep == Waiting /\ Data /\ Keyed /\ [Next]_vars => Keyed'
<1> SUFFICES ASSUME Waiting, Data, Keyed, [Next]_vars PROVE Keyed'
  OBVIOUS
<1>0. Absent \notin Pages /\ Failure \notin Pages
  BY CacheAssumption
<1>1. ASSUME NEW c \in Calls, McGet(c)
      PROVE  Keyed'
  <2>1. /\ \E a \in {mc[key[c]], Absent} : reply' = [reply EXCEPT ![c] = a]
        /\ UNCHANGED <<key, obj, mc>>
        /\ key[c] \in Keys
    BY <1>1 DEF McGet, genVars, envVars, Waiting, WaitTypes
  <2> QED BY <1>0, <2>1 DEF Data, Keyed
<1>2. ASSUME NEW c \in Calls, Generate(c)
      PROVE  Keyed'
  <2>1. /\ \E o \in {[key |-> key[c], ver |-> version[key[c]]], Failure} : obj' = [obj EXCEPT ![c] = o]
        /\ UNCHANGED <<key, reply, mc>>
    BY <1>2 DEF Generate, callVars, envVars
  <2> QED BY <1>0, <2>1 DEF Data, Keyed
<1>3. ASSUME NEW c \in Calls, McSet(c)
      PROVE  Keyed'
  <2>1. /\ mc' = mc \/ mc' = [mc EXCEPT ![key[c]] = obj[c]]
        /\ UNCHANGED <<key, reply, obj>>
    BY <1>3 DEF McSet, callVars
  <2> QED BY <2>1, ZenonT(40) DEF Data, Keyed, Waiting, WaitTypes
<1>4. ASSUME NEW c \in Calls,
             \/ StartGet(c) \/ GetTooBusy(c) \/ GetWaited(c) \/ GetReleased(c) \/ PutPendings(c)
             \/ SkipStore(c) \/ StartStore(c) \/ StoreTooBusy(c) \/ StoreWaited(c)
             \/ StoreReleased(c) \/ RemovePendings(c) \/ Respond(c) \/ Finish(c)
      PROVE  Keyed'
  <2>1. UNCHANGED <<key, obj, mc>>
    BY <1>4 DEF StartGet, GetTooBusy, GetWaited, GetReleased, PutPendings, SkipStore, StartStore,
                StoreTooBusy, StoreWaited, StoreReleased, RemovePendings, Respond, Finish,
                callVars, genVars, envVars
  <2>2. reply' = reply \/ reply' = [reply EXCEPT ![c] = Absent]
    BY <1>4 DEF StartGet, GetTooBusy, GetWaited, GetReleased, PutPendings, SkipStore, StartStore,
                StoreTooBusy, StoreWaited, StoreReleased, RemovePendings, Respond, Finish, callVars
  <2> QED BY <1>0, <2>1, <2>2 DEF Data, Keyed
<1>5. CASE Environment
  <2>1. /\ UNCHANGED <<key, reply, obj>>
        /\ \/ mc' = mc
           \/ \E k \in Keys : mc' = [mc EXCEPT ![k] = Absent]
           \/ \E p \in Pages : mc' = [mc EXCEPT ![p.key] = p]
    BY <1>5 DEF Environment, Evict, Change, ApplyLateSet, callVars, genVars, Data
  <2> QED BY <1>0, <2>1 DEF Data, Keyed
<1>6. CASE Terminated \/ UNCHANGED vars
  BY <1>6 DEF Terminated, vars, callVars, genVars, envVars, Keyed
<1> QED BY <1>1, <1>2, <1>3, <1>4, <1>5, <1>6 DEF Next, GetStep, GenerateStep

LEMMA KeyedInvariant == Spec => []Keyed
BY KeyedInit, KeyedStep, WaitingInvariant, DataInvariant, PTL DEF Spec

\* Whoever is in an audience is sent its goroutine's object.
LEMMA Sent ==
  ASSUME NoStraySend, NEW d \in Calls
  PROVE  /\ \A g \in Calls : Listed(d, audience[g]) => SentTo(d) = obj[g]
         /\ (\A g \in Calls : ~Listed(d, audience[g])) => SentTo(d) = result[d]
<1>1. ASSUME NEW g \in Calls, Listed(d, audience[g])
      PROVE  SentTo(d) = obj[g]
  <2>1. \A h \in Calls : Listed(d, audience[h]) => h = g
    BY <1>1 DEF NoStraySend
  <2>2. (CHOOSE h \in Calls : Listed(d, audience[h])) = g
    BY <1>1, <2>1
  <2> QED BY <1>1, <2>2 DEF SentTo
<1> QED BY <1>1 DEF SentTo

\* The same after a step.
LEMMA SentNext ==
  ASSUME NoStraySend', NEW d \in Calls
  PROVE  /\ \A g \in Calls : Listed(d, audience'[g]) => SentTo(d)' = obj'[g]
         /\ (\A g \in Calls : ~Listed(d, audience'[g])) => SentTo(d)' = result'[d]
<1>1. ASSUME NEW g \in Calls, Listed(d, audience'[g])
      PROVE  SentTo(d)' = obj'[g]
  <2>1. \A h \in Calls : Listed(d, audience'[h]) => h = g
    BY <1>1 DEF NoStraySend
  <2>2. (CHOOSE h \in Calls : Listed(d, audience'[h])) = g
    BY <1>1, <2>1
  <2> QED BY <1>1, <2>2 DEF SentTo
<1> QED BY <1>1 DEF SentTo

LEMMA FlightStep ==
  ASSUME Waiting, Data, Keyed, Waiting', [Next]_vars
  PROVE  [Abstract!Next]_(Abstract!vars)
<1> DEFINE ab == [k \in Keys |-> {c \in Calls : Listed(c, pending[k])}]
           go == [c \in Calls |-> SentTo(c)]
<1>0. /\ Absent \notin Pages /\ Absent # Garbled /\ Absent # Failure
      /\ NoStraySend /\ NoStraySend'
  BY CacheAssumption DEF Waiting
\* A caller that is neither listed nor answered is on the ground.
<1>1. ASSUME NEW c \in Calls, pc[c] \notin {"blocked", "done"}
      PROVE  Abstract!Free(c) /\ (\A g \in Calls : ~Listed(c, audience[g])) /\ key[c] \in Keys
  <2>1. /\ \A g \in Calls : ~Listed(c, audience[g])
        /\ \A k \in Keys : ~Listed(c, pending[k])
        /\ result[c] = Absent
    BY <1>0, <1>1 DEF NoStraySend, Data
  <2>2. SentTo(c) = Absent
    BY <1>0, <2>1, Sent
  <2> QED BY <2>1, <2>2 DEF Abstract!Free, Waiting, WaitTypes
<1>2. ASSUME UNCHANGED <<pending, audience, result>>,
             \A g \in Calls : audience[g] = <<>> \/ obj'[g] = obj[g]
      PROVE  UNCHANGED Abstract!vars
  <2>1. ab' = ab
    BY <1>2
  <2>2. \A g, d \in Calls : Listed(d, audience[g]) => obj'[g] = obj[g]
    BY <1>2, EmptyList
  <2>3. ASSUME NEW d \in Calls PROVE SentTo(d)' = SentTo(d)
    <3>1. CASE \E g \in Calls : Listed(d, audience[g])
      <4>1. PICK g \in Calls : Listed(d, audience[g])
        BY <3>1
      <4>2. SentTo(d) = obj[g] /\ SentTo(d)' = obj'[g]
        BY <1>0, <1>2, <4>1, Sent, SentNext
      <4> QED BY <2>2, <4>1, <4>2
    <3>2. CASE \A g \in Calls : ~Listed(d, audience[g])
      BY <1>2, <3>2 DEF SentTo
    <3> QED BY <3>1, <3>2
  <2>4. go' = go
    BY <2>3
  <2> QED BY <2>1, <2>4 DEF Abstract!vars
<1>3. ASSUME NEW c \in Calls, GetReleased(c)
      PROVE  [Abstract!Next]_(Abstract!vars)
  <2>1. /\ pc[c] = "answered"
        /\ UNCHANGED <<pending, audience, obj>>
        /\ result' = result \/ (reply[c] # Absent /\ result' = [result EXCEPT ![c] = reply[c]])
    BY <1>3 DEF GetReleased, Decoded, genVars
  <2>2. CASE result' = result
    BY <1>2, <2>1, <2>2
  <2>3. CASE reply[c] # Absent /\ result' = [result EXCEPT ![c] = reply[c]]
    <3>1. Abstract!Free(c) /\ (\A g \in Calls : ~Listed(c, audience[g])) /\ key[c] \in Keys
      BY <1>1, <2>1
    <3>2. reply[c] \in CargoFor(key[c])
      BY <2>3, <3>1 DEF Data, Keyed, CargoFor
    <3>3. \A d \in Calls : d # c => SentTo(d)' = SentTo(d)
      BY <2>1, <2>3 DEF SentTo, Data
    <3>4. SentTo(c)' = reply[c]
      BY <2>1, <2>3, <3>1 DEF SentTo, Data
    <3>5. go' = [go EXCEPT ![c] = reply[c]]
      BY <3>3, <3>4
    <3>6. ab' = ab
      BY <2>1
    <3>7. Abstract!AnswerDirectly(c, key[c], reply[c])
      BY <3>1, <3>2, <3>5, <3>6 DEF Abstract!AnswerDirectly
    <3> QED BY <3>1, <3>2, <3>7 DEF Abstract!Next
  <2> QED BY <2>1, <2>2, <2>3
<1>4. ASSUME NEW c \in Calls, PutPendings(c)
      PROVE  [Abstract!Next]_(Abstract!vars)
  <2>1. /\ pc[c] = "missed"
        /\ UNCHANGED <<key, result, obj, audience>>
        /\ pending' = [pending EXCEPT ![key[c]] = Append(@, c)]
    BY <1>4 DEF PutPendings
  <2>2. Abstract!Free(c) /\ key[c] \in Keys
    BY <1>1, <2>1
  <2>3. \A d \in Calls : SentTo(d)' = SentTo(d)
    BY <2>1 DEF SentTo
  <2>4. pending[key[c]] \in Seq(Calls) /\ pending \in [Keys -> Seq(Calls)]
    BY <2>2 DEF Waiting, WaitTypes
  <2>5. \A d \in Calls : Listed(d, Append(pending[key[c]], c)) <=> Listed(d, pending[key[c]]) \/ d = c
    BY <2>4, AppendList
  <2>6. ab' = [ab EXCEPT ![key[c]] = @ \cup {c}]
    BY <2>1, <2>2, <2>4, <2>5
  <2>7. Abstract!Board(c, key[c])
    BY <2>2, <2>3, <2>6 DEF Abstract!Board
  <2> QED BY <2>2, <2>7 DEF Abstract!Next
<1>5. ASSUME NEW c \in Calls, RemovePendings(c)
      PROVE  [Abstract!Next]_(Abstract!vars)
  <2>1. /\ gpc[c] = "stored"
        /\ UNCHANGED <<key, result, obj>>
        /\ audience' = [audience EXCEPT ![c] = pending[key[c]]]
        /\ pending' = [pending EXCEPT ![key[c]] = <<>>]
    BY <1>5 DEF RemovePendings, callVars
  <2>2. PICK k0 \in Keys : k0 = key[c]
    BY DEF Waiting, WaitTypes
  <2>3. obj[c] \in CargoFor(k0)
    BY <2>1, <2>2 DEF Data, Keyed, CargoFor
  <2>4. /\ pending[k0] # <<>> /\ pending[k0] \in Seq(Calls)
    BY <2>1, <2>2 DEF Waiting, WaitTypes, OneGenerator, Generating
  <2>5. \E d \in Calls : Listed(d, pending[k0])
    BY <2>4, AppendList DEF Listed
  <2>6. /\ audience'[c] = pending[k0] /\ audience[c] = <<>>
        /\ \A g \in Calls : g # c => audience'[g] = audience[g]
    BY <2>1, <2>2 DEF Waiting, WaitTypes, Phases
  <2>7. ab' = [ab EXCEPT ![k0] = {}]
    BY <2>1, <2>2, EmptyList DEF Waiting, WaitTypes
  <2>8. ASSUME NEW d \in Calls
        PROVE  SentTo(d)' = IF d \in ab[k0] THEN obj[c] ELSE SentTo(d)
    <3>1. CASE Listed(d, pending[k0])
      <4>1. SentTo(d)' = obj'[c]
        BY <1>0, <2>6, <3>1, SentNext
      <4> QED BY <2>1, <3>1, <4>1
    <3>2. CASE ~Listed(d, pending[k0])
      <4>1. \A g \in Calls : Listed(d, audience'[g]) <=> Listed(d, audience[g])
        BY <2>6, <3>2, EmptyList
      <4>2. SentTo(d)' = SentTo(d)
        BY <1>0, <2>1, <4>1, Sent DEF SentTo
      <4> QED BY <3>2, <4>2
    <3> QED BY <3>1, <3>2
  <2>9. Abstract!Land(k0, obj[c])
    BY <2>3, <2>5, <2>7, <2>8 DEF Abstract!Land
  <2> QED BY <2>3, <2>9 DEF Abstract!Next
<1>6. ASSUME NEW c \in Calls, Respond(c)
      PROVE  [Abstract!Next]_(Abstract!vars)
  <2> DEFINE d0 == Head(audience[c])
  <2>1. /\ audience[c] \in Seq(Calls) /\ audience[c] # <<>> /\ NoRepeats(audience[c])
    BY <1>0, <1>6 DEF Respond, Waiting, WaitTypes, NoStraySend
  <2>2. /\ d0 \in Calls /\ Listed(d0, audience[c])
        /\ \A d \in Calls : Listed(d, Tail(audience[c])) <=> Listed(d, audience[c]) /\ d # d0
    BY <2>1, TailList
  <2>3. /\ result' = [result EXCEPT ![d0] = obj[c]]
        /\ audience' = [audience EXCEPT ![c] = Tail(audience[c])]
        /\ UNCHANGED <<pending, obj>>
    BY <1>6 DEF Respond
  <2>4. /\ audience'[c] = Tail(audience[c])
        /\ \A g \in Calls : g # c => audience'[g] = audience[g] /\ ~Listed(d0, audience[g])
    BY <1>0, <2>2, <2>3 DEF Waiting, WaitTypes, NoStraySend
  <2>5. ASSUME NEW d \in Calls
        PROVE  SentTo(d)' = SentTo(d)
    <3>1. CASE d = d0
      <4>1. SentTo(d) = obj[c]
        BY <1>0, <2>2, <3>1, Sent
      <4>2. \A g \in Calls : ~Listed(d, audience'[g])
        BY <2>2, <2>4, <3>1
      <4>3. SentTo(d)' = result'[d]
        BY <1>0, <4>2, SentNext
      <4> QED BY <2>2, <2>3, <3>1, <4>1, <4>3 DEF Data
    <3>2. CASE d # d0
      <4>1. \A g \in Calls : Listed(d, audience'[g]) <=> Listed(d, audience[g])
        BY <2>2, <2>4, <3>2
      <4>2. result'[d] = result[d]
        BY <2>2, <2>3, <3>2 DEF Data
      <4> QED BY <1>0, <2>3, <4>1, <4>2, Sent DEF SentTo
    <3> QED BY <3>1, <3>2
  <2>6. ab' = ab /\ go' = go
    BY <2>3, <2>5
  <2> QED BY <2>6 DEF Abstract!vars
<1>7. ASSUME NEW c \in Calls, Generate(c)
      PROVE  [Abstract!Next]_(Abstract!vars)
  <2>1. /\ UNCHANGED <<pending, audience, result>>
        /\ \A g \in Calls : g # c => obj'[g] = obj[g]
        /\ audience[c] = <<>>
    BY <1>7 DEF Generate, callVars, Waiting, WaitTypes, Phases, Data
  <2> QED BY <1>2, <2>1
<1>8. ASSUME NEW c \in Calls,
             \/ StartGet(c) \/ GetTooBusy(c) \/ GetWaited(c) \/ McGet(c)
             \/ SkipStore(c) \/ StartStore(c) \/ StoreTooBusy(c) \/ StoreWaited(c)
             \/ McSet(c) \/ StoreReleased(c) \/ Finish(c)
      PROVE  [Abstract!Next]_(Abstract!vars)
  <2>1. UNCHANGED <<pending, audience, result, obj>>
    BY <1>8 DEF StartGet, GetTooBusy, GetWaited, McGet, SkipStore, StartStore, StoreTooBusy,
                StoreWaited, McSet, StoreReleased, Finish, callVars, genVars
  <2> QED BY <1>2, <2>1
<1>9. CASE Environment \/ Terminated \/ UNCHANGED vars
  <2>1. UNCHANGED <<pending, audience, result, obj>>
    BY <1>9 DEF Environment, Evict, Change, ApplyLateSet, Terminated, vars, callVars, genVars
  <2> QED BY <1>2, <2>1
<1> QED
  BY <1>3, <1>4, <1>5, <1>6, <1>7, <1>8, <1>9 DEF Next, GetStep, GenerateStep

\* Callers of one key share one generation and all get what it made.
THEOREM ManagerIsSingleFlight == Spec => Flights
<1>1. Init => Abstract!Init
  <2> SUFFICES ASSUME Init PROVE Abstract!Init
    OBVIOUS
  <2>1. \A c \in Calls : SentTo(c) = Absent
    BY EmptyList DEF Init, SentTo
  <2>2. \A k \in Keys, c \in Calls : ~Listed(c, pending[k])
    BY EmptyList DEF Init
  <2> QED BY <2>1, <2>2 DEF Abstract!Init
<1> QED BY <1>1, FlightStep, WaitingInvariant, DataInvariant, KeyedInvariant, PTL
        DEF Spec, Flights, Abstract!Spec
=============================================================================
