----------------------------- MODULE GateProofs -----------------------------
(***************************************************************************)
(* Theorems about Gate for every number of callers and every pair of       *)
(* bounds.  AnyInv is inductive for callers that release in any order,     *)
(* Inv adds what holds when each of them waits before it releases, which   *)
(* is what this repository does.                                           *)
(***************************************************************************)
EXTENDS Gate, FiniteSetTheorems, TLAPS

\* The reservations that still have to be released.
Outstanding == {r \in Reservations : state[r] \in {"queued", "granted", "inflight"}}

Types ==
  /\ num \in Int
  /\ queue \in Seq(Reservations)
  /\ state \in [Reservations -> States]

\* A reservation is in the channel once, and stays there until it is granted.
QueueOrder ==
  /\ \A i, j \in 1 .. Len(queue) : queue[i] = queue[j] => i = j
  /\ \A i \in 1 .. Len(queue) : state[queue[i]] \in {"queued", "abandoned"}

\* The counter has counted every outstanding reservation, and what exceeds
\* maxInflight is in the channel.
Counting ==
  /\ IsFiniteSet(Outstanding)
  /\ num = Cardinality(Outstanding)
  /\ queue = <<>> => num <= MaxInflight
  /\ queue # <<>> => num = MaxInflight + Len(queue)
  /\ Len(queue) <= MaxWait

AnyInv == Types /\ QueueOrder /\ Counting

\* When nobody releases before Wait returns, the channel holds exactly the
\* reservations that are not granted, and the others own a slot each.
WaitFirst ==
  /\ \A r \in Reservations : state[r] # "abandoned"
  /\ \A r \in Reservations :
       state[r] = "queued" => \E i \in 1 .. Len(queue) : queue[i] = r
  /\ IsFiniteSet(Holders)
  /\ num = Cardinality(Holders) + Len(queue)

Inv == AnyInv /\ WaitFirst

-----------------------------------------------------------------------------
(* What one method call does to the set of outstanding reservations. *)

\* A reservation that is made becomes outstanding.
LEMMA Reserving ==
  ASSUME AnyInv, NEW r \in Reservations, GrantNow(r) \/ Enqueue(r)
  PROVE  IsFiniteSet(Outstanding') /\ Cardinality(Outstanding') = num + 1
<1>1. Outstanding' = Outstanding \cup {r} /\ r \notin Outstanding
  BY DEF AnyInv, Types, Outstanding, States, GrantNow, Enqueue
<1> QED BY <1>1, FS_AddElement DEF AnyInv, Counting

\* A release takes away its own reservation and no other: the one it takes
\* off the channel was counted when it was reserved.
LEMMA Releasing ==
  ASSUME AnyInv, NEW r \in Reservations, Release(r)
  PROVE  IsFiniteSet(Outstanding') /\ Cardinality(Outstanding') = num - 1
<1>1. Outstanding' = Outstanding \ {r} /\ r \in Outstanding
  <2>1. CASE queue = <<>>
    BY <2>1 DEF AnyInv, Types, Outstanding, States, Release, Granted, Dropped
  <2>2. CASE queue # <<>>
    <3>1. Head(queue) \in Reservations /\ state[Head(queue)] \in {"queued", "abandoned"}
      BY <2>2 DEF AnyInv, Types, QueueOrder
    <3>2. state' = [Dropped(r) EXCEPT ![Head(queue)] = IF @ = "queued" THEN "granted" ELSE "idle"]
      BY <2>2 DEF Release, Granted
    <3> QED BY <3>1, <3>2 DEF AnyInv, Types, Outstanding, States, Release, Dropped
  <2> QED BY <2>1, <2>2
<1> QED BY <1>1, FS_RemoveElement DEF AnyInv, Counting

\* The head of the channel leaves, the order of the others stays.
LEMMA QueueAfterRelease ==
  ASSUME AnyInv, NEW r \in Reservations, Release(r)
  PROVE  Types' /\ QueueOrder'
<1>1. CASE queue = <<>>
  BY <1>1 DEF AnyInv, Types, QueueOrder, States, Release, Granted, Dropped
<1>2. CASE queue # <<>>
  <2>1. Head(queue) = queue[1] /\ Head(queue) \in Reservations /\ Len(queue) \in Nat
    BY <1>2 DEF AnyInv, Types
  <2>2. /\ state' = [Dropped(r) EXCEPT ![Head(queue)] = IF @ = "queued" THEN "granted" ELSE "idle"]
        /\ queue' = Tail(queue)
    BY <1>2 DEF Release, Granted
  <2>3. /\ Len(queue') = Len(queue) - 1
        /\ \A i \in 1 .. Len(queue') : i + 1 \in 1 .. Len(queue) /\ queue'[i] = queue[i + 1]
    BY <1>2, <2>2 DEF AnyInv, Types
  <2>4. Types'
    <3>1. Dropped(r) \in [Reservations -> States]
      BY DEF AnyInv, Types, States, Dropped
    <3>2. state' \in [Reservations -> States]
      BY <2>1, <2>2, <3>1 DEF States
    <3>3. queue' \in Seq(Reservations)
      BY <1>2, <2>2 DEF AnyInv, Types
    <3>4. num' \in Int
      BY DEF AnyInv, Types, Release
    <3> QED BY <3>2, <3>3, <3>4 DEF Types
  <2>5. \A i, j \in 1 .. Len(queue') : queue'[i] = queue'[j] => i = j
    BY <2>1, <2>3 DEF AnyInv, QueueOrder
  <2>6. ASSUME NEW i \in 1 .. Len(queue')
        PROVE  state'[queue'[i]] \in {"queued", "abandoned"}
    <3>1. queue'[i] # Head(queue) /\ queue'[i] \in Reservations
      BY <1>2, <2>1, <2>3 DEF AnyInv, Types, QueueOrder
    <3>2. state[queue'[i]] \in {"queued", "abandoned"}
      BY <2>3 DEF AnyInv, QueueOrder
    <3> QED BY <2>2, <3>1, <3>2 DEF AnyInv, Types, Release, Dropped
  <2> QED BY <2>4, <2>5, <2>6 DEF QueueOrder
<1> QED BY <1>1, <1>2

-----------------------------------------------------------------------------
(* Callers that release in any order. *)

LEMMA AnyInit == Init => AnyInv
<1> SUFFICES ASSUME Init PROVE AnyInv
  OBVIOUS
<1>1. Outstanding = {}
  BY DEF Init, Outstanding
<1> QED BY <1>1, FS_EmptySet, GateAssumption
        DEF Init, AnyInv, Types, QueueOrder, Counting, States

LEMMA AnyStep == AnyInv /\ [AnyOrderNext]_vars => AnyInv'
<1> SUFFICES ASSUME AnyInv, [AnyOrderNext]_vars PROVE AnyInv'
  OBVIOUS
<1> USE GateAssumption
<1>1. ASSUME NEW r \in Reservations, Refuse(r) \/ GiveUp(r) \/ Wait(r)
      PROVE  AnyInv'
  <2>1. /\ UNCHANGED <<num, queue>>
        /\ state' \in [Reservations -> States]
        /\ \A s \in Reservations : state[s] \in {"queued", "abandoned"} => state'[s] = state[s]
    BY <1>1 DEF AnyInv, Types, States, Refuse, GiveUp, Wait
  <2>2. Outstanding' = Outstanding
    BY <1>1 DEF AnyInv, Types, Outstanding, Refuse, GiveUp, Wait
  <2>3. QueueOrder'
    <3>1. \A i \in 1 .. Len(queue) : queue[i] \in Reservations
      BY DEF AnyInv, Types
    <3> QED BY <2>1, <3>1 DEF AnyInv, QueueOrder
  <2>4. Types' /\ Counting'
    BY <2>1, <2>2 DEF AnyInv, Types, Counting
  <2> QED BY <2>3, <2>4 DEF AnyInv
<1>2. ASSUME NEW r \in Reservations, GrantNow(r)
      PROVE  AnyInv'
  <2>1. Types' /\ QueueOrder'
    BY <1>2 DEF AnyInv, Types, QueueOrder, States, GrantNow
  <2>2. queue = <<>> /\ queue' = queue /\ num' = num + 1 /\ num' <= MaxInflight
    <3>1. Len(queue) \in Nat /\ num + 1 <= MaxInflight /\ num \in Int
      BY <1>2 DEF AnyInv, Types, GrantNow
    <3>2. queue # <<>> => num = MaxInflight + Len(queue)
      BY DEF AnyInv, Counting
    <3>3. queue = <<>>
      BY <3>1, <3>2
    <3> QED BY <1>2, <3>1, <3>3 DEF GrantNow
  <2>3. Counting'
    BY <1>2, <2>2, Reserving DEF AnyInv, Counting
  <2> QED BY <2>1, <2>3 DEF AnyInv
<1>3. ASSUME NEW r \in Reservations, Enqueue(r)
      PROVE  AnyInv'
  <2>1. /\ queue' \in Seq(Reservations)
        /\ Len(queue') = Len(queue) + 1
        /\ queue'[Len(queue) + 1] = r
        /\ \A i \in 1 .. Len(queue) : queue'[i] = queue[i] /\ queue[i] # r
    BY <1>3 DEF AnyInv, Types, QueueOrder, Enqueue
  <2>2. Types'
    BY <1>3, <2>1 DEF AnyInv, Types, States, Enqueue
  <2>3. QueueOrder'
    <3>1. \A i \in 1 .. Len(queue') : i = Len(queue) + 1 \/ i \in 1 .. Len(queue)
      BY <2>1 DEF AnyInv, Types
    <3>2. \A s \in Reservations : s # r => state'[s] = state[s]
      BY <1>3 DEF AnyInv, Types, Enqueue
    <3>3. state'[r] = "queued"
      BY <1>3 DEF AnyInv, Types, Enqueue
    <3> QED BY <2>1, <3>1, <3>2, <3>3 DEF AnyInv, Types, QueueOrder
  <2>4. Counting'
    <3>1. num' = MaxInflight + Len(queue') /\ Len(queue') <= MaxWait /\ queue' # <<>>
      BY <1>3, <2>1 DEF AnyInv, Types, Counting, Enqueue
    <3> QED BY <1>3, <3>1, Reserving DEF Counting, Enqueue
  <2> QED BY <2>2, <2>3, <2>4 DEF AnyInv
<1>4. ASSUME NEW r \in Reservations, Release(r)
      PROVE  AnyInv'
  <2>1. Counting'
    <3>1. CASE queue = <<>>
      <4>1. queue' = queue /\ num' = num - 1 /\ num \in Int
        BY <1>4, <3>1 DEF AnyInv, Types, Release
      <4>2. num' <= MaxInflight
        BY <3>1, <4>1 DEF AnyInv, Counting
      <4> QED BY <1>4, <3>1, <4>1, <4>2, Releasing DEF AnyInv, Counting
    <3>2. CASE queue # <<>>
      <4>1. Len(queue') = Len(queue) - 1 /\ Len(queue) \in Nat
        BY <1>4, <3>2 DEF AnyInv, Types, Release
      <4>2. queue' = <<>> => Len(queue') = 0
        OBVIOUS
      <4>3. num' = num - 1 /\ num = MaxInflight + Len(queue) /\ Len(queue) <= MaxWait
        BY <1>4, <3>2 DEF AnyInv, Counting, Release
      <4>4. num' = MaxInflight + Len(queue') /\ Len(queue') <= MaxWait
        BY <4>1, <4>3
      <4>5. num' <= MaxInflight \/ queue' # <<>>
        BY <4>2, <4>4
      <4> QED BY <1>4, <4>3, <4>4, <4>5, Releasing DEF Counting
    <3> QED BY <3>1, <3>2
  <2> QED BY <1>4, <2>1, QueueAfterRelease DEF AnyInv
<1>5. CASE UNCHANGED vars
  BY <1>5 DEF vars, AnyInv, Types, QueueOrder, Counting, Outstanding
<1> QED
  BY <1>1, <1>2, <1>3, <1>4, <1>5
  DEF AnyOrderNext, Next, Reserve, ReleaseAfterWait, ReleaseUnwaited

LEMMA AnyInvariant == AnyOrderSpec => []AnyInv
BY AnyInit, AnyStep, PTL DEF AnyOrderSpec

\* Reserve never blocks inside its critical section and the counter never
\* goes negative, whenever callers release (gate.go:33-51).
THEOREM ReserveNeverBlocks == AnyOrderSpec => []SendNeverBlocks
<1>1. AnyInv => SendNeverBlocks
  <2> SUFFICES ASSUME AnyInv PROVE SendNeverBlocks
    OBVIOUS
  <2>1. num >= 0
    BY FS_CardinalityType DEF AnyInv, Counting
  <2> QED BY <2>1, GateAssumption DEF AnyInv, Types, Counting, SendNeverBlocks, HasRoom
<1> QED BY <1>1, AnyInvariant, PTL

-----------------------------------------------------------------------------
(* Callers that wait before they release. *)

LEMMA WaitFirstInit == Init => Inv
<1> SUFFICES ASSUME Init PROVE WaitFirst
  BY AnyInit DEF Inv
<1>1. Holders = {}
  BY DEF Init, Holders
<1> QED BY <1>1, FS_EmptySet DEF Init, WaitFirst

\* The releasing caller's slot is free again, or is the next waiter's.
LEMMA HandingOver ==
  ASSUME Inv, NEW r \in Reservations, ReleaseAfterWait(r)
  PROVE  /\ r \in Holders
         /\ queue = <<>> => Holders' = Holders \ {r}
         /\ queue # <<>> => /\ Head(queue) \notin Holders
                            /\ Holders' = (Holders \ {r}) \cup {Head(queue)}
<1>1. r \in Holders /\ Dropped(r) = [state EXCEPT ![r] = "idle"]
  BY DEF ReleaseAfterWait, Holders, Dropped
<1>2. CASE queue = <<>>
  BY <1>1, <1>2 DEF Inv, AnyInv, Types, Holders, States, ReleaseAfterWait, Release, Granted
<1>3. CASE queue # <<>>
  <2>1. Head(queue) \in Reservations /\ state[Head(queue)] = "queued"
    BY <1>3 DEF Inv, AnyInv, Types, QueueOrder, WaitFirst
  <2>2. Head(queue) # r
    BY <2>1 DEF ReleaseAfterWait
  <2>3. state' = [Dropped(r) EXCEPT ![Head(queue)] = IF @ = "queued" THEN "granted" ELSE "idle"]
    BY <1>3 DEF ReleaseAfterWait, Release, Granted
  <2>4. state' = [state EXCEPT ![r] = "idle", ![Head(queue)] = "granted"]
    BY <1>1, <2>1, <2>2, <2>3 DEF Inv, AnyInv, Types
  <2> QED BY <1>1, <1>3, <2>1, <2>2, <2>4 DEF Inv, AnyInv, Types, Holders, States
<1> QED BY <1>1, <1>2, <1>3

LEMMA WaitFirstStep == Inv /\ [Next]_vars => Inv'
<1> SUFFICES ASSUME Inv, [Next]_vars PROVE Inv'
  OBVIOUS
<1>1. AnyInv'
  BY AnyStep DEF Inv, AnyOrderNext
<1>2. ASSUME NEW r \in Reservations, Refuse(r) \/ GiveUp(r) \/ Wait(r)
      PROVE  WaitFirst'
  <2>1. Holders' = Holders
    BY <1>2 DEF Inv, AnyInv, Types, Holders, Refuse, GiveUp, Wait
  <2>2. UNCHANGED <<num, queue>>
    BY <1>2 DEF Refuse, GiveUp, Wait
  <2>3. \A s \in Reservations : state'[s] # "abandoned" /\ (state'[s] = "queued" => state[s] = "queued")
    BY <1>2 DEF Inv, AnyInv, Types, WaitFirst, Refuse, GiveUp, Wait
  <2> QED BY <2>1, <2>2, <2>3 DEF Inv, WaitFirst
<1>3. ASSUME NEW r \in Reservations, GrantNow(r)
      PROVE  WaitFirst'
  <2>1. Holders' = Holders \cup {r} /\ r \notin Holders
    BY <1>3 DEF Inv, AnyInv, Types, Holders, States, GrantNow
  <2>2. queue' = queue /\ num' = num + 1 /\ Len(queue) \in Nat
    BY <1>3 DEF Inv, AnyInv, Types, GrantNow
  <2>3. /\ IsFiniteSet(Holders) /\ Cardinality(Holders) \in Nat
        /\ num = Cardinality(Holders) + Len(queue)
    BY FS_CardinalityType DEF Inv, WaitFirst
  <2>4. IsFiniteSet(Holders') /\ num' = Cardinality(Holders') + Len(queue')
    <3>1. IsFiniteSet(Holders \cup {r}) /\ Cardinality(Holders \cup {r}) = Cardinality(Holders) + 1
      BY <2>1, <2>3, FS_AddElement
    <3>2. IsFiniteSet(Holders') /\ Cardinality(Holders') = Cardinality(Holders) + 1
      BY <2>1, <3>1
    <3> QED BY <2>2, <2>3, <3>2
  <2>5. \A s \in Reservations : state'[s] # "abandoned" /\ (state'[s] = "queued" => state[s] = "queued")
    BY <1>3 DEF Inv, AnyInv, Types, WaitFirst, GrantNow
  <2> QED BY <2>2, <2>4, <2>5 DEF Inv, WaitFirst
<1>4. ASSUME NEW r \in Reservations, Enqueue(r)
      PROVE  WaitFirst'
  <2>1. Holders' = Holders
    BY <1>4 DEF Inv, AnyInv, Types, Holders, Enqueue
  <2>2. /\ num' = num + 1 /\ Len(queue) \in Nat
        /\ Len(queue') = Len(queue) + 1
        /\ queue'[Len(queue) + 1] = r
        /\ \A i \in 1 .. Len(queue) : queue'[i] = queue[i]
    BY <1>4 DEF Inv, AnyInv, Types, Enqueue
  <2>3. IsFiniteSet(Holders') /\ num' = Cardinality(Holders') + Len(queue')
    BY <2>1, <2>2, FS_CardinalityType DEF Inv, WaitFirst
  <2>4. ASSUME NEW s \in Reservations
        PROVE  /\ state'[s] # "abandoned"
               /\ state'[s] = "queued" => \E i \in 1 .. Len(queue') : queue'[i] = s
    <3>1. CASE s = r
      <4>1. Len(queue) + 1 \in 1 .. Len(queue')
        BY <2>2
      <4> QED BY <1>4, <2>2, <3>1, <4>1 DEF Inv, AnyInv, Types, Enqueue
    <3>2. CASE s # r
      <4>1. state'[s] = state[s]
        BY <1>4, <3>2 DEF Inv, AnyInv, Types, Enqueue
      <4>2. 1 .. Len(queue) \subseteq 1 .. Len(queue')
        BY <2>2
      <4> QED BY <2>2, <4>1, <4>2 DEF Inv, WaitFirst
    <3> QED BY <3>1, <3>2
  <2> QED BY <2>3, <2>4 DEF WaitFirst
<1>5. ASSUME NEW r \in Reservations, ReleaseAfterWait(r)
      PROVE  WaitFirst'
  <2>1. r \in Holders /\ IsFiniteSet(Holders \ {r})
        /\ Cardinality(Holders \ {r}) = Cardinality(Holders) - 1
    BY <1>5, HandingOver, FS_RemoveElement DEF Inv, WaitFirst
  <2>2. CASE queue = <<>>
    <3>1. queue' = queue /\ num' = num - 1 /\ Holders' = Holders \ {r} /\ Len(queue) \in Nat
      BY <1>5, <2>2, HandingOver DEF Inv, AnyInv, Types, ReleaseAfterWait, Release
    <3>2. IsFiniteSet(Holders') /\ num' = Cardinality(Holders') + Len(queue')
      BY <2>1, <3>1, FS_CardinalityType DEF Inv, WaitFirst
    <3>3. \A s \in Reservations : state'[s] # "abandoned" /\ (state'[s] = "queued" => state[s] = "queued")
      BY <1>5, <2>2 DEF Inv, AnyInv, Types, WaitFirst, ReleaseAfterWait, Release, Granted, Dropped
    <3> QED BY <3>1, <3>2, <3>3 DEF Inv, WaitFirst
  <2>3. CASE queue # <<>>
    <3>1. /\ num' = num - 1
          /\ Len(queue) \in Nat
          /\ Len(queue') = Len(queue) - 1
          /\ Head(queue) = queue[1]
          /\ \A i \in 2 .. Len(queue) : i - 1 \in 1 .. Len(queue') /\ queue'[i - 1] = queue[i]
      BY <1>5, <2>3 DEF Inv, AnyInv, Types, ReleaseAfterWait, Release
    <3>2. Head(queue) \notin Holders /\ Holders' = (Holders \ {r}) \cup {Head(queue)}
      BY <1>5, <2>3, HandingOver
    <3>3. IsFiniteSet(Holders') /\ Cardinality(Holders') = Cardinality(Holders)
      <4>1. IsFiniteSet(Holders) /\ Cardinality(Holders) \in Nat
        BY FS_CardinalityType DEF Inv, WaitFirst
      <4>2. /\ IsFiniteSet((Holders \ {r}) \cup {Head(queue)})
            /\ Cardinality((Holders \ {r}) \cup {Head(queue)}) = Cardinality(Holders \ {r}) + 1
        BY <2>1, <3>2, FS_AddElement
      <4>3. Cardinality((Holders \ {r}) \cup {Head(queue)}) = Cardinality(Holders)
        BY <2>1, <4>1, <4>2
      <4> QED BY <3>2, <4>2, <4>3
    <3>4. num' = Cardinality(Holders') + Len(queue')
      BY <3>1, <3>3, FS_CardinalityType DEF Inv, WaitFirst
    <3>5. /\ Head(queue) \in Reservations
          /\ state[r] = "inflight" /\ state[Head(queue)] = "queued"
          /\ state' = [Dropped(r) EXCEPT ![Head(queue)] = IF @ = "queued" THEN "granted" ELSE "idle"]
      BY <1>5, <2>3 DEF Inv, AnyInv, Types, QueueOrder, WaitFirst, ReleaseAfterWait, Release, Granted
    <3>6. ASSUME NEW s \in Reservations
          PROVE  /\ state'[s] # "abandoned"
                 /\ state'[s] = "queued" => state[s] = "queued" /\ s # Head(queue)
      BY <3>5 DEF Inv, AnyInv, Types, WaitFirst, Dropped
    <3>7. ASSUME NEW s \in Reservations, state'[s] = "queued"
          PROVE  \E i \in 1 .. Len(queue') : queue'[i] = s
      <4>1. PICK i \in 1 .. Len(queue) : queue[i] = s
        BY <3>6, <3>7 DEF Inv, WaitFirst
      <4>2. i \in 2 .. Len(queue)
        BY <3>1, <3>6, <3>7, <4>1
      <4> QED BY <3>1, <4>1, <4>2
    <3> QED BY <3>3, <3>4, <3>6, <3>7 DEF WaitFirst
  <2> QED BY <2>2, <2>3
<1>6. ASSUME UNCHANGED vars
      PROVE  WaitFirst'
  <2>1. Holders' = Holders
    BY <1>6 DEF vars, Holders
  <2> QED BY <1>6, <2>1 DEF vars, Inv, WaitFirst
<1>7. WaitFirst'
  BY <1>2, <1>3, <1>4, <1>5, <1>6 DEF Next, Reserve
<1> QED BY <1>1, <1>7 DEF Inv

LEMMA Invariant == Spec => []Inv
BY WaitFirstInit, WaitFirstStep, PTL DEF Spec

\* The types, with the counter between its bounds.
THEOREM Typing == Spec => []TypeOK
<1>1. Inv => TypeOK
  <2> SUFFICES ASSUME Inv PROVE num \in 0 .. MaxInflight + MaxWait
    BY DEF Inv, AnyInv, Types, TypeOK
  <2>1. Cardinality(Holders) \in Nat /\ Len(queue) \in Nat
    BY FS_CardinalityType DEF Inv, AnyInv, Types, WaitFirst
  <2>2. /\ num = Cardinality(Holders) + Len(queue)
        /\ Len(queue) <= MaxWait
        /\ queue = <<>> => num <= MaxInflight
        /\ queue # <<>> => num = MaxInflight + Len(queue)
    BY DEF Inv, AnyInv, Counting, WaitFirst
  <2> QED BY <2>1, <2>2, GateAssumption
<1> QED BY <1>1, Invariant, PTL

\* What the counter and the channel say of the owners.
LEMMA Slots ==
  Inv => InflightBound /\ WorkConserving /\ NumIsExact
<1> SUFFICES ASSUME Inv PROVE InflightBound /\ WorkConserving /\ NumIsExact
  OBVIOUS
<1>1. Cardinality(Holders) \in Nat /\ Len(queue) \in Nat
  BY FS_CardinalityType DEF Inv, AnyInv, Types, WaitFirst
<1>2. num = Cardinality(Holders) + Len(queue)
  BY DEF Inv, WaitFirst
<1>3. CASE queue = <<>>
  <2>1. num <= MaxInflight
    BY <1>3 DEF Inv, AnyInv, Counting
  <2>2. Cardinality(Holders) <= MaxInflight
    BY <1>1, <1>2, <2>1, GateAssumption
  <2> QED BY <1>2, <1>3, <2>2 DEF InflightBound, WorkConserving, NumIsExact
<1>4. CASE queue # <<>>
  <2>1. num = MaxInflight + Len(queue)
    BY <1>4 DEF Inv, AnyInv, Counting
  <2>2. Cardinality(Holders) = MaxInflight
    BY <1>1, <1>2, <2>1, GateAssumption
  <2> QED BY <1>1, <1>2, <2>2 DEF InflightBound, WorkConserving, NumIsExact
<1> QED BY <1>3, <1>4

\* Never more than maxInflight owners, and a counter that is exact: for callers
\* that wait before they release.
THEOREM InflightIsBounded == Spec => []InflightBound
BY Slots, Invariant, PTL

\* No caller waits beside a free slot, however reservations and releases of
\* callers that wait before they release interleave: no wake-up is lost.
THEOREM NoIdleSlot == Spec => []WorkConserving
BY Slots, Invariant, PTL

-----------------------------------------------------------------------------
(* The gate implements the first-come first-served semaphore. *)

\* Where the semaphore says who is inside, in line and outside.
LEMMA Positions ==
  ASSUME Inv
  PROVE  /\ Cardinality(Holders) \in Nat /\ Len(queue) \in Nat /\ Len(queue) <= MaxWait
         /\ num = Cardinality(Holders) + Len(queue)
         /\ queue = <<>> => num <= MaxInflight
         /\ queue # <<>> => Cardinality(Holders) = MaxInflight
         /\ \A r \in Reservations : state[r] = "idle" => Abstract!Outside(r)
<1>1. Cardinality(Holders) \in Nat /\ Len(queue) \in Nat
  BY FS_CardinalityType DEF Inv, AnyInv, Types, WaitFirst
<1>2. /\ num = Cardinality(Holders) + Len(queue)
      /\ Len(queue) <= MaxWait
      /\ queue = <<>> => num <= MaxInflight
      /\ queue # <<>> => num = MaxInflight + Len(queue)
  BY DEF Inv, AnyInv, Counting, WaitFirst
<1>3. queue # <<>> => Cardinality(Holders) = MaxInflight
  BY <1>1, <1>2, GateAssumption
<1>4. ASSUME NEW r \in Reservations, state[r] = "idle"
      PROVE  Abstract!Outside(r)
  <2>1. DOMAIN queue = 1 .. Len(queue)
    BY DEF Inv, AnyInv, Types
  <2>2. r \notin {queue[i] : i \in DOMAIN queue}
    BY <1>4, <2>1 DEF Inv, AnyInv, QueueOrder
  <2> QED BY <1>4, <2>2 DEF Abstract!Outside, Abstract!InLine, Holders
<1> QED BY <1>1, <1>2, <1>3, <1>4

\* The semaphore's own copy of FiniteSets counts as this one does.
LEMMA SameCount == Abstract!Inside = Cardinality(Holders)
BY DEF Abstract!Inside, Abstract!Cardinality, Cardinality

LEMMA FifoStep == Inv /\ [Next]_vars => [Abstract!Next]_(Abstract!vars)
<1> SUFFICES ASSUME Inv, [Next]_vars PROVE [Abstract!Next]_(Abstract!vars)
  OBVIOUS
<1> DEFINE Away == {r \in Reservations : state[r] = "refused"}
<1>1. ASSUME NEW r \in Reservations, Refuse(r)
      PROVE  Abstract!TurnAway(r)
  <2>1. Abstract!Outside(r)
    BY <1>1, Positions DEF Refuse
  <2>2. num >= MaxInflight + MaxWait /\ num \in Int
    BY <1>1, GateAssumption DEF Refuse, HasRoom, Inv, AnyInv, Types
  <2>3. Cardinality(Holders) = MaxInflight /\ Len(queue) = MaxWait
    <3>1. CASE queue = <<>>
      <4>1. Len(queue) = 0
        BY <3>1
      <4>2. num <= MaxInflight /\ num = Cardinality(Holders)
        BY <3>1, <4>1, Positions
      <4> QED BY <2>2, <4>1, <4>2, Positions, GateAssumption
    <3>2. CASE queue # <<>>
      <4>1. Cardinality(Holders) = MaxInflight
        BY <3>2, Positions
      <4> QED BY <2>2, <4>1, Positions, GateAssumption
    <3> QED BY <3>1, <3>2
  <2>4. Away' = Away \cup {r} /\ Holders' = Holders /\ queue' = queue
    BY <1>1 DEF Inv, AnyInv, Types, States, Refuse, Holders
  <2> QED BY <2>1, <2>3, <2>4, SameCount DEF Abstract!TurnAway
<1>2. ASSUME NEW r \in Reservations, GiveUp(r)
      PROVE  Abstract!Depart(r)
  <2>1. r \in Away /\ Away' = Away \ {r} /\ Holders' = Holders /\ queue' = queue
    BY <1>2 DEF Inv, AnyInv, Types, States, GiveUp, Holders
  <2> QED BY <2>1 DEF Abstract!Depart
<1>3. ASSUME NEW r \in Reservations, GrantNow(r)
      PROVE  Abstract!Enter(r)
  <2>1. Abstract!Outside(r)
    BY <1>3, Positions DEF GrantNow
  <2>2. Cardinality(Holders) < MaxInflight
    <3>1. num + 1 <= MaxInflight
      BY <1>3 DEF GrantNow
    <3> QED BY <3>1, Positions, GateAssumption
  <2>3. Away' = Away /\ Holders' = Holders \cup {r} /\ queue' = queue
    BY <1>3 DEF Inv, AnyInv, Types, States, GrantNow, Holders
  <2> QED BY <2>1, <2>2, <2>3, SameCount DEF Abstract!Enter
<1>4. ASSUME NEW r \in Reservations, Enqueue(r)
      PROVE  Abstract!LineUp(r)
  <2>1. Abstract!Outside(r) /\ Len(queue) < MaxWait
    BY <1>4, Positions DEF Enqueue
  <2>2. Cardinality(Holders) = MaxInflight
    <3>1. num + 1 > MaxInflight
      BY <1>4 DEF Enqueue
    <3>2. queue = <<>> => num = Cardinality(Holders)
      <4>1. queue = <<>> => Len(queue) = 0
        OBVIOUS
      <4> QED BY <4>1, Positions
    <3> QED BY <3>1, <3>2, Positions, GateAssumption
  <2>3. Away' = Away /\ Holders' = Holders /\ queue' = Append(queue, r)
    BY <1>4 DEF Inv, AnyInv, Types, States, Enqueue, Holders
  <2> QED BY <2>1, <2>2, <2>3, SameCount DEF Abstract!LineUp
<1>5. ASSUME NEW r \in Reservations, Wait(r)
      PROVE  UNCHANGED Abstract!vars
  <2>1. Away' = Away /\ Holders' = Holders /\ queue' = queue
    BY <1>5 DEF Inv, AnyInv, Types, States, Wait, Holders
  <2> QED BY <2>1 DEF Abstract!vars
<1>6. ASSUME NEW r \in Reservations, ReleaseAfterWait(r)
      PROVE  Abstract!Leave(r)
  <2>1. queue' = IF queue = <<>> THEN queue ELSE Tail(queue)
    BY <1>6 DEF ReleaseAfterWait, Release
  <2>2. Away' = Away
    <3>1. CASE queue = <<>>
      BY <1>6, <3>1
      DEF Inv, AnyInv, Types, States, ReleaseAfterWait, Release, Granted, Dropped
    <3>2. CASE queue # <<>>
      <4>1. /\ Head(queue) \in Reservations
            /\ state[r] = "inflight" /\ state[Head(queue)] = "queued"
            /\ state' = [Dropped(r) EXCEPT ![Head(queue)] = IF @ = "queued" THEN "granted" ELSE "idle"]
        BY <1>6, <3>2
        DEF Inv, AnyInv, Types, QueueOrder, WaitFirst, ReleaseAfterWait, Release, Granted
      <4> QED BY <4>1 DEF Inv, AnyInv, Types, Dropped
    <3> QED BY <3>1, <3>2
  <2> QED BY <1>6, <2>1, <2>2, HandingOver DEF Abstract!Leave
<1>7. ASSUME UNCHANGED vars
      PROVE  UNCHANGED Abstract!vars
  BY <1>7 DEF vars, Abstract!vars, Holders
<1> QED BY <1>1, <1>2, <1>3, <1>4, <1>5, <1>6, <1>7 DEF Next, Reserve, Abstract!Next

\* Every behaviour of the gate is one of the first-come first-served
\* semaphore: permits are handed out in the order of the reservations, and
\* a caller is refused only when slots and line are both full.
THEOREM GateIsFifo == Spec => Fifo
<1>1. Init => Abstract!Init
  BY DEF Init, Abstract!Init, Holders
<1> QED BY <1>1, FifoStep, Invariant, PTL DEF Spec, Fifo, Abstract!Spec
=============================================================================
