-------------------------------- MODULE Gate --------------------------------
(***************************************************************************)
(* gate/gate.go: the Gate that limits how many goroutines talk to          *)
(* memcached together.  A Gate is a counter num and a buffered channel     *)
(* queue of reservations, both changed only under the mutex mu, so every   *)
(* method body is one action here.                                         *)
(*                                                                         *)
(* A *Reservation is the pair of its channel granted and its caller's      *)
(* progress, kept in state[r]:                                             *)
(*   "idle"       no reservation held (before Reserve, after Release)      *)
(*   "refused"    Reserve returned (nil, false)                            *)
(*   "queued"     sent to the queue, granted is open                       *)
(*   "granted"    granted is nil or closed, Wait would return              *)
(*   "inflight"   Wait has returned                                        *)
(*   "abandoned"  released while still in the queue                        *)
(***************************************************************************)
EXTENDS Integers, Sequences, FiniteSets

CONSTANTS Reservations,   \* identities of the reservations callers may hold
          MaxInflight,    \* g.maxInflight
          MaxWait         \* g.maxWait, also the capacity of g.queue

\* make(chan, maxWait) panics on a negative capacity; nothing else is asked.
ASSUME GateAssumption == MaxInflight \in Nat /\ MaxWait \in Nat

VARIABLES num,     \* g.num
          queue,   \* g.queue
          state    \* see above

vars == <<num, queue, state>>

States == {"idle", "refused", "queued", "granted", "inflight", "abandoned"}

\* The types, and that the counter keeps between its bounds.
TypeOK ==
  /\ num \in 0 .. MaxInflight + MaxWait
  /\ queue \in Seq(Reservations)
  /\ state \in [Reservations -> States]

Init ==
  /\ num = 0
  /\ queue = <<>>
  /\ state = [r \in Reservations |-> "idle"]

-----------------------------------------------------------------------------
(* Reserve, one action for each way it returns. *)

\* Mutant: one reservation too many.
HasRoomOneMore == num <= MaxInflight + MaxWait

\* if g.num >= g.maxInflight+g.maxWait { return nil, false }
HasRoom == num < MaxInflight + MaxWait

Refuse(r) ==
  /\ state[r] = "idle"
  /\ ~HasRoom
  /\ state' = [state EXCEPT ![r] = "refused"]
  /\ UNCHANGED <<num, queue>>

\* Mutant: the counter is tested before it is incremented.
GrantNowBeforeCounting(r) ==
  /\ state[r] = "idle"
  /\ HasRoom
  /\ num <= MaxInflight
  /\ num' = num + 1
  /\ state' = [state EXCEPT ![r] = "granted"]
  /\ UNCHANGED queue

\* Grant immediately: the reservation is made without a channel.
GrantNow(r) ==
  /\ state[r] = "idle"
  /\ HasRoom
  /\ num + 1 <= MaxInflight
  /\ num' = num + 1
  /\ state' = [state EXCEPT ![r] = "granted"]
  /\ UNCHANGED queue

\* Mutant: the newest waiter goes first.
EnqueueInFront(r) ==
  /\ state[r] = "idle"
  /\ HasRoom
  /\ num + 1 > MaxInflight
  /\ Len(queue) < MaxWait
  /\ num' = num + 1
  /\ queue' = <<r>> \o queue
  /\ state' = [state EXCEPT ![r] = "queued"]

\* Grant later.  "g.queue <- r" on a full channel would block with g.mu held
\* and wedge the gate for good: the step needs room, SendNeverBlocks says
\* that there always is.
Enqueue(r) ==
  /\ state[r] = "idle"
  /\ HasRoom
  /\ num + 1 > MaxInflight
  /\ Len(queue) < MaxWait
  /\ num' = num + 1
  /\ queue' = Append(queue, r)
  /\ state' = [state EXCEPT ![r] = "queued"]

Reserve(r) == Refuse(r) \/ GrantNow(r) \/ Enqueue(r)

\* Mutant: the deferred Release runs although ok was false.
GiveUpReleasing(r) ==
  /\ state[r] = "refused"
  /\ num' = num - 1
  /\ state' = [state EXCEPT ![r] = "idle"]
  /\ UNCHANGED queue

\* A caller that was refused goes on without a reservation.
GiveUp(r) ==
  /\ state[r] = "refused"
  /\ state' = [state EXCEPT ![r] = "idle"]
  /\ UNCHANGED <<num, queue>>

\* Wait: <-r.granted returns at once when granted is nil or closed.
Wait(r) ==
  /\ state[r] = "granted"
  /\ state' = [state EXCEPT ![r] = "inflight"]
  /\ UNCHANGED <<num, queue>>

-----------------------------------------------------------------------------
(* Release *)

\* What becomes of the released reservation itself.
Dropped(r) ==
  [state EXCEPT ![r] = IF @ = "queued" THEN "abandoned" ELSE "idle"]

\* Mutant: the reservation is taken off the queue and never granted.
GrantLost(s) == s

\* case r := <-g.queue: r.grant().  Closing the channel of a reservation
\* that its owner has already released wakes nobody.
Granted(s) ==
  IF queue = <<>>
  THEN s
  ELSE [s EXCEPT ![Head(queue)] = IF @ = "queued" THEN "granted" ELSE "idle"]

\* release: num-- and a non-blocking receive that grants one reservation.
Release(r) ==
  /\ state[r] \in {"queued", "granted", "inflight"}
  /\ num' = num - 1
  /\ queue' = IF queue = <<>> THEN queue ELSE Tail(queue)
  /\ state' = Granted(Dropped(r))

\* What every caller in this repository does: rsv.Wait(), then the deferred
\* rsv.Release() (cache/cache.go:137-138 and 152-153).
ReleaseAfterWait(r) == state[r] = "inflight" /\ Release(r)

\* What the comment on Release (gate.go:80-81) also allows.
ReleaseUnwaited(r) == state[r] # "inflight" /\ Release(r)

-----------------------------------------------------------------------------

Next ==
  \E r \in Reservations :
    Reserve(r) \/ GiveUp(r) \/ Wait(r) \/ ReleaseAfterWait(r)

Spec == Init /\ [][Next]_vars

\* The gate under callers that may release at any time.
AnyOrderNext == Next \/ \E r \in Reservations : ReleaseUnwaited(r)

AnyOrderSpec == Init /\ [][AnyOrderNext]_vars

\* Every caller that got a reservation keeps running: it returns from Wait
\* once granted, and its memcached call ends within the client's Timeout
\* (cache.go:55), after which it releases.  Nobody is obliged to Reserve.
Fairness ==
  \A r \in Reservations : WF_vars(Wait(r)) /\ WF_vars(ReleaseAfterWait(r))

FairSpec == Spec /\ Fairness

-----------------------------------------------------------------------------
(* Properties *)

Holders == {r \in Reservations : state[r] \in {"granted", "inflight"}}
Queued == {queue[i] : i \in DOMAIN queue}

\* No more than maxInflight callers own the gate at any time: the bound the
\* package exists for ("limit concurrency", gate.go:1), however reservations and
\* releases of callers that wait before they release interleave (Spec); those of
\* AnyOrderSpec break it.
InflightBound == Cardinality(Holders) <= MaxInflight

\* Nobody waits while there is a free slot: a release that loses a wake-up,
\* or a reservation that queues when it need not, would leave it idle.
WorkConserving == queue # <<>> => Cardinality(Holders) = MaxInflight

\* The send in Reserve finds room in the channel whenever it is reached, so
\* Reserve never blocks with the mutex held (gate.go:50), and the counter
\* never goes negative: for callers that release in any order.
SendNeverBlocks ==
  /\ num >= 0
  /\ HasRoom /\ num + 1 > MaxInflight => Len(queue) < MaxWait

\* num counts what it is taken to count (a lemma of GateProofs).
NumIsExact == num = Cardinality(Holders) + Len(queue)

\* A caller in the queue is eventually granted its reservation and runs.
EveryWaiterRuns ==
  \A r \in Reservations : state[r] = "queued" ~> state[r] = "inflight"

\* The gate is a first-come first-served semaphore with a bounded line.
Abstract == INSTANCE FifoSemaphore
  WITH Customers <- Reservations,
       Permits <- MaxInflight,
       Places <- MaxWait,
       holders <- Holders,
       waiting <- queue,
       turnedAway <- {r \in Reservations : state[r] = "refused"}

Fifo == Abstract!Spec

=============================================================================
