---------------------------- MODULE SingleFlight ----------------------------
(***************************************************************************)
(* What CacheManager.Get promises its callers beyond the cache: callers    *)
(* that want the same key while it is being generated share one flight.    *)
(* They board it, it lands once, and everybody aboard gets what it brought *)
(* in that one step.  A caller may also be answered without boarding, from *)
(* the cache.                                                              *)
(*                                                                         *)
(* CacheManager implements this specification: see CacheManager!Flights.   *)
(***************************************************************************)
CONSTANTS Passengers,    \* the calls
          Destinations,  \* the keys
          Cargo(_),      \* what a flight to a key, or the cache, may bring
          Nothing        \* no answer yet

VARIABLES aboard,        \* aboard[k]: the calls on the flight to k
          got            \* got[c]: the answer of call c

vars == <<aboard, got>>

Init ==
  /\ aboard = [k \in Destinations |-> {}]
  /\ got = [c \in Passengers |-> Nothing]

\* On the ground and with no answer yet.
Free(c) ==
  /\ got[c] = Nothing
  /\ \A k \in Destinations : c \notin aboard[k]

Board(c, k) ==
  /\ Free(c)
  /\ aboard' = [aboard EXCEPT ![k] = @ \cup {c}]
  /\ UNCHANGED got

Land(k, o) ==
  /\ aboard[k] # {}
  /\ o \in Cargo(k)
  /\ got' = [c \in Passengers |-> IF c \in aboard[k] THEN o ELSE got[c]]
  /\ aboard' = [aboard EXCEPT ![k] = {}]

AnswerDirectly(c, k, o) ==
  /\ Free(c)
  /\ o \in Cargo(k)
  /\ got' = [got EXCEPT ![c] = o]
  /\ UNCHANGED aboard

Next ==
  \E k \in Destinations :
    \/ \E c \in Passengers : Board(c, k)
    \/ \E o \in Cargo(k) : Land(k, o) \/ \E c \in Passengers : AnswerDirectly(c, k, o)

Spec == Init /\ [][Next]_vars

=============================================================================
