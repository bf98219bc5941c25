----------------------------- MODULE RateLimiter -----------------------------
(***************************************************************************)
(* The sliding window rate limiter of src/client-core.ts (checkRateLimit). *)
(* It records one slot per upstream attempt; only the first attempt of a   *)
(* request is subject to admission.  A slot is [of, at]: the attempt and   *)
(* its instant.  The array in the code is ordered by instant, which only   *)
(* the wording of the local 429 depends on, so here it is a set.           *)
(***************************************************************************)
EXTENDS Integers, FiniteSets

CONSTANTS
  Window,         (* rateLimiter.windowMs                                  *)
  MaxRequests     (* rateLimiter.maxRequests                               *)

ASSUME LimiterAssumption == Window \in Nat \ {0} /\ MaxRequests \in Nat \ {0}

VARIABLES
  requests        (* rateLimiter.requests                                  *)

LimiterInit == requests = {}

InWindow(slots, at) == {slot \in slots : slot.at > at - Window}

(* A mutated form: one request too many.                                   *)
RejectsLate(enforce, at) == enforce /\ Cardinality(InWindow(requests, at)) > MaxRequests

(* The window is full: a local 429 for an initial attempt.                 *)
Rejects(enforce, at) == enforce /\ Cardinality(InWindow(requests, at)) >= MaxRequests

(* Forget what left the window, then record the attempt unless it is       *)
(* rejected.                                                               *)
checkRateLimit(enforce, slot) ==
  requests' = InWindow(requests, slot.at)
              \cup IF Rejects(enforce, slot.at) THEN {} ELSE {slot}
===============================================================================
