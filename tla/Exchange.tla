------------------------------- MODULE Exchange -------------------------------
(***************************************************************************)
(* What a caller may rely on when it asks TestRail for something that has  *)
(* effects, with no attempts, timers or retries in sight: it is executed   *)
(* at most once; the caller is told once that it is committed, refused or  *)
(* that nobody knows; what is told to be refused never happens, and what   *)
(* is told to be unknown still may.  The cache is invalidated between the  *)
(* execution of a write and the moment its caller hears of it.             *)
(***************************************************************************)
CONSTANTS
  Requests,       (* requests, each made once                              *)
  Tries           (* what tells the executions of a request apart          *)

VARIABLES
  exchange,       (* what the caller of each request has been told         *)
  effects,        (* what TestRail has executed: <<request, attempt>>      *)
  invalidated     (* requests that invalidated the cache                   *)

vars == <<exchange, effects, invalidated>>

Unasked == [told |-> "unasked", writes |-> FALSE]

Executed(r) == \E n \in Tries : <<r, n>> \in effects

Init ==
  /\ exchange = [r \in Requests |-> Unasked]
  /\ effects = {}
  /\ invalidated = {}

Tell(r, told) == exchange' = [exchange EXCEPT ![r].told = told]

(* A request is made; a destroyed client refuses it at once.               *)
Ask(r, writes) ==
  /\ exchange[r] = Unasked
  /\ \E told \in {"waiting", "refused", "unknown"} :
       exchange' = [exchange EXCEPT ![r] = [told |-> told, writes |-> writes]]
  /\ UNCHANGED <<effects, invalidated>>

(* TestRail executes it, perhaps after its caller has given up.            *)
Execute(r, n) ==
  /\ exchange[r].told \in {"waiting", "unknown"}
  /\ ~ Executed(r)
  /\ effects' = effects \cup {<<r, n>>}
  /\ UNCHANGED <<exchange, invalidated>>

(* The client learns that a write was executed: what was cached is dropped,*)
(* also when there is no time left for the answer.                         *)
Invalidate(r) ==
  /\ exchange[r].told = "waiting" /\ exchange[r].writes
  /\ Executed(r)
  /\ invalidated' = invalidated \cup {r}
  /\ Tell(r, "waiting") \/ Tell(r, "unknown")
  /\ UNCHANGED effects

Commit(r) ==
  /\ exchange[r].told = "waiting"
  /\ Executed(r)
  /\ exchange[r].writes => r \in invalidated
  /\ Tell(r, "committed")
  /\ UNCHANGED <<effects, invalidated>>

Refuse(r) ==
  /\ exchange[r].told = "waiting"
  /\ ~ Executed(r)
  /\ Tell(r, "refused")
  /\ UNCHANGED <<effects, invalidated>>

GiveUp(r) ==
  /\ exchange[r].told = "waiting"
  /\ Tell(r, "unknown")
  /\ UNCHANGED <<effects, invalidated>>

Next ==
  \E r \in Requests :
    \/ \E writes \in BOOLEAN : Ask(r, writes)
    \/ \E n \in Tries : Execute(r, n)
    \/ Invalidate(r) \/ Commit(r) \/ Refuse(r) \/ GiveUp(r)

Spec == Init /\ [][Next]_vars
===============================================================================
