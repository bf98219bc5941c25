------------------------------ MODULE FreshReads ------------------------------
(***************************************************************************)
(* What a caller may rely on when it reads through the request cache of    *)
(* one client, with no cache in sight: a read may return an old version,   *)
(* but never one older than the newest write of that key this client had   *)
(* seen succeed when the read began, and never one the server did not      *)
(* have.                                                                   *)
(***************************************************************************)
EXTENDS Integers

CONSTANTS Keys, Calls, Writers

VARIABLES
  server,   (* key -> version at the server                                *)
  acked,    (* key -> newest version this client has seen acknowledged     *)
  writing,  (* what each writer of this client is doing                    *)
  reads     (* what each caller has asked and been told                    *)

vars == <<server, acked, writing, reads>>

Init ==
  /\ server = [k \in Keys |-> 0]
  /\ acked = [k \in Keys |-> 0]
  /\ writing = [w \in Writers |-> [stage |-> "idle"]]
  /\ reads = [c \in Calls |-> [stage |-> "idle"]]

BeginRead(c, k) ==
  /\ reads[c].stage # "waiting"
  /\ reads' = [reads EXCEPT ![c] = [stage |-> "waiting", key |-> k, floor |-> acked[k]]]
  /\ UNCHANGED <<server, acked, writing>>

(* Reads end, several at once when they were coalesced.                    *)
EndReads(ended, outcome) ==
  /\ \A c \in ended :
       /\ reads[c].stage = "waiting"
       /\ \/ outcome[c].stage = "failed"
          \/ /\ outcome[c].stage = "answered"
             /\ outcome[c].key = reads[c].key
             /\ outcome[c].value \in reads[c].floor .. server[reads[c].key]
  /\ reads' = [c \in Calls |-> IF c \in ended THEN outcome[c] ELSE reads[c]]
  /\ UNCHANGED <<server, acked, writing>>

SendWrite(w, k) ==
  /\ writing[w].stage = "idle"
  /\ writing' = [writing EXCEPT ![w] = [stage |-> "sent", key |-> k]]
  /\ UNCHANGED <<server, acked, reads>>

ApplyWrite(w) ==
  /\ writing[w].stage = "sent"
  /\ server' = [server EXCEPT ![writing[w].key] = @ + 1]
  /\ writing' = [writing EXCEPT ![w] =
       [stage |-> "applied", key |-> writing[w].key, version |-> server'[writing[w].key]]]
  /\ UNCHANGED <<acked, reads>>

AcknowledgeWrite(w) ==
  /\ writing[w].stage = "applied"
  /\ acked' = [acked EXCEPT ![writing[w].key] =
       IF writing[w].version > @ THEN writing[w].version ELSE @]
  /\ writing' = [writing EXCEPT ![w] = [stage |-> "idle"]]
  /\ UNCHANGED <<server, reads>>

FailWrite(w) ==
  /\ writing[w].stage # "idle"
  /\ writing' = [writing EXCEPT ![w] = [stage |-> "idle"]]
  /\ UNCHANGED <<server, acked, reads>>

ForeignWrite(k) ==
  /\ server' = [server EXCEPT ![k] = @ + 1]
  /\ UNCHANGED <<acked, writing, reads>>

Next ==
  \/ \E c \in Calls, k \in Keys : BeginRead(c, k)
  \/ \E ended \in SUBSET Calls :
       EndReads(ended, reads')
  \/ \E w \in Writers :
       \/ \E k \in Keys : SendWrite(w, k)
       \/ ApplyWrite(w) \/ AcknowledgeWrite(w) \/ FailWrite(w)
  \/ \E k \in Keys : ForeignWrite(k)

Spec == Init /\ [][Next]_vars
===============================================================================
