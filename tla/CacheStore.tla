------------------------------ MODULE CacheStore ------------------------------
(***************************************************************************)
(* The storage half of RequestCache (src/request-cache.ts): a map from     *)
(* request keys to entries with an expiry, whose insertion order is the    *)
(* LRU order.  The protocol half (coalescing, generations) is module       *)
(* RequestCache, which composes its steps out of the ones defined here.    *)
(*                                                                         *)
(* A JavaScript Map iterates in insertion order; `order' holds that order  *)
(* as a strict relation: <<a, b>> is in it when a was inserted before b.   *)
(***************************************************************************)
EXTENDS Integers, FiniteSets, Functions

CONSTANTS
  Keys,           (* the cacheable requests                               *)
  Versions,       (* the response bodies, told apart by a version number  *)
  EnableStorage,  (* options.enableStorage                                *)
  CleanupEnabled, (* options.cleanupIntervalMs > 0                        *)
  Ttl,            (* options.ttlMs                                        *)
  MaxEntries,     (* options.maxEntries; 0 means unlimited                *)
  MaxTime         (* bound of the model: the last instant of the clock    *)

ASSUME StoreAssumption ==
  /\ EnableStorage \in BOOLEAN /\ CleanupEnabled \in BOOLEAN
  /\ Ttl \in Nat /\ MaxEntries \in Nat /\ MaxTime \in Nat
  /\ IsFiniteSet(Keys) /\ Versions \subseteq Nat

VARIABLES
  entries,        (* key -> [data, expiry], defined on the stored keys     *)
  order,          (* the insertion order of the stored keys                *)
  timer,          (* whether the periodic clean-up timer is running        *)
  now             (* Date.now()                                            *)

storeVars == <<entries, order, timer, now>>

Entry == [data : Versions, expiry : Nat]

StoreTypeOK ==
  /\ DOMAIN entries \subseteq Keys
  /\ entries \in [DOMAIN entries -> Entry]
  /\ order \subseteq (DOMAIN entries) \X (DOMAIN entries)
  /\ timer \in BOOLEAN
  /\ now \in Nat

StoreInit ==
  /\ entries = [k \in {} |-> k]
  /\ order = {}
  /\ timer = (EnableStorage /\ CleanupEnabled)
  /\ now = 0

-------------------------------------------------------------------------------
(* Map.delete of every key outside `kept': what stays, and in which order. *)
EntriesWithin(kept) == Restrict(entries, DOMAIN entries \cap kept)
OrderWithin(kept) == order \cap (kept \X kept)

Live(k) == k \in DOMAIN entries /\ entries[k].expiry > now

(* The insertion order once only `kept' is left and k is inserted (again). *)
MovedToEnd(kept, k) == OrderWithin(kept \ {k}) \cup ((kept \ {k}) \X {k})

(* A mutated ReadHit: the entry is not touched, so eviction is FIFO.       *)
ReadHitUntouched(k) == Live(k) /\ UNCHANGED storeVars

(* read: a live entry is touched, that is deleted and inserted again.      *)
ReadHit(k) ==
  /\ Live(k)
  /\ order' = MovedToEnd(DOMAIN entries, k)
  /\ UNCHANGED <<entries, timer, now>>

(* read: nothing stored, or an expired entry, which is removed on the way. *)
ReadMiss(k) ==
  /\ ~ Live(k)
  /\ entries' = EntriesWithin(Keys \ {k})
  /\ order' = OrderWithin(Keys \ {k})
  /\ UNCHANGED <<timer, now>>

(* The keys write(k, _) evicts: the oldest of the other entries, and only  *)
(* when those alone fill the cache.                                        *)
Evicted(k) ==
  LET others == DOMAIN entries \ {k}
  IN  {j \in others : /\ MaxEntries > 0 /\ Cardinality(others) >= MaxEntries
                      /\ \A i \in others \ {j} : <<j, i>> \in order}

(* write: replace k, evicting the oldest other entry when that is needed;  *)
(* the lifetime starts now, when the load has completed.                   *)
Write(k, v) ==
  /\ IF EnableStorage
     THEN LET kept == DOMAIN entries \ Evicted(k)
          IN  /\ entries' = [j \in kept \cup {k} |->
                               IF j = k THEN [data |-> v, expiry |-> now + Ttl]
                                        ELSE entries[j]]
              /\ order' = MovedToEnd(kept, k)
     ELSE UNCHANGED <<entries, order>>
  /\ UNCHANGED <<timer, now>>

(* entries.clear(), the storage part of invalidate.                        *)
Clear ==
  /\ entries' = [k \in {} |-> k]
  /\ order' = {}
  /\ UNCHANGED now

(* invalidate, and dispose, which stops the timer first.                   *)
Discard == Clear /\ timer' \in {timer, FALSE}

(* removeExpiredEntries, run by the timer.                                 *)
RemoveExpiredEntries ==
  LET kept == {k \in DOMAIN entries : Live(k)}
  IN  /\ timer
      /\ entries' = EntriesWithin(kept)
      /\ order' = OrderWithin(kept)
      /\ UNCHANGED <<timer, now>>

(* Time passes.                                                            *)
Tick ==
  /\ now < MaxTime
  /\ now' = now + 1
  /\ UNCHANGED <<entries, order, timer>>

StoreNext ==
  \/ \E k \in Keys : ReadHit(k) \/ ReadMiss(k)
  \/ \E k \in Keys, v \in Versions : Write(k, v)
  \/ Discard
  \/ RemoveExpiredEntries
  \/ Tick

StoreSpec == StoreInit /\ [][StoreNext]_storeVars
===============================================================================
