------------------------------- MODULE CacheUse -------------------------------
(***************************************************************************)
(* CacheStore with a history variable that records the use of each key     *)
(* without looking at the map's insertion order, so that the eviction      *)
(* policy can be compared with the definition of LRU.                      *)
(***************************************************************************)
EXTENDS CacheStore

VARIABLE since  (* since[k]: the keys hit or written since k last was      *)

useVars == <<storeVars, since>>

Used(k) == since' = [j \in Keys |-> IF j = k THEN {} ELSE since[j] \cup {k}]

UseInit == StoreInit /\ since = [k \in Keys |-> {}]

UseNext ==
  \/ \E k \in Keys : ReadHit(k) /\ Used(k)
  \/ \E k \in Keys, v \in Versions : Write(k, v) /\ Used(k)
  \/ \E k \in Keys : ReadMiss(k) /\ UNCHANGED since
  \/ Discard /\ UNCHANGED since
  \/ RemoveExpiredEntries /\ UNCHANGED since
  \/ Tick /\ UNCHANGED since

UseSpec == UseInit /\ [][UseNext]_useVars

(* The cache never holds more than maxEntries entries, expired ones not    *)
(* yet swept included.  While the clock stands still, a live entry is lost *)
(* only to clear() or to the write of a key that was not stored into a     *)
(* full cache, and then it is the only one and the least recently used:    *)
(* every entry that stays has been hit or written since it was.            *)
LiveLostOnlyToEviction ==
  [][ LET lost == {k \in DOMAIN entries : Live(k)} \ DOMAIN entries'
      IN  /\ MaxEntries > 0 => Cardinality(DOMAIN entries') <= MaxEntries
          /\ (now' = now /\ lost # {} /\ entries' # [k \in {} |-> k]) =>
               /\ Cardinality(lost) = 1
               /\ Cardinality(DOMAIN entries) = MaxEntries
               /\ \E k \in DOMAIN entries' : k \notin DOMAIN entries
               /\ \A k \in lost : DOMAIN entries \cap DOMAIN entries' \subseteq since[k]
    ]_useVars
===============================================================================
