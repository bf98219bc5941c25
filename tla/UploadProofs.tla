----------------------------- MODULE UploadProofs -----------------------------
(***************************************************************************)
(* Theorems about Upload, for any number of exchanges, other requests and  *)
(* sockets, and a file of any size.                                        *)
(***************************************************************************)
EXTENDS Upload, FiniteSetTheorems, TLAPS

-------------------------------------------------------------------------------
(* Counting.                                                               *)

(* One element enters or leaves a finite set.                              *)
LEMMA CountOne ==
  ASSUME NEW S, IsFiniteSet(S), NEW e
  PROVE  /\ IsFiniteSet(S \cup {e}) /\ IsFiniteSet(S \ {e}) /\ Cardinality(S) \in Nat
         /\ e \notin S => Cardinality(S \cup {e}) = Cardinality(S) + 1 /\ S \ {e} = S
         /\ e \in S => Cardinality(S \ {e}) = Cardinality(S) - 1 /\ S \cup {e} = S
<1>1. IsFiniteSet(S \cup {e}) /\ IsFiniteSet(S \ {e}) /\ Cardinality(S) \in Nat
  BY FS_AddElement, FS_RemoveElement, FS_CardinalityType
<1>2. e \notin S => Cardinality(S \cup {e}) = Cardinality(S) + 1
  BY FS_AddElement
<1>3. e \in S => Cardinality(S \ {e}) = Cardinality(S) - 1
  BY FS_RemoveElement
<1> QED BY <1>1, <1>2, <1>3

(* How one exchange counts in a set it belongs to or not.                  *)
One(p) == IF p THEN 1 ELSE 0

LEMMA CountMoves ==
  ASSUME NEW S, IsFiniteSet(S), NEW e, NEW p \in BOOLEAN, NEW T,
         p => T = S \cup {e}, ~ p => T = S \ {e}
  PROVE  /\ Cardinality(S) \in Nat /\ Cardinality(T) \in Nat
         /\ Cardinality(T) = Cardinality(S) - One(e \in S) + One(p)
<1>1. /\ IsFiniteSet(S \cup {e}) /\ IsFiniteSet(S \ {e}) /\ Cardinality(S) \in Nat
      /\ e \notin S => Cardinality(S \cup {e}) = Cardinality(S) + 1 /\ S \ {e} = S
      /\ e \in S => Cardinality(S \ {e}) = Cardinality(S) - 1 /\ S \cup {e} = S
  BY CountOne
<1>2. Cardinality(T) \in Nat
  <2>1. IsFiniteSet(T)
    BY <1>1
  <2> QED BY <2>1, FS_CardinalityType
<1>3. CASE p /\ e \in S
  <2>1. T = S
    BY <1>1, <1>3
  <2>2. One(e \in S) = 1 /\ One(p) = 1
    BY <1>3 DEF One
  <2> QED BY <1>1, <2>1, <2>2
<1>4. CASE p /\ e \notin S
  <2>1. T = S \cup {e}
    BY <1>4
  <2>2. One(e \in S) = 0 /\ One(p) = 1
    BY <1>4 DEF One
  <2>3. Cardinality(T) = Cardinality(S) + 1
    BY <1>1, <1>4, <2>1
  <2> QED BY <1>1, <1>2, <2>2, <2>3
<1>5. CASE ~ p /\ e \in S
  <2>1. T = S \ {e}
    BY <1>5
  <2>2. One(e \in S) = 1 /\ One(p) = 0
    BY <1>5 DEF One
  <2>3. Cardinality(T) = Cardinality(S) - 1
    BY <1>1, <1>5, <2>1
  <2> QED BY <1>1, <1>2, <2>2, <2>3
<1>6. CASE ~ p /\ e \notin S
  <2>1. T = S
    BY <1>1, <1>6
  <2>2. One(e \in S) = 0 /\ One(p) = 0
    BY <1>6 DEF One
  <2> QED BY <1>1, <2>1, <2>2
<1> QED BY <1>1, <1>2, <1>3, <1>4, <1>5, <1>6

(* A step that changes exchange e to call moves it between the sets that   *)
(* the scope counts.                                                       *)
LEMMA CountsMove ==
  ASSUME TypeOK, NEW e \in Exchanges, NEW call \in Exchange, Change(e, call)
  PROVE  /\ \A sources \in {{"reading", "cancelling"}, {"cancelling"}} :
              /\ Cardinality(Files(sources)) \in Nat /\ Cardinality(Files(sources)') \in Nat
              /\ Cardinality(Files(sources)') =
                   Cardinality(Files(sources)) - One(exchange[e].source \in sources) + One(call.source \in sources)
         /\ Cardinality(Pulls) \in Nat /\ Cardinality(Pulls') \in Nat
         /\ Cardinality(Pulls') = Cardinality(Pulls) - One(exchange[e].pulling) + One(call.pulling)
         /\ Cardinality(Pipes) \in Nat /\ Cardinality(Pipes') \in Nat
         /\ Cardinality(Pipes') = Cardinality(Pipes) - One(exchange[e].piped) + One(call.piped)
<1>1. IsFiniteSet(Exchanges)
  BY UploadAssumption
<1>2. exchange' = [exchange EXCEPT ![e] = call] /\ exchange \in [Exchanges -> Exchange]
  BY DEF Change, TypeOK
<1>3. ASSUME NEW sources
      PROVE  /\ Cardinality(Files(sources)) \in Nat /\ Cardinality(Files(sources)') \in Nat
             /\ Cardinality(Files(sources)') =
                  Cardinality(Files(sources)) - One(exchange[e].source \in sources) + One(call.source \in sources)
  <2>1. IsFiniteSet(Files(sources))
    BY <1>1, FS_Subset DEF Files
  <2>2. /\ call.source \in sources => Files(sources)' = Files(sources) \cup {e}
        /\ call.source \notin sources => Files(sources)' = Files(sources) \ {e}
    BY <1>2 DEF Files
  <2>3. e \in Files(sources) <=> exchange[e].source \in sources
    BY DEF Files
  <2> DEFINE p == call.source \in sources
  <2>4. p \in BOOLEAN
    OBVIOUS
  <2>5. /\ Cardinality(Files(sources)) \in Nat /\ Cardinality(Files(sources)') \in Nat
        /\ Cardinality(Files(sources)') = Cardinality(Files(sources)) - One(e \in Files(sources)) + One(p)
    <3> HIDE DEF p
    <3>1. (p => Files(sources)' = Files(sources) \cup {e}) /\ (~ p => Files(sources)' = Files(sources) \ {e})
      BY <2>2 DEF p
    <3> QED BY <2>1, <3>1, <2>4, CountMoves
  <2>6. One(e \in Files(sources)) = One(exchange[e].source \in sources)
    BY <2>3 DEF One
  <2> QED BY <2>5, <2>6
<1>4. /\ Cardinality(Pulls) \in Nat /\ Cardinality(Pulls') \in Nat
      /\ Cardinality(Pulls') = Cardinality(Pulls) - One(exchange[e].pulling) + One(call.pulling)
  <2>1. IsFiniteSet(Pulls)
    BY <1>1, FS_Subset DEF Pulls
  <2>2. /\ call.pulling => Pulls' = Pulls \cup {e}
        /\ ~ call.pulling => Pulls' = Pulls \ {e}
    BY <1>2 DEF Pulls
  <2>3. (e \in Pulls <=> exchange[e].pulling) /\ call.pulling \in BOOLEAN
    BY DEF Pulls, Exchange
  <2>4. One(e \in Pulls) = One(exchange[e].pulling)
    BY <2>3 DEF One
  <2> DEFINE p == call.pulling
  <2>5. /\ Cardinality(Pulls) \in Nat /\ Cardinality(Pulls') \in Nat
        /\ Cardinality(Pulls') = Cardinality(Pulls) - One(e \in Pulls) + One(p)
    <3>1. (p => Pulls' = Pulls \cup {e}) /\ (~ p => Pulls' = Pulls \ {e}) /\ p \in BOOLEAN
      BY <2>2, <2>3
    <3> HIDE DEF p
    <3> QED BY <2>1, <3>1, CountMoves
  <2> QED BY <2>4, <2>5
<1>5. /\ Cardinality(Pipes) \in Nat /\ Cardinality(Pipes') \in Nat
      /\ Cardinality(Pipes') = Cardinality(Pipes) - One(exchange[e].piped) + One(call.piped)
  <2>1. IsFiniteSet(Pipes)
    BY <1>1, FS_Subset DEF Pipes
  <2>2. /\ call.piped => Pipes' = Pipes \cup {e}
        /\ ~ call.piped => Pipes' = Pipes \ {e}
    BY <1>2 DEF Pipes
  <2>3. (e \in Pipes <=> exchange[e].piped) /\ call.piped \in BOOLEAN
    BY DEF Pipes, Exchange
  <2>4. One(e \in Pipes) = One(exchange[e].piped)
    BY <2>3 DEF One
  <2> DEFINE p == call.piped
  <2>5. /\ Cardinality(Pipes) \in Nat /\ Cardinality(Pipes') \in Nat
        /\ Cardinality(Pipes') = Cardinality(Pipes) - One(e \in Pipes) + One(p)
    <3>1. (p => Pipes' = Pipes \cup {e}) /\ (~ p => Pipes' = Pipes \ {e}) /\ p \in BOOLEAN
      BY <2>2, <2>3
    <3> HIDE DEF p
    <3> QED BY <2>1, <3>1, CountMoves
  <2> QED BY <2>4, <2>5
<1> QED BY <1>3, <1>4, <1>5

LEMMA CountsAreNat ==
  /\ \A sources : Cardinality(Files(sources)) \in Nat /\ Cardinality(Files(sources)') \in Nat
  /\ Cardinality(Pulls) \in Nat /\ Cardinality(Pulls') \in Nat
  /\ Cardinality(Pipes) \in Nat /\ Cardinality(Pipes') \in Nat
<1>1. IsFiniteSet(Exchanges)
  BY UploadAssumption
<1>2. ASSUME NEW S, S \subseteq Exchanges PROVE Cardinality(S) \in Nat
  BY <1>1, <1>2, FS_Subset, FS_CardinalityType
<1>3. ASSUME NEW sources
      PROVE  Cardinality(Files(sources)) \in Nat /\ Cardinality(Files(sources)') \in Nat
  <2>1. Files(sources) \subseteq Exchanges /\ Files(sources)' \subseteq Exchanges
    BY DEF Files
  <2> QED BY <2>1, <1>2
<1>4. /\ Pulls \subseteq Exchanges /\ Pulls' \subseteq Exchanges
      /\ Pipes \subseteq Exchanges /\ Pipes' \subseteq Exchanges
  BY DEF Pulls, Pipes
<1> QED BY <1>2, <1>3, <1>4

(* What an exchange contributes to the count of the scope.                 *)
Weight(call) ==
  One(call.source \in {"reading", "cancelling"}) + One(call.source \in {"cancelling"})
    + One(call.pulling) + One(call.piped)

LEMMA Sums ==
  ASSUME NEW p, NEW p2, NEW base \in {0, 1},
         NEW a \in Nat, NEW b \in Nat, NEW c \in Nat, NEW d \in Nat,
         NEW a2 \in Nat, NEW b2 \in Nat, NEW c2 \in Nat, NEW d2 \in Nat,
         NEW a0 \in {0, 1}, NEW b0 \in {0, 1}, NEW c0 \in {0, 1}, NEW d0 \in {0, 1},
         NEW a1 \in {0, 1}, NEW b1 \in {0, 1}, NEW c1 \in {0, 1}, NEW d1 \in {0, 1},
         p = base + a + b + c + d, p2 = p - (a0 + b0 + c0 + d0) + (a1 + b1 + c1 + d1),
         a2 = a - a0 + a1, b2 = b - b0 + b1, c2 = c - c0 + c1, d2 = d - d0 + d1
  PROVE  p2 = base + a2 + b2 + c2 + d2
OBVIOUS

(* What the scope counts apart from the exchanges.                         *)
Base == IF stage = "done" /\ ~ unread THEN 0 ELSE 1

(* The scope still counts what is outstanding when it counts the change of *)
(* one exchange.                                                           *)
LEMMA CountStep ==
  ASSUME TypeOK, PendingCounts, NEW e \in Exchanges, NEW call \in Exchange, Change(e, call),
         stage' = stage, unread' = unread,
         scope'.pending = scope.pending - Weight(exchange[e]) + Weight(call)
  PROVE  PendingCounts'
<1> DEFINE rc == {"reading", "cancelling"}
           c == {"cancelling"}
           old == exchange[e]
<1>1. /\ Cardinality(Files(rc)) \in Nat /\ Cardinality(Files(rc)') \in Nat
      /\ Cardinality(Files(c)) \in Nat /\ Cardinality(Files(c)') \in Nat
      /\ Cardinality(Pulls) \in Nat /\ Cardinality(Pulls') \in Nat
      /\ Cardinality(Pipes) \in Nat /\ Cardinality(Pipes') \in Nat
      /\ Cardinality(Files(rc)') = Cardinality(Files(rc)) - One(old.source \in rc) + One(call.source \in rc)
      /\ Cardinality(Files(c)') = Cardinality(Files(c)) - One(old.source \in c) + One(call.source \in c)
      /\ Cardinality(Pulls') = Cardinality(Pulls) - One(old.pulling) + One(call.pulling)
      /\ Cardinality(Pipes') = Cardinality(Pipes) - One(old.piped) + One(call.piped)
  BY CountsMove
<1>2. /\ One(old.source \in rc) \in {0, 1} /\ One(call.source \in rc) \in {0, 1}
      /\ One(old.source \in c) \in {0, 1} /\ One(call.source \in c) \in {0, 1}
      /\ One(old.pulling) \in {0, 1} /\ One(call.pulling) \in {0, 1}
      /\ One(old.piped) \in {0, 1} /\ One(call.piped) \in {0, 1}
  BY DEF One
<1>3. scope.pending = Base + Cardinality(Files(rc)) + Cardinality(Files(c)) + Cardinality(Pulls) + Cardinality(Pipes)
  BY DEF PendingCounts, Base
<1>4. scope'.pending =
        scope.pending - (One(old.source \in rc) + One(old.source \in c) + One(old.pulling) + One(old.piped))
          + (One(call.source \in rc) + One(call.source \in c) + One(call.pulling) + One(call.piped))
  BY DEF Weight
<1>5. Base \in {0, 1} /\ Base' = Base
  BY DEF Base
<1>6. scope'.pending =
        Base' + Cardinality(Files(rc)') + Cardinality(Files(c)') + Cardinality(Pulls') + Cardinality(Pipes')
  <2> DEFINE n1 == Cardinality(Files(rc))
             n2 == Cardinality(Files(c))
             n3 == Cardinality(Pulls)
             n4 == Cardinality(Pipes)
             m1 == Cardinality(Files(rc)')
             m2 == Cardinality(Files(c)')
             m3 == Cardinality(Pulls')
             m4 == Cardinality(Pipes')
             a1 == One(old.source \in rc)
             a2 == One(old.source \in c)
             a3 == One(old.pulling)
             a4 == One(old.piped)
             b1 == One(call.source \in rc)
             b2 == One(call.source \in c)
             b3 == One(call.pulling)
             b4 == One(call.piped)
  <2>1. /\ n1 \in Nat /\ n2 \in Nat /\ n3 \in Nat /\ n4 \in Nat
        /\ m1 \in Nat /\ m2 \in Nat /\ m3 \in Nat /\ m4 \in Nat
        /\ a1 \in {0, 1} /\ a2 \in {0, 1} /\ a3 \in {0, 1} /\ a4 \in {0, 1}
        /\ b1 \in {0, 1} /\ b2 \in {0, 1} /\ b3 \in {0, 1} /\ b4 \in {0, 1}
        /\ m1 = n1 - a1 + b1 /\ m2 = n2 - a2 + b2 /\ m3 = n3 - a3 + b3 /\ m4 = n4 - a4 + b4
    BY <1>1, <1>2
  <2>2. /\ scope.pending = Base + n1 + n2 + n3 + n4
        /\ scope'.pending = scope.pending - (a1 + a2 + a3 + a4) + (b1 + b2 + b3 + b4)
    BY <1>3, <1>4
  <2> HIDE DEF n1, n2, n3, n4, m1, m2, m3, m4, a1, a2, a3, a4, b1, b2, b3, b4
  <2>3. scope'.pending = Base + m1 + m2 + m3 + m4
    BY <1>5, <2>1, <2>2, Sums
  <2> QED BY <1>5, <2>3 DEF m1, m2, m3, m4
<1> QED BY <1>6 DEF PendingCounts, Base, Files, Pulls, Pipes

(* Only what the scope counts apart from the exchanges changes, if at all. *)
LEMMA CountBase ==
  ASSUME TypeOK, PendingCounts, exchange' = exchange,
         scope'.pending = scope.pending - Base + Base'
  PROVE  PendingCounts'
<1>1. /\ Files({"reading", "cancelling"})' = Files({"reading", "cancelling"})
      /\ Files({"cancelling"})' = Files({"cancelling"}) /\ Pulls' = Pulls /\ Pipes' = Pipes
  BY DEF Files, Pulls, Pipes
<1> DEFINE a == Cardinality(Files({"reading", "cancelling"}))
           b == Cardinality(Files({"cancelling"}))
           c == Cardinality(Pulls)
           d == Cardinality(Pipes)
<1>2. a \in Nat /\ b \in Nat /\ c \in Nat /\ d \in Nat /\ Base \in {0, 1} /\ Base' \in {0, 1}
  BY CountsAreNat DEF Base
<1>3. scope.pending = Base + a + b + c + d
  BY DEF PendingCounts, Base
<1>4. a' = a /\ b' = b /\ c' = c /\ d' = d
  BY <1>1
<1>5. scope'.pending = Base' + a + b + c + d
  <2> HIDE DEF a, b, c, d
  <2> QED BY <1>2, <1>3
<1>6. scope'.pending = Base' + a' + b' + c' + d'
  <2> HIDE DEF a, b, c, d
  <2> QED BY <1>4, <1>5
<1> QED BY <1>6 DEF PendingCounts, Base

(* Nothing changes in what the scope counts.                               *)
LEMMA CountKept ==
  ASSUME TypeOK, PendingCounts, exchange' = exchange, scope' = scope, unread' = unread,
         stage' = stage \/ (stage = "idle" /\ stage' = "fetching")
  PROVE  PendingCounts'
<1>1. Base' = Base /\ Base \in Nat /\ scope.pending \in Nat
  BY DEF Base, TypeOK
<1>2. scope'.pending = scope.pending - Base + Base'
  BY <1>1
<1> QED BY <1>2, CountBase

(* The cancellation of an answer is over.                                  *)
LEMMA CountAnswer ==
  ASSUME TypeOK, PendingCounts, UnderWay, AnswerCancelled
  PROVE  PendingCounts'
<1>1. Base = 1 /\ Base' = 0
  BY DEF AnswerCancelled, UnderWay, Base
<1>2. scope.pending \in Nat /\ scope'.pending = scope.pending - 1
  BY DEF TypeOK, AnswerCancelled, Released
<1>3. scope'.pending = scope.pending - Base + Base'
  BY <1>1, <1>2
<1> QED BY <1>3, CountBase DEF AnswerCancelled

(* The weights of an exchange before and after a step.                     *)
LEMMA Weights ==
  ASSUME NEW call \in Exchange, NEW next \in Exchange
  PROVE  /\ Weight(call) \in Int
         /\ next.piped = call.piped =>
              /\ next.source = call.source /\ next.pulling = call.pulling => Weight(next) = Weight(call)
              /\ call.source = "unopened" /\ next.source = "reading" /\ next.pulling = call.pulling =>
                   Weight(next) = Weight(call) + 1
              /\ call.source = "reading" /\ next.source = "cancelling" /\ next.pulling = call.pulling =>
                   Weight(next) = Weight(call) + 1
              /\ call.source = "reading" /\ next.source = "settled" /\ call.pulling /\ ~ next.pulling =>
                   Weight(next) = Weight(call) - 2
              /\ call.source = "cancelling" /\ next.source = "settled" /\ next.pulling = call.pulling =>
                   Weight(next) = Weight(call) - 2
              /\ next.source = call.source /\ ~ call.pulling /\ next.pulling => Weight(next) = Weight(call) + 1
              /\ next.source = call.source /\ call.pulling /\ ~ next.pulling => Weight(next) = Weight(call) - 1
         /\ next.source = call.source /\ next.pulling = call.pulling =>
              /\ ~ call.piped /\ next.piped => Weight(next) = Weight(call) + 1
              /\ call.piped /\ ~ next.piped => Weight(next) = Weight(call) - 1
BY DEF Weight, One, Exchange

(* What the end of the attempt does to an exchange.                        *)
LEMMA FinallyEach ==
  ASSUME NEW reached, NEW unreadAnswer \in BOOLEAN, Finally(reached, unreadAnswer), NEW e \in Exchanges
  PROVE  \E call \in {exchange[e], [exchange[e] EXCEPT !.stage = "dead"]} :
            exchange'[e] = TornDown(call, Proof(reached))
BY DEF Finally, Left

(* Teardown turns each reading into a cancellation and releases the        *)
(* result, unless its answer is cancelled now.                             *)
LEMMA CountFinally ==
  ASSUME TypeOK, PendingCounts, NEW reached, NEW unreadAnswer \in BOOLEAN, Finally(reached, unreadAnswer)
  PROVE  PendingCounts'
<1> DEFINE R == {e \in Exchanges : exchange[e].source = "reading"}
           C == {e \in Exchanges : exchange[e].source = "cancelling"}
<1>1. \A e \in Exchanges :
        /\ exchange'[e].source = IF exchange[e].source = "reading" THEN "cancelling" ELSE exchange[e].source
        /\ exchange'[e].pulling = exchange[e].pulling /\ exchange'[e].piped = exchange[e].piped
  <2> TAKE e \in Exchanges
  <2>1. exchange[e] \in Exchange
    BY DEF TypeOK
  <2>2. PICK call \in {exchange[e], [exchange[e] EXCEPT !.stage = "dead"]} :
           exchange'[e] = TornDown(call, Proof(reached))
    BY FinallyEach
  <2>3. /\ call \in Exchange /\ call.source = exchange[e].source
        /\ call.pulling = exchange[e].pulling /\ call.piped = exchange[e].piped
    BY <2>1, <2>2 DEF Exchange
  <2> QED BY <2>2, <2>3 DEF TornDown, Cancelled, Exchange
<1>2. /\ Files({"reading", "cancelling"}) = R \cup C /\ Files({"cancelling"}) = C /\ Files({"reading"}) = R
      /\ Files({"reading", "cancelling"})' = R \cup C /\ Files({"cancelling"})' = R \cup C
      /\ Pulls' = Pulls /\ Pipes' = Pipes
  BY <1>1 DEF Files, Pulls, Pipes
<1>3. IsFiniteSet(R) /\ IsFiniteSet(C) /\ R \cap C = {}
  BY UploadAssumption, FS_Subset
<1>4. /\ Cardinality(R) \in Nat /\ Cardinality(C) \in Nat /\ Cardinality(Pulls) \in Nat /\ Cardinality(Pipes) \in Nat
      /\ Cardinality(R \cup C) = Cardinality(R) + Cardinality(C)
  <2>1. Cardinality(R) \in Nat /\ Cardinality(C) \in Nat
    BY <1>3, FS_CardinalityType
  <2>2. Cardinality(R \cup C) = Cardinality(R) + Cardinality(C)
    <3>1. Cardinality(R \cup C) = Cardinality(R) + Cardinality(C) - Cardinality(R \cap C)
      <4> HIDE DEF R, C
      <4> QED BY <1>3, FS_Union
    <3>2. Cardinality(R \cap C) = 0
      <4> HIDE DEF R, C
      <4> QED BY <1>3, FS_EmptySet
    <3> HIDE DEF R, C
    <3> QED BY <2>1, <3>1, <3>2
  <2> QED BY <2>1, <2>2, CountsAreNat
<1>5. scope.pending = 1 + Cardinality(R \cup C) + Cardinality(C) + Cardinality(Pulls) + Cardinality(Pipes)
  BY <1>2 DEF PendingCounts, Finally
<1> DEFINE kept == IF unreadAnswer THEN 0 ELSE 1
<1>6. scope'.pending = scope.pending - (kept - Cardinality(R))
  BY <1>2 DEF Finally, Released
<1>7. Base' = 1 - kept /\ kept \in {0, 1}
  BY DEF Finally, Base
<1>8. scope'.pending = Base' + Cardinality(R \cup C) + Cardinality(R \cup C) + Cardinality(Pulls) + Cardinality(Pipes)
  <2> DEFINE r == Cardinality(R)
             c == Cardinality(C)
             u == Cardinality(R \cup C)
             p == Cardinality(Pulls)
             q == Cardinality(Pipes)
  <2>1. r \in Nat /\ c \in Nat /\ p \in Nat /\ q \in Nat /\ u = r + c
    BY <1>4
  <2>2. scope.pending = 1 + u + c + p + q /\ scope'.pending = scope.pending - (kept - r)
    BY <1>5, <1>6
  <2> HIDE DEF R, C, r, c, u, p, q, kept
  <2>3. scope'.pending = Base' + u + u + p + q
    BY <1>7, <2>1, <2>2
  <2> QED BY <2>3 DEF u, p, q
<1>9. /\ Cardinality(Files({"reading", "cancelling"})') = Cardinality(R \cup C)
      /\ Cardinality(Files({"cancelling"})') = Cardinality(R \cup C)
      /\ Cardinality(Pulls') = Cardinality(Pulls) /\ Cardinality(Pipes') = Cardinality(Pipes)
  BY <1>2
<1>10. scope'.pending = Base' + Cardinality(Files({"reading", "cancelling"})') + Cardinality(Files({"cancelling"})')
                          + Cardinality(Pulls') + Cardinality(Pipes')
  <2> HIDE DEF R, C, kept
  <2> QED BY <1>8, <1>9
<1> QED BY <1>10 DEF PendingCounts, Base, Files, Pulls, Pipes

(* The steps of one exchange: those of its request, and those of the body. *)
OfTransport(e) ==
  \/ Dispatch(e) \/ Create(e) \/ Connect(e)
  \/ TransportFails(e) \/ Flush(e) \/ EncoderFails(e) \/ StreamRefused(e)
  \/ \E s \in Sockets, published \in BOOLEAN : SendHeaders(e, s, published)

OfBody(e) ==
  \/ OpenStream(e) \/ Pull(e) \/ ReadAfterFinish(e) \/ ReadChunk(e) \/ ReadDone(e) \/ ReadFails(e)
  \/ ConsumerCancels(e) \/ CancelSettles(e) \/ PipelineEnds(e)

LEMMA Kinds ==
  ASSUME [Next]_vars
  PROVE  \/ Fetch \/ Malformed \/ AnswerCancelled
         \/ \E reached : \E unreadAnswer \in BOOLEAN : Finally(reached, unreadAnswer)
         \/ \E e \in Exchanges : OfTransport(e) \/ OfBody(e) \/ Reuse(e)
         \/ \E o \in Others : OtherEnds(o) \/ \E s \in Sockets : OtherSends(o, s)
         \/ UNCHANGED vars
BY DEF Next, OfTransport, OfBody

(* No step changes what fetch sends with, and the scope only observes and  *)
(* releases.                                                               *)
LEMMA StepsKeep ==
  ASSUME [Next]_vars
  PROVE  via' = via /\ (scope' = scope \/ \E n : Observed(n) \/ Released(n))
<1> DEFINE Keeps == via' = via /\ (scope' = scope \/ \E n : Observed(n) \/ Released(n))
<1>1. CASE Fetch \/ Malformed \/ AnswerCancelled
  BY <1>1 DEF Fetch, Malformed, AnswerCancelled, upload
<1>2. ASSUME NEW reached, NEW unreadAnswer \in BOOLEAN, Finally(reached, unreadAnswer)
      PROVE  Keeps
  BY <1>2 DEF Finally
<1>3. ASSUME NEW e \in Exchanges, OfTransport(e)
      PROVE  Keeps
  <2>1. CASE Dispatch(e) \/ Create(e) \/ Connect(e) \/ Flush(e)
    BY <2>1 DEF Dispatch, Create, Connect, Flush, upload
  <2>2. CASE TransportFails(e) \/ EncoderFails(e) \/ StreamRefused(e)
    BY <2>2 DEF TransportFails, EncoderFails, StreamRefused, Dies, upload
  <2>3. CASE \E s \in Sockets, published \in BOOLEAN : SendHeaders(e, s, published)
    BY <2>3 DEF SendHeaders, upload
  <2> QED BY <1>3, <2>1, <2>2, <2>3 DEF OfTransport
<1>4. ASSUME NEW e \in Exchanges, OfBody(e)
      PROVE  Keeps
  BY <1>4 DEF OfBody, OpenStream, Pull, ReadAfterFinish, ReadChunk, ReadDone, ReadFails, Completes,
              ConsumerCancels, CancelSettles, PipelineEnds, upload
<1>5. ASSUME NEW e \in Exchanges, Reuse(e)
      PROVE  Keeps
  BY <1>5 DEF Reuse, upload
<1>6. ASSUME NEW o \in Others, OtherEnds(o) \/ \E s \in Sockets : OtherSends(o, s)
      PROVE  Keeps
  BY <1>6 DEF OtherEnds, OtherSends, upload
<1>7. CASE UNCHANGED vars
  BY <1>7 DEF vars, upload
<1> QED
  <2> HIDE DEF Keeps
  <2>1. Keeps
    BY <1>1, <1>2, <1>3, <1>4, <1>5, <1>6, <1>7, Kinds DEF Keeps
  <2> QED BY <2>1 DEF Keeps

(* What an exchange holds for the scope to count.                          *)
SameHold(call, old) == call.source = old.source /\ call.pulling = old.pulling /\ call.piped = old.piped

LEMMA TransportMoves ==
  ASSUME TypeOK, PartsFollowFiles, NEW e \in Exchanges, OfTransport(e)
  PROVE  /\ stage' = stage /\ unread' = unread
         /\ \E call \in Exchange :
              Change(e, call) /\ scope'.pending = scope.pending - Weight(exchange[e]) + Weight(call)
<1>1. exchange[e] \in Exchange /\ Weight(exchange[e]) \in Int /\ scope.pending \in Nat
  BY Weights DEF TypeOK
<1>2. stage' = stage /\ unread' = unread
  BY DEF OfTransport, Dispatch, Create, Connect, TransportFails, Flush, EncoderFails, StreamRefused, SendHeaders,
         Dies, upload
<1>3. ASSUME NEW call \in Exchange, Change(e, call), SameHold(call, exchange[e]), scope' = scope
      PROVE  \E next \in Exchange :
               Change(e, next) /\ scope'.pending = scope.pending - Weight(exchange[e]) + Weight(next)
  <2>1. Weight(call) = Weight(exchange[e])
    BY <1>1, <1>3, Weights DEF SameHold
  <2>2. scope'.pending = scope.pending - Weight(exchange[e]) + Weight(call)
    BY <1>1, <1>3, <2>1
  <2> QED BY <1>3, <2>2
<1>4. CASE Dispatch(e)
  <2> DEFINE call == [exchange[e] EXCEPT !.stage = "created", !.piped = TRUE]
  <2>1. /\ call \in Exchange /\ call.source = exchange[e].source /\ call.pulling = exchange[e].pulling
        /\ call.piped
    BY <1>1 DEF Exchange
  <2>2. Change(e, call) /\ scope'.pending = scope.pending + 1
    BY <1>1, <1>4 DEF Dispatch, Observed, TypeOK
  <2>3. ~ exchange[e].piped
    BY <1>4 DEF Dispatch, PartsFollowFiles
  <2> HIDE DEF call
  <2>4. Weight(call) = Weight(exchange[e]) + 1
    BY <1>1, <2>1, <2>3, Weights
  <2>5. scope'.pending = scope.pending - Weight(exchange[e]) + Weight(call)
    BY <1>1, <2>2, <2>4
  <2> QED BY <1>2, <2>1, <2>2, <2>5
<1>5. CASE EncoderFails(e)
  <2> DEFINE call == [[exchange[e] EXCEPT !.piped = FALSE] EXCEPT !.stage = "dead"]
  <2>1. /\ call \in Exchange /\ call.source = exchange[e].source /\ call.pulling = exchange[e].pulling
        /\ ~ call.piped
    BY <1>1 DEF Exchange
  <2>2. Change(e, call)
    BY <1>5 DEF EncoderFails, Dies
  <2> HIDE DEF call
  <2>3. CASE exchange[e].piped
    <3>1. scope'.pending = scope.pending - 1
      BY <1>5, <2>3 DEF EncoderFails, Released
    <3>2. Weight(call) = Weight(exchange[e]) - 1
      BY <1>1, <2>1, <2>3, Weights
    <3>3. scope'.pending = scope.pending - Weight(exchange[e]) + Weight(call)
      BY <1>1, <3>1, <3>2
    <3> QED BY <1>2, <2>1, <2>2, <3>3
  <2>4. CASE ~ exchange[e].piped
    <3>1. scope' = scope
      BY <1>5, <2>4 DEF EncoderFails
    <3>2. SameHold(call, exchange[e])
      BY <1>1, <2>1, <2>4 DEF SameHold, Exchange
    <3> QED BY <1>2, <1>3, <2>1, <2>2, <3>1, <3>2
  <2> QED BY <2>3, <2>4
<1>6. CASE ~ Dispatch(e) /\ ~ EncoderFails(e)
  <2>1. scope' = scope
    BY <1>6 DEF OfTransport, Create, Connect, TransportFails, Flush, StreamRefused, SendHeaders
  <2>2. \E call \in Exchange : Change(e, call) /\ SameHold(call, exchange[e])
    <3>1. CASE Create(e)
      BY <1>1, <3>1 DEF Create, SameHold, Exchange
    <3>2. CASE Connect(e)
      BY <1>1, <3>2 DEF Connect, SameHold, Exchange
    <3>3. CASE TransportFails(e)
      BY <1>1, <3>3 DEF TransportFails, Dies, SameHold, Exchange
    <3>4. CASE Flush(e)
      <4> DEFINE call == [exchange[e] EXCEPT
                   !.stage = "sent", !.body = IF exchange[e].read = Size THEN "whole" ELSE "truncated"]
      <4>1. call \in Exchange /\ SameHold(call, exchange[e])
        BY <1>1 DEF SameHold, Exchange
      <4>2. Change(e, call)
        BY <3>4 DEF Flush
      <4> QED BY <4>1, <4>2
    <3>5. CASE StreamRefused(e)
      <4> DEFINE call == [[exchange[e] EXCEPT !.part = "errored"] EXCEPT !.stage = "dead"]
      <4>1. call \in Exchange /\ SameHold(call, exchange[e])
        BY <1>1 DEF SameHold, Exchange
      <4>2. Change(e, call)
        BY <3>5 DEF StreamRefused, Dies
      <4> QED BY <4>1, <4>2
    <3>6. CASE \E s \in Sockets, published \in BOOLEAN : SendHeaders(e, s, published)
      BY <1>1, <3>6 DEF SendHeaders, SameHold, Exchange
    <3> QED BY <1>6, <3>1, <3>2, <3>3, <3>4, <3>5, <3>6 DEF OfTransport
  <2> QED BY <1>2, <1>3, <2>1, <2>2
<1> QED BY <1>4, <1>5, <1>6

LEMMA BodyMoves ==
  ASSUME TypeOK, PartsFollowFiles, NEW e \in Exchanges, OfBody(e)
  PROVE  /\ stage' = stage /\ unread' = unread
         /\ \E call \in Exchange :
              Change(e, call) /\ scope'.pending = scope.pending - Weight(exchange[e]) + Weight(call)
<1>1. exchange[e] \in Exchange /\ scope \in [pending : Nat, done : BOOLEAN]
  BY DEF TypeOK
<1>2. stage' = stage /\ unread' = unread
  BY DEF OfBody, OpenStream, Pull, ReadAfterFinish, ReadChunk, ReadDone, ReadFails, Completes, ConsumerCancels,
         CancelSettles, PipelineEnds, upload
<1>3. Weight(exchange[e]) \in Int
  BY <1>1, Weights
<1>4. scope.pending \in Nat
  BY <1>1
<1>5. CASE OpenStream(e)
  <2> DEFINE call == [exchange[e] EXCEPT !.part = "flowing", !.source = "reading"]
  <2>1. /\ call \in Exchange /\ exchange[e].source = "unopened" /\ call.source = "reading"
        /\ call.pulling = exchange[e].pulling /\ call.piped = exchange[e].piped
    BY <1>1, <1>5 DEF OpenStream, PartsFollowFiles, Exchange
  <2>2. Change(e, call) /\ scope'.pending = scope.pending + 1
    BY <1>1, <1>5 DEF OpenStream, Observed
  <2> HIDE DEF call
  <2>3. Weight(call) = Weight(exchange[e]) + 1
    BY <1>1, <1>3, <2>1, Weights
  <2>4. scope'.pending = scope.pending - Weight(exchange[e]) + Weight(call)
    BY <1>3, <1>4, <2>2, <2>3
  <2> QED BY <1>2, <2>1, <2>2, <2>4
<1>6. CASE Pull(e)
  <2> DEFINE call == [exchange[e] EXCEPT !.pulling = TRUE]
  <2>1. /\ call \in Exchange /\ call.source = exchange[e].source /\ ~ exchange[e].pulling /\ call.pulling
        /\ call.piped = exchange[e].piped
    BY <1>1, <1>6 DEF Pull, Exchange
  <2>2. Change(e, call) /\ scope'.pending = scope.pending + 1
    BY <1>1, <1>6 DEF Pull, Observed
  <2> HIDE DEF call
  <2>3. Weight(call) = Weight(exchange[e]) + 1
    BY <1>1, <1>3, <2>1, Weights
  <2>4. scope'.pending = scope.pending - Weight(exchange[e]) + Weight(call)
    BY <1>3, <1>4, <2>2, <2>3
  <2> QED BY <1>2, <2>1, <2>2, <2>4
<1>7. CASE ReadAfterFinish(e)
  <2> DEFINE call == [exchange[e] EXCEPT !.pulling = FALSE]
  <2>1. /\ call \in Exchange /\ call.source = exchange[e].source /\ exchange[e].pulling /\ ~ call.pulling
        /\ call.piped = exchange[e].piped
    BY <1>1, <1>7 DEF ReadAfterFinish, Exchange
  <2>2. Change(e, call) /\ scope'.pending = scope.pending + (-1)
    BY <1>1, <1>7 DEF ReadAfterFinish, Released
  <2> HIDE DEF call
  <2>3. Weight(call) = Weight(exchange[e]) + (-1)
    BY <1>1, <1>3, <2>1, Weights
  <2>4. scope'.pending = scope.pending - Weight(exchange[e]) + Weight(call)
    BY <1>3, <1>4, <2>2, <2>3
  <2> QED BY <1>2, <2>1, <2>2, <2>4
<1>8. CASE ReadChunk(e)
  <2> DEFINE call == [exchange[e] EXCEPT !.pulling = FALSE, !.read = @ + 1]
  <2>1. /\ call \in Exchange /\ call.source = exchange[e].source /\ exchange[e].pulling /\ ~ call.pulling
        /\ call.piped = exchange[e].piped
    <3>1. exchange[e].read \in 0 .. Size /\ exchange[e].read < Size /\ exchange[e].pulling
      BY <1>1, <1>8 DEF ReadChunk, Exchange
    <3>2. exchange[e].read + 1 \in 0 .. Size
      BY <3>1, UploadAssumption
    <3> QED BY <1>1, <3>1, <3>2 DEF Exchange
  <2>2. Change(e, call) /\ scope'.pending = scope.pending + (-1)
    BY <1>1, <1>8 DEF ReadChunk, Released
  <2> HIDE DEF call
  <2>3. Weight(call) = Weight(exchange[e]) + (-1)
    BY <1>1, <1>3, <2>1, Weights
  <2>4. scope'.pending = scope.pending - Weight(exchange[e]) + Weight(call)
    BY <1>3, <1>4, <2>2, <2>3
  <2> QED BY <1>2, <2>1, <2>2, <2>4
<1>9. CASE ReadDone(e) \/ ReadFails(e)
  <2>1. PICK part \in {"ended", "failed"} : Completes(e, part)
    BY <1>9 DEF ReadDone, ReadFails
  <2> DEFINE call == [exchange[e] EXCEPT !.pulling = FALSE, !.part = part, !.source = "settled"]
  <2>2. /\ call \in Exchange /\ exchange[e].source = "reading" /\ call.source = "settled"
        /\ exchange[e].pulling /\ ~ call.pulling /\ call.piped = exchange[e].piped
    BY <1>1, <2>1 DEF Completes, Exchange
  <2>3. Change(e, call) /\ scope'.pending = scope.pending + (-2)
    BY <1>1, <2>1 DEF Completes, Released
  <2> HIDE DEF call
  <2>4. Weight(call) = Weight(exchange[e]) + (-2)
    BY <1>1, <1>3, <2>2, Weights
  <2>5. scope'.pending = scope.pending - Weight(exchange[e]) + Weight(call)
    BY <1>3, <1>4, <2>3, <2>4
  <2> QED BY <1>2, <2>2, <2>3, <2>5
<1>10. CASE ConsumerCancels(e)
  <2> DEFINE call == Cancelled(exchange[e], TRUE)
  <2>1. /\ call \in Exchange /\ exchange[e].source = "reading" /\ call.source = "cancelling"
        /\ call.pulling = exchange[e].pulling /\ call.piped = exchange[e].piped
    BY <1>1, <1>10 DEF ConsumerCancels, Cancelled, Exchange
  <2>2. Change(e, call) /\ scope'.pending = scope.pending + 1
    BY <1>1, <1>10 DEF ConsumerCancels, Observed
  <2> HIDE DEF call
  <2>3. Weight(call) = Weight(exchange[e]) + 1
    BY <1>1, <1>3, <2>1, Weights
  <2>4. scope'.pending = scope.pending - Weight(exchange[e]) + Weight(call)
    BY <1>3, <1>4, <2>2, <2>3
  <2> QED BY <1>2, <2>1, <2>2, <2>4
<1>11. CASE CancelSettles(e)
  <2> DEFINE call == [exchange[e] EXCEPT !.source = "settled"]
  <2>1. /\ call \in Exchange /\ exchange[e].source = "cancelling" /\ call.source = "settled"
        /\ call.pulling = exchange[e].pulling /\ call.piped = exchange[e].piped
    BY <1>1, <1>11 DEF CancelSettles, Exchange
  <2>2. Change(e, call) /\ scope'.pending = scope.pending + (-2)
    BY <1>1, <1>11 DEF CancelSettles, Released
  <2> HIDE DEF call
  <2>3. Weight(call) = Weight(exchange[e]) + (-2)
    BY <1>1, <1>3, <2>1, Weights
  <2>4. scope'.pending = scope.pending - Weight(exchange[e]) + Weight(call)
    BY <1>3, <1>4, <2>2, <2>3
  <2> QED BY <1>2, <2>1, <2>2, <2>4
<1>12. CASE PipelineEnds(e)
  <2> DEFINE call == [exchange[e] EXCEPT !.piped = FALSE]
  <2>1. /\ call \in Exchange /\ call.source = exchange[e].source /\ call.pulling = exchange[e].pulling
        /\ exchange[e].piped /\ ~ call.piped
    BY <1>1, <1>12 DEF PipelineEnds, Exchange
  <2>2. Change(e, call) /\ scope'.pending = scope.pending + (-1)
    BY <1>1, <1>12 DEF PipelineEnds, Released
  <2> HIDE DEF call
  <2>3. Weight(call) = Weight(exchange[e]) + (-1)
    BY <1>1, <1>3, <2>1, Weights
  <2>4. scope'.pending = scope.pending - Weight(exchange[e]) + Weight(call)
    BY <1>3, <1>4, <2>2, <2>3
  <2> QED BY <1>2, <2>1, <2>2, <2>4
<1> QED BY <1>2, <1>5, <1>6, <1>7, <1>8, <1>9, <1>10, <1>11, <1>12 DEF OfBody

LEMMA CountsPreserved ==
  ASSUME TypeOK, PendingCounts, UnderWay, PartsFollowFiles, [Next]_vars
  PROVE  PendingCounts'
<1>1. CASE Next
  <2>1. CASE Fetch
    BY <2>1, CountKept DEF Fetch
  <2>2. CASE Malformed
    BY <2>2, CountKept DEF Malformed, upload
  <2>3. ASSUME NEW reached, NEW unreadAnswer \in BOOLEAN, Finally(reached, unreadAnswer)
        PROVE  PendingCounts'
    BY <2>3, CountFinally
  <2>4. ASSUME NEW e \in Exchanges, OfTransport(e)
        PROVE  PendingCounts'
    BY <2>4, TransportMoves, CountStep
  <2>5. ASSUME NEW e \in Exchanges, OfBody(e)
        PROVE  PendingCounts'
    BY <2>5, BodyMoves, CountStep
  <2>6. ASSUME NEW e \in Exchanges, Reuse(e)
        PROVE  PendingCounts'
    BY <2>6, CountKept DEF Reuse, upload
  <2>7. ASSUME NEW o \in Others, OtherEnds(o) \/ \E s \in Sockets : OtherSends(o, s)
        PROVE  PendingCounts'
    BY <2>7, CountKept DEF OtherEnds, OtherSends, upload
  <2>8. CASE AnswerCancelled
    BY <2>8, CountAnswer
  <2> QED BY <1>1, <2>1, <2>2, <2>3, <2>4, <2>5, <2>6, <2>7, <2>8 DEF Next, OfTransport, OfBody
<1>2. CASE UNCHANGED vars
  BY <1>2, CountKept DEF vars, upload
<1> QED BY <1>1, <1>2

LEMMA ScopeTyped ==
  ASSUME TypeOK, PendingCounts', [Next]_vars
  PROVE  scope' \in [pending : Nat, done : BOOLEAN]
<1>1. scope'.pending \in Nat
  BY CountsAreNat DEF PendingCounts
<1>2. scope' = scope \/ \E n : Observed(n) \/ Released(n)
  BY StepsKeep
<1>3. \E n, d : scope' = [pending |-> n, done |-> d] /\ d \in BOOLEAN
  BY <1>2 DEF TypeOK, Observed, Released
<1> QED BY <1>1, <1>3

LEMMA ExchangeTyped ==
  ASSUME TypeOK, PartsFollowFiles, [Next]_vars
  PROVE  exchange' \in [Exchanges -> Exchange]
<1>1. exchange \in [Exchanges -> Exchange]
  BY DEF TypeOK
<1>2. ASSUME NEW e \in Exchanges, OfTransport(e) \/ OfBody(e)
      PROVE  exchange' \in [Exchanges -> Exchange]
  BY <1>1, <1>2, TransportMoves, BodyMoves DEF Change
<1>3. ASSUME NEW reached, NEW unreadAnswer \in BOOLEAN, Finally(reached, unreadAnswer)
      PROVE  exchange' \in [Exchanges -> Exchange]
  <2>1. exchange' = [e \in Exchanges |-> exchange'[e]] /\ Proof(reached) \in BOOLEAN
    BY <1>3 DEF Finally, Proof, hasStoppedUploading, stop
  <2>2. ASSUME NEW e \in Exchanges
        PROVE  exchange'[e] \in Exchange
    <3>1. PICK call \in {exchange[e], [exchange[e] EXCEPT !.stage = "dead"]} :
             exchange'[e] = TornDown(call, Proof(reached))
      BY <1>3, FinallyEach
    <3>2. call \in Exchange
      BY <1>1, <3>1 DEF Exchange
    <3> QED BY <2>1, <3>1, <3>2 DEF TornDown, Cancelled, Exchange
  <2> QED BY <2>1, <2>2
<1>4. CASE Fetch \/ Malformed \/ AnswerCancelled
           \/ (\E e \in Exchanges : Reuse(e)) \/ (\E o \in Others : OtherEnds(o))
           \/ (\E o \in Others, s \in Sockets : OtherSends(o, s)) \/ UNCHANGED vars
  BY <1>1, <1>4 DEF Fetch, Malformed, AnswerCancelled, Reuse, OtherEnds, OtherSends, vars
<1> QED BY <1>2, <1>3, <1>4 DEF Next, OfTransport, OfBody

LEMMA DestroysSockets ==
  ASSUME TypeOK, NEW reached
  PROVE  Destroys(reached) \subseteq Sockets
<1>1. \A e \in Exchanges : Seen(reached)[e].socket = requests[e].socket
  BY DEF Seen, Stopped, TypeOK, NativeUpload
<1> QED BY <1>1 DEF Destroys, Owned, Unstopped, Captured, TypeOK, NativeUpload

LEMMA TypePreserved ==
  ASSUME TypeOK, PendingCounts, UnderWay, PartsFollowFiles, [Next]_vars
  PROVE  TypeOK'
<1>1. scope' \in [pending : Nat, done : BOOLEAN] /\ exchange' \in [Exchanges -> Exchange]
  BY CountsPreserved, ScopeTyped, ExchangeTyped
<1> DEFINE UploadTyped ==
             /\ via \in Transports
             /\ stage \in {"idle", "fetching", "done"}
             /\ closed \in BOOLEAN /\ unread \in BOOLEAN
           TransportTyped ==
             /\ carries \in [Sockets -> SUBSET (Exchanges \cup Others)]
             /\ destroyed \subseteq Sockets
             /\ other \in [Others -> {"waiting", "running", "ended", "harmed"}]
           ObserverTyped ==
             /\ observing \in BOOLEAN /\ observationsValid \in BOOLEAN
             /\ requests \in [Exchanges -> NativeUpload]
             /\ owner \in [Sockets -> Exchanges \cup Others \cup {None}]
<1>2. UploadTyped /\ TransportTyped /\ ObserverTyped
  BY DEF TypeOK
<1>3. \A e \in Exchanges : Stopped(requests[e]) \in NativeUpload
  BY <1>2 DEF Stopped, NativeUpload
<1>4. ASSUME NEW reached, NEW unreadAnswer \in BOOLEAN, Finally(reached, unreadAnswer)
      PROVE  UploadTyped' /\ TransportTyped' /\ ObserverTyped'
  <2>1. UploadTyped'
    BY <1>2, <1>4 DEF Finally
  <2>2. carries' \in [Sockets -> SUBSET (Exchanges \cup Others)]
    BY <1>2, <1>4 DEF Finally
  <2>3. destroyed' \subseteq Sockets
    BY <1>2, <1>4, DestroysSockets DEF Finally, Gone, Lost
  <2>4. other' \in [Others -> {"waiting", "running", "ended", "harmed"}]
    BY <1>2, <1>4 DEF Finally
  <2>5. ObserverTyped'
    BY <1>2, <1>4 DEF Finally, Nothing, Nobody, Unseen, NativeUpload
  <2> QED BY <2>1, <2>2, <2>3, <2>4, <2>5
<1>5. ASSUME NEW e \in Exchanges, OfTransport(e)
      PROVE  UploadTyped' /\ TransportTyped' /\ ObserverTyped'
  <2>1. CASE Create(e)
    <3>1. UNCHANGED <<upload, transport, observing, observationsValid, owner>>
          /\ requests' = [requests EXCEPT ![e].captured = Undici /\ observing]
      BY <2>1 DEF Create
    <3>2. requests' \in [Exchanges -> NativeUpload]
      <4>1. PICK heard \in BOOLEAN : requests' = [requests EXCEPT ![e].captured = heard]
        BY <1>2, <3>1 DEF Undici
      <4>2. [requests[e] EXCEPT !.captured = heard] \in NativeUpload
        BY <1>2 DEF NativeUpload
      <4> QED BY <1>2, <4>1, <4>2
    <3> QED BY <1>2, <3>1, <3>2 DEF upload, transport
  <2>2. CASE Connect(e)
    BY <1>2, <2>2 DEF Connect, upload, transport, observer
  <2>3. CASE Flush(e)
    BY <1>2, <1>3, <2>3 DEF Flush, upload, transport
  <2>4. ASSUME NEW call, Dies(e, call)
        PROVE  UploadTyped' /\ TransportTyped' /\ ObserverTyped'
    BY <1>2, <1>3, <2>4 DEF Dies, Without, Lost, upload
  <2>5. ASSUME NEW s \in Sockets, NEW published \in BOOLEAN, SendHeaders(e, s, published)
        PROVE  UploadTyped' /\ TransportTyped' /\ ObserverTyped'
    <3>1. UploadTyped'
      BY <1>2, <2>5 DEF SendHeaders, upload
    <3>2. TransportTyped'
      BY <1>2, <2>5 DEF SendHeaders, TakesHeaders
    <3>3. requests' \in [Exchanges -> NativeUpload]
      <4>1. requests' \in {requests, [requests EXCEPT ![e].socket = s, ![e].stream = published /\ via = "http2"]}
        BY <2>5 DEF SendHeaders
      <4> QED BY <1>2, <4>1 DEF NativeUpload
    <3>4. /\ owner' \in [Sockets -> Exchanges \cup Others \cup {None}]
          /\ observing' = observing /\ observationsValid' = observationsValid
      BY <1>2, <2>5 DEF SendHeaders, TakesHeaders
    <3> QED BY <1>2, <3>1, <3>2, <3>3, <3>4
  <2>6. CASE Dispatch(e)
    BY <1>2, <2>6 DEF Dispatch, upload, transport, observer
  <2> QED BY <1>5, <2>1, <2>2, <2>3, <2>4, <2>5, <2>6 DEF OfTransport, TransportFails, EncoderFails, StreamRefused
<1>6. ASSUME NEW e \in Exchanges, OfBody(e)
      PROVE  UploadTyped' /\ TransportTyped' /\ ObserverTyped'
  BY <1>2, <1>6 DEF OfBody, OpenStream, Pull, ReadAfterFinish, ReadChunk, ReadDone, ReadFails, Completes,
                    ConsumerCancels, CancelSettles, PipelineEnds, upload, transport, observer
<1> DEFINE Typed == UploadTyped /\ TransportTyped /\ ObserverTyped
<1>7. ASSUME UNCHANGED vars
      PROVE  Typed'
  BY <1>2, <1>7 DEF vars, upload, transport, observer
<1>8. ASSUME Fetch
      PROVE  Typed'
  BY <1>2, <1>8 DEF Fetch, transport
<1>9. ASSUME Malformed \/ AnswerCancelled
      PROVE  Typed'
  BY <1>2, <1>9 DEF Malformed, AnswerCancelled, upload, transport, observer
<1>10. ASSUME NEW e \in Exchanges, Reuse(e)
       PROVE  Typed'
  BY <1>2, <1>10 DEF Reuse, Without, upload, observer
<1>11. ASSUME NEW o \in Others, OtherEnds(o)
       PROVE  Typed'
  BY <1>2, <1>11 DEF OtherEnds, Without, upload, observer
<1>12. ASSUME NEW o \in Others, NEW s \in Sockets, OtherSends(o, s)
       PROVE  Typed'
  BY <1>2, <1>12 DEF OtherSends, TakesHeaders, upload
<1>13. Typed'
  <2> QED
    <3> HIDE DEF UploadTyped, TransportTyped, ObserverTyped
    <3> QED BY <1>4, <1>5, <1>6, <1>7, <1>8, <1>9, <1>10, <1>11, <1>12, Kinds
<1> QED BY <1>1, <1>13 DEF TypeOK

LEMMA UnderWayPreserved ==
  ASSUME TypeOK, UnderWay, [Next]_vars
  PROVE  UnderWay'
<1> DEFINE Observes ==
             /\ observing <=> stage = "fetching"
             /\ closed <=> stage = "done"
             /\ ~ observing => requests = Nothing /\ owner = Nobody
             /\ unread => stage = "done"
           Begins == stage = "idle" => \A e \in Exchanges : exchange[e] = Unsent
           Ends == closed => \A e \in Exchanges : exchange[e].source # "reading"
           Good == Observes /\ Begins /\ Ends
<1>1. Observes /\ Begins /\ Ends
  BY DEF UnderWay, Files
<1>2. /\ exchange \in [Exchanges -> Exchange] /\ requests \in [Exchanges -> NativeUpload]
      /\ observing \in BOOLEAN /\ closed \in BOOLEAN
  BY DEF TypeOK
<1>3. ASSUME NEW reached, NEW unreadAnswer \in BOOLEAN, Finally(reached, unreadAnswer)
      PROVE  Good'
  <2>1. Observes' /\ Begins'
    BY <1>3 DEF Finally
  <2>2. ASSUME NEW e \in Exchanges
        PROVE  exchange'[e].source # "reading"
    <3>1. PICK call \in {exchange[e], [exchange[e] EXCEPT !.stage = "dead"]} :
             exchange'[e] = TornDown(call, Proof(reached))
      BY <1>3, FinallyEach
    <3>2. call \in Exchange
      BY <1>2, <3>1 DEF Exchange
    <3> QED BY <3>1, <3>2 DEF TornDown, Cancelled, Exchange
  <2> QED BY <2>1, <2>2
<1>4. ASSUME NEW e \in Exchanges, OfTransport(e)
      PROVE  Good'
  <2>1. stage # "idle"
    <3>1. stage # "idle" \/ exchange[e].stage \in {"created", "sending"}
      BY <1>4 DEF OfTransport, Dispatch, Create, Connect, TransportFails, Flush, EncoderFails, StreamRefused,
                  SendHeaders, Alive
    <3>2. Unsent.stage = "none"
      BY DEF Unsent
    <3> QED BY <1>1, <3>1, <3>2
  <2>2. stage' = stage /\ closed' = closed /\ observing' = observing /\ unread' = unread
    BY <1>4 DEF OfTransport, Dispatch, Create, Connect, TransportFails, Flush, EncoderFails, StreamRefused, SendHeaders,
                TakesHeaders, Dies, upload, observer
  <2>3. Ends'
    <3>1. exchange'[e].source = exchange[e].source /\ \A f \in Exchanges \ {e} : exchange'[f] = exchange[f]
      <4>1. CASE Create(e)
        BY <1>2, <4>1 DEF Create, Change, Exchange
      <4>2. CASE Connect(e)
        BY <1>2, <4>2 DEF Connect, Change, Exchange
      <4>3. CASE Flush(e)
        BY <1>2, <4>3 DEF Flush, Change, Exchange
      <4>4. CASE TransportFails(e)
        BY <1>2, <4>4 DEF TransportFails, Dies, Change, Exchange
      <4>5. CASE EncoderFails(e)
        BY <1>2, <4>5 DEF EncoderFails, Dies, Change, Exchange
      <4>6. CASE StreamRefused(e)
        BY <1>2, <4>6 DEF StreamRefused, Dies, Change, Exchange
      <4>7. ASSUME NEW s \in Sockets, NEW published \in BOOLEAN, SendHeaders(e, s, published)
            PROVE  exchange'[e].source = exchange[e].source /\ \A f \in Exchanges \ {e} : exchange'[f] = exchange[f]
        BY <1>2, <4>7 DEF SendHeaders, Change, Exchange
      <4>8. CASE Dispatch(e)
        BY <1>2, <4>8 DEF Dispatch, Change, Exchange
      <4> QED BY <1>4, <4>1, <4>2, <4>3, <4>4, <4>5, <4>6, <4>7, <4>8 DEF OfTransport
    <3> QED BY <1>1, <2>2, <3>1
  <2>4. ~ observing => requests' = Nothing /\ owner' = Nobody
    <3> SUFFICES ASSUME ~ observing PROVE requests' = Nothing /\ owner' = Nobody
      OBVIOUS
    <3>1. requests = Nothing /\ owner = Nobody /\ ~ requests[e].captured
      BY <1>1 DEF Nothing, Unseen
    <3>2. Stopped(Unseen) = Unseen /\ [Unseen EXCEPT !.captured = FALSE] = Unseen
      <4>1. Unseen.captured = FALSE /\ Unseen.stopped = FALSE
        BY DEF Unseen
      <4>2. Unseen = [f \in {"captured", "stopped", "socket", "stream"} |-> Unseen[f]]
        BY DEF Unseen
      <4> QED BY <4>1, <4>2 DEF Stopped
    <3>3. \A g : g = Unseen => [Nothing EXCEPT ![e] = g] = Nothing
      BY DEF Nothing
    <3>4. CASE Create(e)
      BY <3>1, <3>2, <3>3, <3>4 DEF Create, Nothing
    <3>5. CASE Connect(e) \/ Dispatch(e)
      BY <3>1, <3>5 DEF Connect, Dispatch, observer
    <3>6. ASSUME requests' = [requests EXCEPT ![e] = Stopped(@)], owner' = owner
          PROVE  requests' = Nothing /\ owner' = Nobody
      BY <3>1, <3>2, <3>3, <3>6 DEF Nothing
    <3>7. CASE Flush(e) \/ TransportFails(e) \/ EncoderFails(e) \/ StreamRefused(e)
      BY <3>6, <3>7 DEF Flush, TransportFails, EncoderFails, StreamRefused, Dies
    <3>8. ASSUME NEW s \in Sockets, NEW published \in BOOLEAN, SendHeaders(e, s, published)
          PROVE  requests' = Nothing /\ owner' = Nobody
      BY <3>1, <3>8 DEF SendHeaders, TakesHeaders
    <3> QED BY <1>4, <3>4, <3>5, <3>7, <3>8 DEF OfTransport
  <2> QED BY <1>1, <2>1, <2>2, <2>3, <2>4
<1>5. ASSUME NEW e \in Exchanges, OfBody(e)
      PROVE  Good'
  <2>1. stage # "idle"
    <3>1. \/ exchange[e].part = "unstarted" /\ Alive(e)
          \/ exchange[e].part = "flowing" \/ exchange[e].pulling
          \/ exchange[e].source # "unopened" \/ exchange[e].piped
      <4>1. CASE PipelineEnds(e)
        BY <4>1 DEF PipelineEnds
      <4>2. CASE ~ PipelineEnds(e)
        BY <1>5, <4>2 DEF OfBody, OpenStream, Pull, ReadAfterFinish, ReadChunk, ReadDone, ReadFails, Completes,
                          ConsumerCancels, CancelSettles
      <4> QED BY <4>1, <4>2
    <3>2. stage = "idle" => exchange[e] = Unsent
      BY <1>1
    <3> QED BY <3>1, <3>2 DEF Unsent, Alive
  <2>2. UNCHANGED <<stage, closed, unread, observing, requests, owner>>
    BY <1>5 DEF OfBody, OpenStream, Pull, ReadAfterFinish, ReadChunk, ReadDone, ReadFails, Completes,
                ConsumerCancels, CancelSettles, PipelineEnds, upload, observer
  <2>3. CASE OpenStream(e)
    BY <1>1, <2>1, <2>2, <2>3 DEF OpenStream, RefusesStream
  <2>4. CASE ~ OpenStream(e)
    <3>1. exchange'[e].source \in {exchange[e].source, "cancelling", "settled"}
          /\ \A f \in Exchanges \ {e} : exchange'[f] = exchange[f]
      <4>1. CASE Pull(e)
        BY <1>2, <4>1 DEF Pull, Change, Exchange
      <4>2. CASE ReadAfterFinish(e)
        BY <1>2, <4>2 DEF ReadAfterFinish, Change, Exchange
      <4>3. CASE ReadChunk(e)
        BY <1>2, <4>3 DEF ReadChunk, Change, Exchange
      <4>4. CASE ReadDone(e) \/ ReadFails(e)
        BY <1>2, <4>4 DEF ReadDone, ReadFails, Completes, Change, Exchange
      <4>5. CASE ConsumerCancels(e)
        BY <1>2, <4>5 DEF ConsumerCancels, Cancelled, Change, Exchange
      <4>6. CASE CancelSettles(e)
        BY <1>2, <4>6 DEF CancelSettles, Change, Exchange
      <4>7. CASE PipelineEnds(e)
        BY <1>2, <4>7 DEF PipelineEnds, Change, Exchange
      <4> QED BY <1>5, <2>4, <4>1, <4>2, <4>3, <4>4, <4>5, <4>6, <4>7 DEF OfBody
    <3>2. Ends'
      BY <1>1, <2>2, <3>1
    <3> QED BY <1>1, <2>1, <2>2, <3>2
  <2> QED BY <2>3, <2>4
<1>6. ASSUME UNCHANGED vars
      PROVE  Good'
  BY <1>1, <1>6 DEF vars, upload, observer
<1>7. ASSUME Fetch
      PROVE  Good'
  BY <1>1, <1>7 DEF Fetch
<1>8. ASSUME Malformed \/ AnswerCancelled
      PROVE  Good'
  BY <1>1, <1>8 DEF Malformed, AnswerCancelled, upload, observer
<1>9. ASSUME \/ \E e \in Exchanges : Reuse(e)
             \/ \E o \in Others : OtherEnds(o)
      PROVE  Good'
  BY <1>1, <1>9 DEF Reuse, OtherEnds, upload, observer
<1>10. ASSUME NEW o \in Others, NEW s \in Sockets, OtherSends(o, s)
       PROVE  Good'
  BY <1>1, <1>10 DEF OtherSends, TakesHeaders, upload
<1>11. Good'
  <2> QED
    <3> HIDE DEF Good
    <3> QED BY <1>3, <1>4, <1>5, <1>6, <1>7, <1>8, <1>9, <1>10, Kinds
<1> QED BY <1>11 DEF UnderWay, Files

(* When the transport is said to have stopped, whoever still reads its     *)
(* part cannot send any more.                                              *)
LEMMA ProofIsSound ==
  ASSUME TypeOK, UnderWay, PartsFollowFiles, SocketsCarry, ObservedIdentify,
         NEW reached, stage = "fetching", Proof(reached),
         NEW e \in Exchanges, exchange[e].source = "reading", Alive(e)
  PROVE  e \in reached \cup Resets(reached)
<1> DEFINE seen == Seen(reached)
           gone == Gone(reached)
           socket == requests[e].socket
<1>1. CASE hasStoppedUploading(reached)
  BY <1>1 DEF hasStoppedUploading, Alive
<1>2. CASE stop(seen, gone) /\ e \notin reached
  <2>1. seen[e] = requests[e] /\ \A f \in Exchanges : seen[f].captured = requests[f].captured
    BY <1>2 DEF Seen, Stopped, TypeOK, NativeUpload
  <2>2. Undici
    BY <1>2, <2>1 DEF stop, Usable, Captured, ObservedIdentify
  <2>3. observing /\ exchange[e].stage # "none" /\ requests[e].captured
    BY <2>2 DEF UnderWay, Alive, ObservedIdentify
  <2>4. HasStopped(requests[e], gone) /\ Usable(seen)
    BY <1>2, <2>1, <2>3 DEF stop, Captured
  <2>5. ~ requests[e].stopped
    BY DEF ObservedIdentify, Alive
  <2>6. CASE requests[e].stream
    BY <2>1, <2>4, <2>6 DEF Resets
  <2>7. CASE ~ requests[e].stream
    <3>1. socket # None /\ (socket \in gone \/ via = "http1")
      BY <2>4, <2>5, <2>7 DEF HasStopped
    <3>2. exchange[e].stage = "sending" /\ socket \in Sockets /\ e \in carries[socket]
          /\ (via = "http1" => owner[socket] = e)
      BY <2>3, <3>1 DEF ObservedIdentify, Alive
    <3>3. CASE socket \in destroyed
      BY <3>2, <3>3 DEF SocketsCarry
    <3>4. CASE socket \in Lost(reached)
      BY <3>2, <3>4 DEF Lost, SocketsCarry
    <3>5. CASE socket \notin gone
      <4>1. via = "http1" /\ e \in Unstopped(seen, gone) /\ seen[e].socket = socket
        BY <2>1, <2>3, <2>5, <2>7, <3>1, <3>5 DEF Unstopped, Captured
      <4>2. socket \in Owned(seen, gone)
        BY <3>2, <4>1 DEF Owned
      <4>3. socket \in Destroys(reached)
        BY <2>4, <4>2 DEF Destroys
      <4> QED BY <2>4, <3>2, <4>3 DEF Resets, CarriedBy
    <3> QED BY <3>3, <3>4, <3>5 DEF Gone
  <2> QED BY <2>6, <2>7
<1> QED BY <1>1, <1>2 DEF Proof

(* Teardown destroys no socket that carries another request.               *)
LEMMA OnlyOwnSockets ==
  ASSUME TypeOK, SocketsCarry, NEW reached, NEW o \in Others
  PROVE  o \notin CarriedBy(Destroys(reached))
<1> SUFFICES ASSUME NEW s \in Destroys(reached), o \in carries[s]
             PROVE  FALSE
  BY DEF CarriedBy
<1>1. s \in Sockets
  BY DestroysSockets
<1>2. via = "http1" /\ \E f \in Exchanges : owner[s] = f
  BY DEF Destroys, Owned, Unstopped, Captured
<1> QED BY <1>1, <1>2, UploadAssumption DEF SocketsCarry

(* What PartsFollowFiles and NoTruncatedBody say of one exchange.          *)
Follows(call) ==
  /\ call.source = "reading" <=> call.part = "flowing"
  /\ call.part = "unstarted" => call.source = "unopened"
  /\ call.stage = "none" => call.part = "unstarted" /\ ~ call.piped
  /\ call.part = "ended" /\ call.read # Size => call.stage \notin {"created", "sending"}
  /\ call.body # "truncated"

LEMMA PartsPreserved ==
  ASSUME TypeOK, UnderWay, PartsFollowFiles, SocketsCarry, ObservedIdentify, NoTruncatedBody, [Next]_vars
  PROVE  PartsFollowFiles' /\ NoTruncatedBody'
<1>1. exchange \in [Exchanges -> Exchange] /\ \A e \in Exchanges : Follows(exchange[e])
  BY DEF TypeOK, PartsFollowFiles, NoTruncatedBody, Follows, Alive
<1>2. ASSUME NEW e \in Exchanges, NEW call, Change(e, call), Follows(call)
      PROVE  \A f \in Exchanges : Follows(exchange'[f])
  BY <1>1, <1>2 DEF Change
<1>3. ASSUME NEW e \in Exchanges, OfTransport(e)
      PROVE  \A f \in Exchanges : Follows(exchange'[f])
  <2>1. exchange[e] \in Exchange /\ Follows(exchange[e])
    BY <1>1
  <2>2. CASE Create(e)
    BY <1>2, <2>1, <2>2 DEF Create, Follows, Exchange
  <2>3. CASE Connect(e)
    BY <1>2, <2>1, <2>3 DEF Connect, Follows, Exchange
  <2>4. CASE Flush(e)
    BY <1>2, <2>1, <2>4 DEF Flush, Follows, Exchange
  <2>5. CASE TransportFails(e) \/ EncoderFails(e)
    BY <1>2, <2>1, <2>5 DEF TransportFails, EncoderFails, Dies, Follows, Exchange
  <2>6. CASE StreamRefused(e)
    BY <1>2, <2>1, <2>6 DEF StreamRefused, Dies, Follows, Exchange
  <2>7. ASSUME NEW s \in Sockets, NEW published \in BOOLEAN, SendHeaders(e, s, published)
        PROVE  \A f \in Exchanges : Follows(exchange'[f])
    BY <1>2, <2>1, <2>7 DEF SendHeaders, Follows, Exchange
  <2>8. CASE Dispatch(e)
    BY <1>2, <2>1, <2>8 DEF Dispatch, Follows, Exchange
  <2> QED BY <1>3, <2>2, <2>3, <2>4, <2>5, <2>6, <2>7, <2>8 DEF OfTransport
<1>4. ASSUME NEW e \in Exchanges, OfBody(e)
      PROVE  \A f \in Exchanges : Follows(exchange'[f])
  <2>1. exchange[e] \in Exchange /\ Follows(exchange[e])
    BY <1>1
  <2>2. CASE OpenStream(e)
    BY <1>2, <2>1, <2>2 DEF OpenStream, Follows, Exchange, Alive
  <2>3. CASE Pull(e)
    BY <1>2, <2>1, <2>3 DEF Pull, Follows, Exchange
  <2>4. CASE ReadAfterFinish(e)
    BY <1>2, <2>1, <2>4 DEF ReadAfterFinish, Follows, Exchange
  <2>5. CASE ReadChunk(e)
    BY <1>2, <2>1, <2>5 DEF ReadChunk, Follows, Exchange
  <2>6. CASE ReadDone(e)
    BY <1>2, <2>1, <2>6 DEF ReadDone, Completes, Follows, Exchange
  <2>7. CASE ReadFails(e)
    BY <1>2, <2>1, <2>7 DEF ReadFails, Completes, Follows, Exchange
  <2>8. CASE ConsumerCancels(e)
    BY <1>2, <2>1, <2>8 DEF ConsumerCancels, Cancelled, Follows, Exchange
  <2>9. CASE CancelSettles(e)
    BY <1>2, <2>1, <2>9 DEF CancelSettles, Follows, Exchange
  <2>10. CASE PipelineEnds(e)
    BY <1>2, <2>1, <2>10 DEF PipelineEnds, Follows, Exchange
  <2> QED BY <1>4, <2>2, <2>3, <2>4, <2>5, <2>6, <2>7, <2>8, <2>9, <2>10 DEF OfBody
<1>5. ASSUME NEW reached, NEW unreadAnswer \in BOOLEAN, Finally(reached, unreadAnswer), NEW e \in Exchanges
      PROVE  Follows(exchange'[e])
  <2> DEFINE left == Left(e, reached \cup Resets(reached))
  <2>1. exchange'[e] = TornDown(left, Proof(reached)) /\ stage = "fetching"
    BY <1>5 DEF Finally
  <2>2. /\ left \in Exchange /\ Follows(left) /\ left.source = exchange[e].source
        /\ e \in reached \cup Resets(reached) => left.stage = "dead"
        /\ e \notin reached \cup Resets(reached) => left = exchange[e]
    BY <1>1 DEF Left, Follows, Exchange
  <2>3. left.source = "reading" /\ Proof(reached) => left.stage \notin {"created", "sending"}
    <3>1. exchange[e].source = "reading" /\ Proof(reached) /\ Alive(e) => e \in reached \cup Resets(reached)
      BY <2>1, ProofIsSound
    <3> HIDE DEF left
    <3> QED BY <2>2, <3>1 DEF Alive
  <2>4. Follows(TornDown(left, Proof(reached)))
    <3> HIDE DEF left
    <3> QED BY <2>2, <2>3 DEF TornDown, Cancelled, Follows, Exchange
  <2> QED BY <2>1, <2>4
<1>6. ASSUME \/ Fetch \/ Malformed \/ AnswerCancelled \/ UNCHANGED vars
             \/ \E e \in Exchanges : Reuse(e)
             \/ \E o \in Others : OtherEnds(o) \/ \E s \in Sockets : OtherSends(o, s)
      PROVE  \A e \in Exchanges : Follows(exchange'[e])
  BY <1>1, <1>6 DEF Fetch, Malformed, AnswerCancelled, vars, Reuse, OtherEnds, OtherSends
<1>7. \A e \in Exchanges : Follows(exchange'[e])
  BY <1>3, <1>4, <1>5, <1>6 DEF Next, OfTransport, OfBody
<1> QED BY <1>7 DEF PartsFollowFiles, NoTruncatedBody, Follows, Alive

LEMMA SocketsPreserved ==
  ASSUME TypeOK, UnderWay, SocketsCarry, OthersUnharmed, [Next]_vars
  PROVE  SocketsCarry' /\ OthersUnharmed'
<1> DEFINE Carries ==
      \A s \in Sockets :
        /\ via # "http2" => \A a, b \in carries[s] : a = b
        /\ s \in destroyed => carries[s] = {}
        /\ \A o \in Others : o \in carries[s] => owner[s] \in {o, None} \/ via = "http2"
<1>1. /\ Carries /\ carries \in [Sockets -> SUBSET (Exchanges \cup Others)]
      /\ owner \in [Sockets -> Exchanges \cup Others \cup {None}]
      /\ via' = via
  BY StepsKeep DEF SocketsCarry, TypeOK
<1>2. ASSUME NEW reached, NEW unreadAnswer \in BOOLEAN, Finally(reached, unreadAnswer)
      PROVE  Carries' /\ OthersUnharmed'
  <2>1. Carries'
    BY <1>1, <1>2 DEF Finally, Nobody
  <2>2. OthersUnharmed'
    BY <1>2, OnlyOwnSockets DEF Finally, OthersUnharmed
  <2> QED BY <2>1, <2>2
<1>3. ASSUME NEW e \in Exchanges, NEW call, Dies(e, call)
      PROVE  Carries' /\ OthersUnharmed'
  BY <1>1, <1>3 DEF Dies, Without, Lost, OthersUnharmed, upload
<1>4. ASSUME NEW s \in Sockets, NEW request \in Exchanges \cup Others, Takes(s), TakesHeaders(s, request)
      PROVE  Carries'
  <2>1. CASE observing
    BY <1>1, <1>4, <2>1, UploadAssumption DEF Takes, TakesHeaders
  <2>2. CASE ~ observing
    BY <1>1, <1>4, <2>2, UploadAssumption DEF Takes, TakesHeaders, UnderWay, Nobody
  <2> QED BY <2>1, <2>2 DEF TypeOK
<1>5. ASSUME NEW e \in Exchanges, OfTransport(e)
      PROVE  Carries' /\ OthersUnharmed'
  <2>1. CASE Dispatch(e) \/ Create(e) \/ Connect(e) \/ Flush(e)
    BY <1>1, <2>1 DEF Dispatch, Create, Connect, Flush, transport, observer, OthersUnharmed
  <2>2. ASSUME NEW s \in Sockets, NEW published \in BOOLEAN, SendHeaders(e, s, published)
        PROVE  Carries' /\ OthersUnharmed'
    BY <1>4, <2>2 DEF SendHeaders, OthersUnharmed
  <2>3. CASE TransportFails(e) \/ EncoderFails(e) \/ StreamRefused(e)
    BY <1>3, <2>3 DEF TransportFails, EncoderFails, StreamRefused
  <2> QED
    <3> HIDE DEF Carries
    <3> QED BY <1>5, <2>1, <2>2, <2>3 DEF OfTransport
<1>6. ASSUME NEW e \in Exchanges, OfBody(e)
      PROVE  Carries' /\ OthersUnharmed'
  <2>1. UNCHANGED <<transport, owner>>
    BY <1>6 DEF OfBody, OpenStream, Pull, ReadAfterFinish, ReadChunk, ReadDone, ReadFails, Completes,
                ConsumerCancels, CancelSettles, PipelineEnds, transport, observer
  <2> QED BY <1>1, <2>1 DEF transport, OthersUnharmed
<1>7. ASSUME Fetch \/ Malformed \/ AnswerCancelled \/ UNCHANGED vars
      PROVE  Carries' /\ OthersUnharmed'
  <2>1. UNCHANGED transport /\ (owner' = owner)
    BY <1>7 DEF Fetch, Malformed, AnswerCancelled, vars, observer
  <2> QED BY <1>1, <2>1 DEF transport, OthersUnharmed
<1>8. ASSUME NEW e \in Exchanges, Reuse(e)
      PROVE  Carries' /\ OthersUnharmed'
  BY <1>1, <1>8 DEF Reuse, Without, observer, OthersUnharmed
<1>9. ASSUME NEW o \in Others, OtherEnds(o)
      PROVE  Carries' /\ OthersUnharmed'
  BY <1>1, <1>9 DEF OtherEnds, Without, observer, OthersUnharmed
<1>10. ASSUME NEW o \in Others, NEW s \in Sockets, OtherSends(o, s)
       PROVE  Carries' /\ OthersUnharmed'
  BY <1>4, <1>10 DEF OtherSends, OthersUnharmed, TypeOK
<1>11. Carries' /\ OthersUnharmed'
  <2> HIDE DEF Carries
  <2> QED BY <1>2, <1>5, <1>6, <1>7, <1>8, <1>9, <1>10, Kinds
<1> QED BY <1>11 DEF SocketsCarry

LEMMA IdentifyPreserved ==
  ASSUME TypeOK, UnderWay, ObservedIdentify, [Next]_vars
  PROVE  ObservedIdentify'
<1> DEFINE Known(e) ==
             /\ observing /\ Undici /\ exchange[e].stage # "none" => requests[e].captured
             /\ requests[e].captured => Undici
             /\ requests[e].socket # None => requests[e].captured /\ exchange[e].stage \notin {"none", "created"}
             /\ requests[e].stopped => exchange[e].stage \in {"sent", "dead"}
           OnSocket(e) ==
             requests[e].captured /\ exchange[e].stage = "sending" =>
               /\ requests[e].socket \in Sockets /\ e \in carries[requests[e].socket]
               /\ via = "http1" => owner[requests[e].socket] = e
           Good == \A e \in Exchanges : Known(e) /\ OnSocket(e)
<1>1. \A e \in Exchanges : Known(e) /\ OnSocket(e)
  BY DEF ObservedIdentify
<1>2. /\ exchange \in [Exchanges -> Exchange] /\ requests \in [Exchanges -> NativeUpload]
      /\ carries \in [Sockets -> SUBSET (Exchanges \cup Others)]
      /\ owner \in [Sockets -> Exchanges \cup Others \cup {None}]
      /\ observing \in BOOLEAN
  BY DEF TypeOK
<1>3. via' = via
  BY StepsKeep
<1>4. ASSUME NEW reached, NEW unreadAnswer \in BOOLEAN, Finally(reached, unreadAnswer)
      PROVE  Good'
  BY <1>4 DEF Finally, Nothing, Unseen
<1>5. ASSUME NEW e \in Exchanges, NEW call \in Exchange, Alive(e), Dies(e, call)
      PROVE  Good'
  <2>1. Known(e)' /\ OnSocket(e)'
    <3>1. exchange'[e].stage = "dead" /\ requests'[e] = Stopped(requests[e]) /\ observing' = observing
      BY <1>2, <1>5 DEF Dies, Change, Exchange
    <3>2. /\ exchange[e].stage # "none"
          /\ requests'[e].captured = requests[e].captured /\ requests'[e].socket = requests[e].socket
      BY <1>2, <1>5, <3>1 DEF NativeUpload, Stopped, Alive
    <3> QED BY <1>1, <1>3, <3>1, <3>2 DEF Undici
  <2>2. ASSUME NEW f \in Exchanges \ {e}
        PROVE  Known(f)' /\ OnSocket(f)'
    BY <1>1, <1>2, <1>3, <1>5 DEF Dies, Change, Without, Undici
  <2> QED BY <2>1, <2>2
<1>6. ASSUME NEW s \in Sockets, NEW request \in Exchanges \cup Others, Takes(s), TakesHeaders(s, request),
             NEW f \in Exchanges, f # request, exchange'[f] = exchange[f], requests'[f] = requests[f]
      PROVE  Known(f)' /\ OnSocket(f)'
  <2>1. Known(f)'
    BY <1>1, <1>3, <1>6 DEF TakesHeaders, Undici
  <2>2. OnSocket(f)'
    <3> SUFFICES ASSUME requests[f].captured /\ exchange[f].stage = "sending"
                 PROVE  /\ requests[f].socket \in Sockets /\ f \in carries'[requests[f].socket]
                        /\ via = "http1" => owner'[requests[f].socket] = f
      BY <1>3, <1>6
    <3>1. /\ requests[f].socket \in Sockets /\ f \in carries[requests[f].socket]
          /\ via = "http1" => owner[requests[f].socket] = f
      BY <1>1
    <3>2. via = "http1" => requests[f].socket # s
      BY <1>6, <3>1 DEF Takes
    <3>3. f \in carries'[requests[f].socket]
      BY <1>2, <1>6, <3>1 DEF TakesHeaders
    <3>4. via = "http1" => owner'[requests[f].socket] = f
      BY <1>2, <1>6, <3>1, <3>2 DEF TakesHeaders
    <3> QED BY <3>1, <3>3, <3>4
  <2> QED BY <2>1, <2>2
<1>7. ASSUME NEW e \in Exchanges, NEW s \in Sockets, NEW published \in BOOLEAN, SendHeaders(e, s, published)
      PROVE  Good'
  <2>1. \A f \in Exchanges \ {e} : exchange'[f] = exchange[f] /\ requests'[f] = requests[f]
    BY <1>2, <1>7 DEF SendHeaders, Change
  <2>2. \A f \in Exchanges \ {e} : Known(f)' /\ OnSocket(f)'
    <3> HIDE DEF Known, OnSocket
    <3> QED BY <1>6, <1>7, <2>1 DEF SendHeaders
  <2>3. exchange'[e].stage = "sending" /\ exchange[e].stage = "created" /\ observing' = observing
    BY <1>2, <1>7 DEF SendHeaders, TakesHeaders, Change, Exchange
  <2>4. CASE requests[e].captured
    <3>1. requests'[e].captured /\ requests'[e].stopped = requests[e].stopped /\ requests'[e].socket = s
      BY <1>2, <1>7, <2>4 DEF SendHeaders, NativeUpload
    <3>2. observing
      BY <2>4 DEF UnderWay, Nothing, Unseen
    <3>3. e \in carries'[s] /\ owner'[s] = e
      BY <1>2, <1>7, <3>2 DEF SendHeaders, TakesHeaders
    <3>4. Known(e)' /\ OnSocket(e)'
      BY <1>1, <1>3, <2>3, <2>4, <3>1, <3>3 DEF Undici
    <3> QED BY <2>2, <3>4
  <2>5. CASE ~ requests[e].captured
    <3>1. requests'[e] = requests[e]
      BY <1>7, <2>5 DEF SendHeaders
    <3>2. Known(e)' /\ OnSocket(e)'
      BY <1>1, <1>3, <2>3, <2>5, <3>1 DEF Undici
    <3> QED BY <2>2, <3>2
  <2> QED BY <2>4, <2>5
<1>8. ASSUME NEW e \in Exchanges, Create(e)
      PROVE  Good'
  <2>1. /\ exchange[e].stage = "none" /\ exchange'[e].stage = "created" /\ observing' = observing
        /\ carries' = carries /\ owner' = owner
        /\ requests'[e] = [requests[e] EXCEPT !.captured = Undici /\ observing]
        /\ \A f \in Exchanges \ {e} : exchange'[f] = exchange[f] /\ requests'[f] = requests[f]
    BY <1>2, <1>8 DEF Create, Change, transport, Exchange
  <2>2. requests'[e].captured = (Undici /\ observing) /\ requests'[e].socket = requests[e].socket
        /\ requests'[e].stopped = requests[e].stopped
    BY <1>2, <2>1 DEF NativeUpload
  <2>3. Known(e)' /\ OnSocket(e)'
    BY <1>1, <1>3, <2>1, <2>2 DEF Undici
  <2>4. \A f \in Exchanges \ {e} : Known(f)' /\ OnSocket(f)'
    BY <1>1, <1>3, <2>1 DEF Undici
  <2> QED BY <2>3, <2>4
<1>9. ASSUME NEW e \in Exchanges, Dispatch(e) \/ Connect(e)
      PROVE  Good'
  BY <1>1, <1>2, <1>3, <1>9 DEF Dispatch, Connect, Change, transport, observer, Exchange, Undici
<1>10. ASSUME NEW e \in Exchanges, Flush(e)
       PROVE  Good'
  <2>1. /\ exchange'[e].stage = "sent" /\ exchange[e].stage = "sending" /\ observing' = observing
        /\ carries' = carries /\ owner' = owner
        /\ requests'[e] = Stopped(requests[e])
        /\ \A f \in Exchanges \ {e} : exchange'[f] = exchange[f] /\ requests'[f] = requests[f]
    BY <1>2, <1>10 DEF Flush, Change, transport, Exchange
  <2>2. requests'[e].captured = requests[e].captured /\ requests'[e].socket = requests[e].socket
    BY <1>2, <2>1 DEF NativeUpload, Stopped
  <2>3. Known(e)' /\ OnSocket(e)'
    BY <1>1, <1>3, <2>1, <2>2 DEF Undici
  <2>4. \A f \in Exchanges \ {e} : Known(f)' /\ OnSocket(f)'
    BY <1>1, <1>3, <2>1 DEF Undici
  <2> QED BY <2>3, <2>4
<1>11. ASSUME NEW e \in Exchanges, TransportFails(e) \/ EncoderFails(e) \/ StreamRefused(e)
       PROVE  Good'
  <2>1. /\ exchange[e] \in Exchange /\ [exchange[e] EXCEPT !.part = "errored"] \in Exchange
        /\ [exchange[e] EXCEPT !.piped = FALSE] \in Exchange
    BY <1>2 DEF Exchange
  <2> HIDE DEF Good
  <2> QED BY <1>5, <1>11, <2>1 DEF TransportFails, EncoderFails, StreamRefused
<1>12. ASSUME NEW e \in Exchanges, OfBody(e)
       PROVE  Good'
  <2>1. UNCHANGED <<carries, observing, requests, owner>>
    BY <1>12 DEF OfBody, OpenStream, Pull, ReadAfterFinish, ReadChunk, ReadDone, ReadFails, Completes,
                 ConsumerCancels, CancelSettles, PipelineEnds, transport, observer
  <2>2. \A f \in Exchanges : exchange'[f].stage = exchange[f].stage
    <3>1. ASSUME NEW call, Change(e, call), call.stage = exchange[e].stage
          PROVE  \A f \in Exchanges : exchange'[f].stage = exchange[f].stage
      BY <1>2, <3>1 DEF Change
    <3>2. CASE OpenStream(e)
      BY <1>2, <3>1, <3>2 DEF OpenStream, Exchange
    <3>3. CASE Pull(e)
      BY <1>2, <3>1, <3>3 DEF Pull, Exchange
    <3>4. CASE ReadAfterFinish(e)
      BY <1>2, <3>1, <3>4 DEF ReadAfterFinish, Exchange
    <3>5. CASE ReadChunk(e)
      BY <1>2, <3>1, <3>5 DEF ReadChunk, Exchange
    <3>6. CASE ReadDone(e) \/ ReadFails(e)
      BY <1>2, <3>1, <3>6 DEF ReadDone, ReadFails, Completes, Exchange
    <3>7. CASE ConsumerCancels(e)
      BY <1>2, <3>1, <3>7 DEF ConsumerCancels, Cancelled, Exchange
    <3>8. CASE CancelSettles(e)
      BY <1>2, <3>1, <3>8 DEF CancelSettles, Exchange
    <3>9. CASE PipelineEnds(e)
      BY <1>2, <3>1, <3>9 DEF PipelineEnds, Exchange
    <3> QED BY <1>12, <3>2, <3>3, <3>4, <3>5, <3>6, <3>7, <3>8, <3>9 DEF OfBody
  <2> QED BY <1>1, <1>3, <2>1, <2>2 DEF Undici
<1>13. ASSUME Malformed \/ AnswerCancelled \/ UNCHANGED vars
       PROVE  Good'
  <2>1. UNCHANGED <<exchange, carries, observing, requests, owner>>
    BY <1>13 DEF Malformed, AnswerCancelled, vars, transport, observer
  <2> QED BY <1>1, <1>3, <2>1 DEF Undici
<1>14. ASSUME Fetch
       PROVE  Good'
  BY <1>1, <1>3, <1>14 DEF Fetch, transport, UnderWay, Unsent, Undici
<1>15. ASSUME NEW e \in Exchanges, Reuse(e)
       PROVE  Good'
  BY <1>1, <1>2, <1>3, <1>15 DEF Reuse, Without, observer, Undici
<1>16. ASSUME NEW o \in Others, OtherEnds(o)
       PROVE  Good'
  BY <1>1, <1>2, <1>3, <1>16, UploadAssumption DEF OtherEnds, Without, observer, Undici
<1>17. ASSUME NEW o \in Others, NEW s \in Sockets, OtherSends(o, s)
       PROVE  Good'
  <2>1. \A f \in Exchanges : f # o /\ exchange'[f] = exchange[f] /\ requests'[f] = requests[f]
    BY <1>17, UploadAssumption DEF OtherSends
  <2> HIDE DEF Known, OnSocket
  <2> QED BY <1>6, <1>17, <2>1 DEF OtherSends
<1>18. Good'
  <2> HIDE DEF Good
  <2> QED BY <1>4, <1>7, <1>8, <1>9, <1>10, <1>11, <1>12, <1>13, <1>14, <1>15, <1>16, <1>17, Kinds DEF OfTransport
<1> QED BY <1>18 DEF ObservedIdentify

-------------------------------------------------------------------------------
(* The operation is settled exactly when nothing is outstanding.           *)
Idle ==
  /\ stage = "done" /\ ~ unread
  /\ \A e \in Exchanges : /\ ~ exchange[e].pulling /\ ~ exchange[e].piped
                          /\ exchange[e].source \in {"unopened", "settled"}

LEMMA EmptySets ==
  ASSUME NEW S, S \subseteq Exchanges
  PROVE  Cardinality(S) \in Nat /\ (Cardinality(S) = 0 <=> S = {})
<1>1. IsFiniteSet(S)
  BY UploadAssumption, FS_Subset
<1> QED BY <1>1, FS_CardinalityType, FS_EmptySet

LEMMA NothingOutstanding ==
  ASSUME TypeOK, PendingCounts
  PROVE  scope.pending = 0 <=> Idle
<1> DEFINE files == Files({"reading", "cancelling"})
           cancels == Files({"cancelling"})
<1>1. /\ Cardinality(files) \in Nat /\ (Cardinality(files) = 0 <=> files = {})
      /\ Cardinality(cancels) \in Nat /\ (Cardinality(cancels) = 0 <=> cancels = {})
      /\ Cardinality(Pulls) \in Nat /\ (Cardinality(Pulls) = 0 <=> Pulls = {})
      /\ Cardinality(Pipes) \in Nat /\ (Cardinality(Pipes) = 0 <=> Pipes = {})
  <2>1. /\ files \subseteq Exchanges /\ cancels \subseteq Exchanges
        /\ Pulls \subseteq Exchanges /\ Pipes \subseteq Exchanges
    BY DEF Files, Pulls, Pipes
  <2> QED BY <2>1, EmptySets
<1>2. scope.pending = Base + Cardinality(files) + Cardinality(cancels) + Cardinality(Pulls) + Cardinality(Pipes)
  BY DEF PendingCounts, Base
<1>3. Base \in {0, 1} /\ (Base = 0 <=> stage = "done" /\ ~ unread)
  BY DEF Base
<1>4. scope.pending = 0 <=> Base = 0 /\ files = {} /\ cancels = {} /\ Pulls = {} /\ Pipes = {}
  <2> DEFINE a == Cardinality(files)
             b == Cardinality(cancels)
             c == Cardinality(Pulls)
             d == Cardinality(Pipes)
  <2>1. a \in Nat /\ b \in Nat /\ c \in Nat /\ d \in Nat /\ scope.pending = Base + a + b + c + d
    BY <1>1, <1>2
  <2>2. scope.pending = 0 <=> Base = 0 /\ a = 0 /\ b = 0 /\ c = 0 /\ d = 0
    <3> HIDE DEF a, b, c, d
    <3> QED BY <1>3, <2>1
  <2> HIDE DEF files, cancels
  <2> QED BY <1>1, <2>2
<1>5. files = {} <=> \A e \in Exchanges : exchange[e].source \in {"unopened", "settled"}
  BY DEF Files, TypeOK, Exchange
<1>6. files = {} => cancels = {}
  BY DEF Files
<1>7. Pulls = {} <=> \A e \in Exchanges : ~ exchange[e].pulling
  BY DEF Pulls
<1>8. Pipes = {} <=> \A e \in Exchanges : ~ exchange[e].piped
  BY DEF Pipes
<1> QED BY <1>3, <1>4, <1>5, <1>6, <1>7, <1>8 DEF Idle

LEMMA QuietPreserved ==
  ASSUME TypeOK, TypeOK', PendingCounts, PendingCounts', UnderWay, PartsFollowFiles, SettledIsQuiet, [Next]_vars
  PROVE  SettledIsQuiet'
<1>1. scope.done => scope.pending = 0
  BY NothingOutstanding DEF SettledIsQuiet, Idle
<1>2. (scope.pending = 0 <=> Idle)'
  BY NothingOutstanding, PTL
<1>3. CASE scope.done
  <2>1. Idle /\ closed
    BY <1>3 DEF SettledIsQuiet, Idle, UnderWay
  <2>2. \A e \in Exchanges : exchange[e].part # "flowing" /\ exchange[e].source \notin {"reading", "cancelling"}
    BY <2>1 DEF Idle, PartsFollowFiles
  <2>3. \A e \in Exchanges : ~ OfBody(e)
    BY <2>1, <2>2 DEF Idle, OfBody, OpenStream, RefusesStream, Pull, ReadAfterFinish, ReadChunk, ReadDone,
                      ReadFails, Completes, ConsumerCancels, CancelSettles, PipelineEnds
  <2>4. /\ \A reached, unreadAnswer : ~ Finally(reached, unreadAnswer)
        /\ ~ AnswerCancelled /\ \A e \in Exchanges : ~ Dispatch(e)
    BY <2>1 DEF Idle, Finally, AnswerCancelled, Dispatch
  <2>5. \A e \in Exchanges : EncoderFails(e) => scope' = scope
    BY <2>1 DEF Idle, EncoderFails
  <2>6. scope' = scope
    BY <2>3, <2>4, <2>5 DEF Next, vars, OfBody, Fetch, Malformed, Create, Connect, TransportFails, Flush,
                            Reuse, StreamRefused, SendHeaders, OtherSends, OtherEnds
  <2> QED BY <1>1, <1>2, <1>3, <2>6 DEF SettledIsQuiet, Idle
<1>4. CASE ~ scope.done /\ scope'.done
  <2>1. scope'.pending <= 0
    <3>1. scope' = scope \/ \E n : Observed(n) \/ Released(n)
      BY StepsKeep
    <3> QED BY <1>4, <3>1 DEF TypeOK, Observed, Released
  <2>2. scope'.pending = 0
    BY <2>1 DEF TypeOK
  <2> QED BY <1>2, <2>2 DEF SettledIsQuiet, Idle
<1>5. CASE ~ scope'.done
  BY <1>5 DEF SettledIsQuiet
<1> QED BY <1>3, <1>4, <1>5
-------------------------------------------------------------------------------
LEMMA InitIsSafe ==
  ASSUME Init
  PROVE  IInv
<1>1. TypeOK
  <2>1. Unsent \in Exchange /\ Unseen \in NativeUpload
    BY UploadAssumption DEF Unsent, Exchange, Unseen, NativeUpload
  <2> QED BY <2>1 DEF Init, TypeOK, Nothing, Nobody
<1>2. PendingCounts
  <2>1. Files({"reading", "cancelling"}) = {} /\ Files({"cancelling"}) = {} /\ Pulls = {} /\ Pipes = {}
    BY DEF Init, Unsent, Files, Pulls, Pipes
  <2> QED BY <2>1, FS_EmptySet DEF Init, PendingCounts
<1>3. UnderWay /\ PartsFollowFiles
  BY DEF Init, UnderWay, Files, PartsFollowFiles, Unsent, Alive
<1>4. SocketsCarry
  BY DEF Init, SocketsCarry
<1>5. ObservedIdentify
  BY DEF Init, ObservedIdentify, Nothing, Unseen, Unsent
<1>6. NoTruncatedBody /\ OthersUnharmed /\ SettledIsQuiet
  BY DEF Init, NoTruncatedBody, OthersUnharmed, SettledIsQuiet, Unsent
<1> QED BY <1>1, <1>2, <1>3, <1>4, <1>5, <1>6 DEF IInv

LEMMA StepIsSafe ==
  ASSUME IInv, [Next]_vars
  PROVE  IInv'
<1>1. /\ TypeOK /\ PendingCounts /\ UnderWay /\ PartsFollowFiles /\ SocketsCarry /\ ObservedIdentify
      /\ NoTruncatedBody /\ OthersUnharmed /\ SettledIsQuiet
  BY DEF IInv
<1>2. PendingCounts' /\ TypeOK'
  BY <1>1, CountsPreserved, TypePreserved
<1>3. UnderWay' /\ PartsFollowFiles' /\ NoTruncatedBody'
  BY <1>1, UnderWayPreserved, PartsPreserved
<1>4. SocketsCarry' /\ OthersUnharmed' /\ ObservedIdentify'
  BY <1>1, SocketsPreserved, IdentifyPreserved
<1>5. SettledIsQuiet'
  BY <1>1, <1>2, QuietPreserved
<1> QED BY <1>2, <1>3, <1>4, <1>5 DEF IInv

(* The invariant from which the safety of an upload follows.               *)
THEOREM Inductive == Spec => []IInv
BY InitIsSafe, StepIsSafe, PTL DEF Spec

(* Every reachable state of an upload has its type; in particular nothing  *)
(* is released in its scope that was not observed.                         *)
THEOREM TypeCorrect == Spec => []TypeOK
<1>1. IInv => TypeOK
  BY DEF IInv
<1> QED BY <1>1, Inductive, PTL

(* No file reaches the server cut short under a valid closing boundary,    *)
(* for any transport and any number of exchanges, whenever the attempt     *)
(* ends: the part is closed only if nobody can send it any more.           *)
THEOREM NoTruncation == Spec => []NoTruncatedBody
<1>1. IInv => NoTruncatedBody
  BY DEF IInv
<1> QED BY <1>1, Inductive, PTL

(* stop() destroys no socket that somebody else's request is on.           *)
THEOREM Unharmed == Spec => []OthersUnharmed
<1>1. IInv => OthersUnharmed
  BY DEF IInv
<1> QED BY <1>1, Inductive, PTL

(* The operation settles only when the file is let go, and nothing begins  *)
(* with it afterwards.                                                     *)
THEOREM Quiet == Spec => []SettledIsQuiet
<1>1. IInv => SettledIsQuiet
  BY DEF IInv
<1> QED BY <1>1, Inductive, PTL
===============================================================================
