--------------------------- MODULE PaginationProofs ---------------------------
(***************************************************************************)
(* Theorems about Pagination, for any bounds, any list, any other users    *)
(* and any pages a server makes up.                                        *)
(***************************************************************************)
EXTENDS Pagination, FiniteSetTheorems, SequenceTheorems, TLAPS

(* A page that is accepted passed every check on its way.                  *)
LEMMA AcceptedPage ==
  ASSUME NEW page, NEW counted, NEW at1, NEW at2, NEW at3,
         refuses(page, counted, at1, at2, at3) = "none"
  PROVE  /\ page.kind = "envelope" => page.offset = expectedOffset
         /\ ~ (counted.items > MaxItems) /\ ~ (counted.bytes > MaxBytes)
         /\ ~ (at3 >= deadlineAt)
         /\ page.next.link # "none" =>
              /\ page.next.link # "malformed"
              /\ ~ Stuck(page) /\ ~ Overlaps(page)
              /\ ~ (counted.pages >= MaxPages)
<1>1. CASE page.next.link = "none"
  BY <1>1 DEF refuses
<1>2. CASE page.next.link # "none"
  <2>1. refusesContinuation(page, counted, at3) = "none"
    BY <1>2 DEF refuses
  <2>2. /\ page.next.link # "malformed"
        /\ ~ Stuck(page) /\ ~ Overlaps(page)
        /\ ~ (counted.pages >= MaxPages)
        /\ ~ (at3 >= deadlineAt)
    BY <2>1 DEF refusesContinuation
  <2>3. /\ page.kind = "envelope" => page.offset = expectedOffset
        /\ ~ (counted.items > MaxItems) /\ ~ (counted.bytes > MaxBytes)
    BY <1>2 DEF refuses
  <2> QED BY <1>2, <2>2, <2>3
<1> QED BY <1>1, <1>2

(* A refusal is one of the named reasons.                                  *)
LEMMA RefusalIsNamed ==
  ASSUME NEW page, NEW counted, NEW at1, NEW at2, NEW at3
  PROVE  refuses(page, counted, at1, at2, at3) \in Reasons \cup {"none"}
BY DEF refuses, refusesContinuation, Reasons

(* Rows from a list, wherever they are cut, are rows.                      *)
LEMMA CutIsRows ==
  ASSUME NEW rows \in Seq(Row), NEW m \in Nat \ {0}, NEW n \in Int, n <= Len(rows)
  PROVE  SubSeq(rows, m, n) \in Seq(Row)
BY SubSeqProperties

(* What the server answers is a page.                                      *)
LEMMA ServedIsPage ==
  ASSUME TypeOK, NEW largest \in Nat
  PROVE  HonestPage(largest) \in Page /\ LegacyPage \in Page /\ NoPage \in Page
<1> DEFINE offset == IF next.offset = Undefined THEN 0 ELSE next.offset
           limit == IF next.limit = Undefined THEN largest ELSE Least(next.limit, largest)
           after == offset + limit
           rows == SubSeq(list, offset + 1, Least(after, Len(list)))
<1>0. next \in [offset : Nat \cup {Undefined}, limit : Nat \cup {Undefined}]
  BY DEF TypeOK
<1>1. offset \in Nat /\ limit \in Nat /\ after \in Nat
  <2>1. next.offset \in Nat \cup {Undefined} /\ next.limit \in Nat \cup {Undefined}
    BY <1>0
  <2>2. Least(next.limit, largest) \in {next.limit, largest}
    BY DEF Least
  <2>3. offset \in Nat /\ limit \in Nat
    BY <2>1, <2>2
  <2> QED BY <2>3
<1>2. list \in Seq(Row) /\ Len(list) \in Nat
  BY LenProperties DEF TypeOK
<1>3. rows \in Seq(Row)
  BY <1>1, <1>2, CutIsRows DEF Least
<1> HIDE DEF offset, limit, after, rows
<1>4. [kind |-> "envelope", offset |-> offset, items |-> rows,
       next |-> IF after < Len(list) THEN [link |-> "more", offset |-> after, limit |-> limit]
                ELSE [link |-> "none", offset |-> 0, limit |-> 0]] \in Page
  BY <1>1, <1>2, <1>3 DEF Page, Link
<1>5. HonestPage(largest) \in Page
  BY <1>4 DEF HonestPage, offset, limit, after, rows
<1>6. <<>> \in Seq(Row)
  BY EmptySeq
<1>7. NoPage \in Page
  BY <1>6 DEF NoPage, Page, Link
<1>8. LegacyPage \in Page
  BY <1>2 DEF LegacyPage, NoPage, Page, Link
<1> QED BY <1>5, <1>7, <1>8

-------------------------------------------------------------------------------
(* The invariant, action by action.                                        *)

LEMMA InitInv == Init => IInv
<1> SUFFICES ASSUME Init PROVE IInv
  OBVIOUS
<1>1. <<>> \in Seq(Row)
  BY EmptySeq
<1>2. TypeOK
  <2>1. NoPage \in Page
    BY <1>1 DEF NoPage, Page, Link
  <2> QED BY <1>1, <2>1, PaginationAssumption DEF Init, TypeOK, Reasons
<1>3. WithinBounds /\ IdleIsEmpty /\ CountsReceived /\ ErrorCountsProgress /\ CollectedLiesBehind
  BY PaginationAssumption DEF Init, WithinBounds, IdleIsEmpty, CountsReceived, ErrorCountsProgress,
     CollectedLiesBehind
<1>4. IsFiniteSet(positions) /\ NoPositionTwice
  BY FS_EmptySet DEF Init, NoPositionTwice
<1> QED BY <1>2, <1>3, <1>4 DEF IInv

LEMMA StartInv ==
  ASSUME IInv, NEW controls \in BOOLEAN, NEW pageSize \in Nat, NEW offset \in Nat,
         Start(controls, pageSize, offset)
  PROVE  IInv'
<1>1. TypeOK'
  BY PaginationAssumption DEF IInv, TypeOK, Start, expectedFrom, Undefined
<1>2. WithinBounds'
  BY PaginationAssumption DEF IInv, WithinBounds, IdleIsEmpty, Start
<1>3. CountsReceived' /\ ErrorCountsProgress' /\ IdleIsEmpty'
  BY DEF IInv, CountsReceived, ErrorCountsProgress, IdleIsEmpty, Start
<1>4. CollectedLiesBehind' /\ IsFiniteSet(positions)' /\ NoPositionTwice'
  BY DEF IInv, CollectedLiesBehind, IdleIsEmpty, NoPositionTwice, Start
<1> QED BY <1>1, <1>2, <1>3, <1>4 DEF IInv

LEMMA ServeInv ==
  ASSUME IInv, NEW page \in Page, Serve(page)
  PROVE  IInv'
<1>1. TypeOK'
  BY DEF IInv, TypeOK, Serve, world
<1>2. WithinBounds' /\ IdleIsEmpty' /\ CountsReceived' /\ ErrorCountsProgress'
  BY DEF IInv, WithinBounds, IdleIsEmpty, CountsReceived, ErrorCountsProgress, Serve, world
<1>3. CollectedLiesBehind' /\ IsFiniteSet(positions)' /\ NoPositionTwice'
  BY DEF IInv, CollectedLiesBehind, NoPositionTwice, Serve, world
<1> QED BY <1>1, <1>2, <1>3 DEF IInv

(* What a page adds lies at and behind what was asked for, and counts once. *)
LEMMA ClaimedIsNew ==
  ASSUME IInv, stage = "answered", NEW page \in Page,
         page.kind = "envelope" => page.offset = expectedOffset
  PROVE  /\ Claimed(page) = expectedOffset .. expectedOffset + Len(page.items) - 1
         /\ IsFiniteSet(positions \cup Claimed(page))
         /\ Cardinality(positions \cup Claimed(page)) = Len(items \o page.items)
<1>1. expectedOffset \in Nat /\ items \in Seq(Row) /\ page.items \in Seq(Row)
  BY DEF IInv, TypeOK, Page
<1>2. Len(page.items) \in Nat /\ Len(items) \in Nat
  BY <1>1, LenProperties
<1>3. Claimed(page) = expectedOffset .. expectedOffset + Len(page.items) - 1
  BY DEF Claimed
<1>4. /\ IsFiniteSet(Claimed(page))
      /\ Cardinality(Claimed(page)) = Len(page.items)
  <2> DEFINE last == expectedOffset + Len(page.items) - 1
  <2>1. last \in Int /\ expectedOffset \in Int
    BY <1>1, <1>2
  <2>2. /\ IsFiniteSet(expectedOffset .. last)
        /\ Cardinality(expectedOffset .. last) =
             IF expectedOffset > last THEN 0 ELSE last - expectedOffset + 1
    BY <2>1, FS_Interval
  <2> QED BY <1>1, <1>2, <1>3, <2>2
<1>5. positions \cap Claimed(page) = {}
  <2>1. \A p \in positions : p < expectedOffset /\ p \in Nat
    BY DEF IInv, CollectedLiesBehind, TypeOK
  <2> QED BY <1>1, <1>3, <2>1
<1>6. IsFiniteSet(positions) /\ Cardinality(positions) = Len(items)
  BY DEF IInv, NoPositionTwice
<1>7. /\ IsFiniteSet(positions \cup Claimed(page))
      /\ Cardinality(positions \cup Claimed(page)) = Len(items) + Len(page.items) - 0
  <2>1. Cardinality(positions \cap Claimed(page)) = 0
    BY <1>5, FS_EmptySet
  <2>2. /\ IsFiniteSet(positions \cup Claimed(page))
        /\ Cardinality(positions \cup Claimed(page)) =
             Cardinality(positions) + Cardinality(Claimed(page))
               - Cardinality(positions \cap Claimed(page))
    BY <1>4, <1>6, FS_Union
  <2> QED BY <1>4, <1>6, <2>1, <2>2
<1>8. Len(items \o page.items) = Len(items) + Len(page.items)
  BY <1>1, ConcatProperties
<1> QED BY <1>2, <1>3, <1>7, <1>8

(* The counters of a page that is received.                                *)
LEMMA CountersAreNatural ==
  ASSUME IInv, NEW page \in Page
  PROVE  /\ CountedWith(page) \in [pages : Nat, items : Nat, bytes : Nat]
         /\ CountedWith(page).pages = fetched.pages + 1
         /\ CountedWith(page).items = fetched.items + Len(page.items)
         /\ received = fetched => CountedWith(page) =
              [pages |-> received.pages + 1, items |-> received.items + Len(page.items),
               bytes |-> received.bytes + serializedByteLength(page.items)]
<1>1. Len(page.items) \in Nat
  BY LenProperties DEF Page
<1>2. fetched \in [pages : Nat, items : Nat, bytes : Nat]
  BY DEF IInv, TypeOK
<1>3. received = fetched => CountedWith(page) =
        [pages |-> received.pages + 1, items |-> received.items + Len(page.items),
         bytes |-> received.bytes + serializedByteLength(page.items)]
  BY DEF CountedWith
<1>4. CountedWith(page) \in [pages : Nat, items : Nat, bytes : Nat]
  BY SMTT(30), <1>1, <1>2 DEF CountedWith, serializedByteLength
<1>5. /\ CountedWith(page).pages = fetched.pages + 1
      /\ CountedWith(page).items = fetched.items + Len(page.items)
  BY DEF CountedWith
<1> QED BY <1>3, <1>4, <1>5

(* A page that fails the aggregate.                                        *)
LEMMA ReceiveFailsInv ==
  ASSUME IInv, stage = "answered", NEW page \in Page, page = reply,
         NEW at2 \in Nat, NEW at3 \in Nat,
         Receive(at2, at3), refuses(page, CountedWith(page), now, at2, at3) # "none"
  PROVE  IInv'
<1> DEFINE reason == refuses(page, CountedWith(page), now, at2, at3)
           counted == CountedWith(page)
<1>1. /\ FailWith(reason, counted)
      /\ now' = at3 /\ reply' = NoPage
      /\ received' = [pages |-> received.pages + 1, items |-> received.items + Len(page.items),
                      bytes |-> received.bytes + serializedByteLength(page.items)]
      /\ UNCHANGED <<world, options, deadlineAt>>
      /\ UNCHANGED <<next, expectedOffset, items, fetched, positions>>
  BY DEF Receive
<1>2. reason \in Reasons
  BY RefusalIsNamed
<1>3. /\ counted \in [pages : Nat, items : Nat, bytes : Nat]
      /\ counted.pages = fetched.pages + 1
      /\ counted.items = fetched.items + Len(page.items)
  BY CountersAreNatural
<1>r. received' = counted
  <2>1. received = fetched
    BY DEF IInv, CountsReceived
  <2> QED BY <1>1, <2>1, CountersAreNatural
<1> HIDE DEF reason, counted
<1>4. TypeOK'
  <2>1. Len(page.items) \in Nat
    BY LenProperties DEF Page
  <2>2. error' \in [reason : Reasons \cup {"fetch", "none"}, pages : Nat, items : Nat]
    BY <1>1, <1>2, <1>3 DEF FailWith
  <2>3. received' \in [pages : Nat, items : Nat, bytes : Nat]
    BY <1>3, <1>r
  <2>4. NoPage \in Page
    BY ServedIsPage DEF IInv
  <2>5. UNCHANGED <<list, listAtStart, server, shifted>> /\ stage' = "failed"
    BY <1>1 DEF world, FailWith
  <2> QED BY <1>1, <2>2, <2>3, <2>4, <2>5 DEF IInv, TypeOK
<1>5. WithinBounds' /\ IdleIsEmpty' /\ CountsReceived'
  BY <1>1 DEF IInv, WithinBounds, IdleIsEmpty, CountsReceived, FailWith
<1>6. ErrorCountsProgress'
  BY <1>1, <1>3, <1>r DEF ErrorCountsProgress, FailWith
<1>7. CollectedLiesBehind' /\ IsFiniteSet(positions)' /\ NoPositionTwice'
  BY <1>1 DEF IInv, CollectedLiesBehind, NoPositionTwice, FailWith
<1> QED BY <1>4, <1>5, <1>6, <1>7 DEF IInv

(* A page that is accepted: the last one, or one that is continued.        *)
LEMMA ReceiveContinuesInv ==
  ASSUME IInv, stage = "answered", NEW page \in Page, page = reply,
         NEW at2 \in Nat, NEW at3 \in Nat,
         Receive(at2, at3), refuses(page, CountedWith(page), now, at2, at3) = "none"
  PROVE  IInv'
<1> DEFINE counted == CountedWith(page)
<1>1. /\ now' = at3 /\ reply' = NoPage
      /\ received' = [pages |-> received.pages + 1, items |-> received.items + Len(page.items),
                      bytes |-> received.bytes + serializedByteLength(page.items)]
      /\ UNCHANGED <<world, options, deadlineAt, error>>
      /\ items' = items \o page.items
      /\ fetched' = counted
      /\ positions' = positions \cup Claimed(page)
      /\ \/ /\ page.next.link = "none"
            /\ stage' = "returned"
            /\ UNCHANGED <<next, expectedOffset>>
         \/ /\ page.next.link = "more"
            /\ stage' = "asking"
            /\ next' = [offset |-> page.next.offset,
                        limit |-> IF options.requestControls THEN options.pageSize
                                  ELSE page.next.limit]
            /\ expectedOffset' = page.next.offset
  BY DEF Receive, FailWith, appendPageItems
<1>2. /\ counted \in [pages : Nat, items : Nat, bytes : Nat]
      /\ counted.pages = fetched.pages + 1
      /\ counted.items = fetched.items + Len(page.items)
  BY CountersAreNatural
<1>r. received' = counted
  <2>1. received = fetched
    BY DEF IInv, CountsReceived
  <2> QED BY <1>1, <2>1, CountersAreNatural
<1>3. /\ page.kind = "envelope" => page.offset = expectedOffset
      /\ ~ (counted.items > MaxItems) /\ ~ (counted.bytes > MaxBytes)
      /\ page.next.link # "none" =>
           ~ Stuck(page) /\ ~ Overlaps(page) /\ ~ (counted.pages >= MaxPages)
  BY AcceptedPage
<1> HIDE DEF counted
<1>4. /\ page.kind \in {"envelope", "legacy-array"} /\ page.items \in Seq(Row)
      /\ page.offset \in Nat /\ page.next \in Link
      /\ page.kind = "legacy-array" => page.next.link = "none"
  BY DEF Page
<1>5. /\ items \in Seq(Row) /\ expectedOffset \in Nat /\ positions \subseteq Nat
      /\ fetched \in [pages : Nat, items : Nat, bytes : Nat]
  BY DEF IInv, TypeOK
<1>6. /\ Claimed(page) = expectedOffset .. expectedOffset + Len(page.items) - 1
      /\ IsFiniteSet(positions')
      /\ Cardinality(positions') = Len(items')
  BY <1>1, <1>3, ClaimedIsNew
<1>7. /\ Len(page.items) \in Nat /\ Len(items) \in Nat
      /\ items' \in Seq(Row) /\ Len(items') = Len(items) + Len(page.items)
  BY <1>1, <1>4, <1>5, ConcatProperties, LenProperties
<1>8. TypeOK'
  <2>1. positions' \subseteq Nat
    <3>1. Claimed(page) \subseteq Nat
      BY <1>5, <1>6, <1>7
    <3> QED BY <1>1, <1>5, <3>1
  <2>2. next' \in [offset : Nat \cup {Undefined}, limit : Nat \cup {Undefined}] /\ expectedOffset' \in Nat
    <3>1. /\ next \in [offset : Nat \cup {Undefined}, limit : Nat \cup {Undefined}]
          /\ options \in [requestControls : BOOLEAN, pageSize : Nat, startOffset : Nat]
      BY DEF IInv, TypeOK
    <3>2. page.next.offset \in Nat /\ page.next.limit \in Nat
      BY <1>4 DEF Link
    <3>3. options.pageSize \in Nat
      BY <3>1
    <3> DEFINE limit == IF options.requestControls THEN options.pageSize ELSE page.next.limit
    <3>4. limit \in Nat
      BY <3>2, <3>3
    <3>5. CASE stage' = "returned"
      BY <1>1, <1>5, <3>1, <3>5
    <3>6. CASE stage' = "asking"
      <4>1. next' = [offset |-> page.next.offset, limit |-> limit] /\ expectedOffset' = page.next.offset
        BY <1>1, <3>6
      <4> HIDE DEF limit
      <4> QED BY <3>2, <3>4, <4>1
    <3> QED BY <1>1, <3>5, <3>6
  <2>3. received' \in [pages : Nat, items : Nat, bytes : Nat]
    BY <1>2, <1>r
  <2>4. UNCHANGED <<list, listAtStart, server, shifted>>
    BY <1>1 DEF world
  <2>5. stage' \in {"asking", "returned"} /\ reply' \in Page
    BY <1>1, ServedIsPage DEF IInv
  <2> QED BY <1>1, <1>2, <1>7, <2>1, <2>2, <2>3, <2>4, <2>5 DEF IInv, TypeOK
<1>9. WithinBounds'
  <2>1. fetched.pages < MaxPages /\ Len(items) = fetched.items
    BY DEF IInv, WithinBounds
  <2>2. fetched'.pages <= MaxPages /\ (stage' = "asking" => fetched'.pages < MaxPages)
    <3>1. MaxPages \in Nat /\ fetched.pages \in Nat
      BY <1>5, PaginationAssumption
    <3>2. counted.pages <= MaxPages
      BY <1>2, <2>1, <3>1
    <3>3. stage' = "asking" => counted.pages < MaxPages
      BY <1>1, <1>2, <1>3, <3>1
    <3> QED BY <1>1, <3>2, <3>3
  <2>3. fetched'.bytes <= MaxBytes /\ fetched'.items <= MaxItems /\ Len(items') = fetched'.items
    BY SMTT(30), <1>1, <1>2, <1>3, <1>5, <1>7, <2>1, PaginationAssumption
  <2> QED BY <1>1, <2>2, <2>3 DEF WithinBounds
<1>10. IdleIsEmpty' /\ CountsReceived' /\ ErrorCountsProgress'
  BY <1>1, <1>r DEF IdleIsEmpty, CountsReceived, ErrorCountsProgress
<1>11. CollectedLiesBehind'
  <2>1. CASE page.next.link = "none"
    BY <1>1, <2>1 DEF CollectedLiesBehind
  <2>2. CASE page.next.link # "none"
    <3>1. page.offset = expectedOffset /\ expectedOffset' = page.next.offset /\ page.next.offset \in Nat
      BY <1>1, <1>3, <1>4, <2>2 DEF Link
    <3>2. /\ expectedOffset < expectedOffset'
          /\ expectedOffset + Len(page.items) <= expectedOffset'
      BY <1>3, <1>4, <1>7, <2>2, <3>1 DEF Stuck, Overlaps
    <3>3. \A p \in positions : p < expectedOffset
      BY DEF IInv, CollectedLiesBehind
    <3>4. \A p \in Claimed(page) : p < expectedOffset'
      BY SMTT(30), <1>5, <1>6, <1>7, <3>1, <3>2
    <3>5. \A p \in positions : p < expectedOffset'
      <4> SUFFICES ASSUME NEW p \in positions PROVE p < expectedOffset'
        OBVIOUS
      <4>1. p \in Nat /\ expectedOffset \in Nat /\ expectedOffset' \in Nat /\ p < expectedOffset
        BY <1>5, <3>1, <3>3
      <4> QED BY <3>2, <4>1
    <3> QED BY <1>1, <3>4, <3>5 DEF CollectedLiesBehind
  <2> QED BY <2>1, <2>2
<1> QED BY <1>6, <1>8, <1>9, <1>10, <1>11 DEF IInv, NoPositionTwice

LEMMA ReceiveInv ==
  ASSUME IInv, NEW at2 \in now .. MaxTime, NEW at3 \in now .. MaxTime, Receive(at2, at3)
  PROVE  IInv'
<1>1. stage = "answered" /\ reply \in Page /\ at2 \in Nat /\ at3 \in Nat
  <2>1. stage = "answered" /\ reply \in Page /\ now \in Nat
    BY DEF IInv, TypeOK, Receive
  <2>2. MaxTime \in Nat
    BY PaginationAssumption
  <2> QED BY <2>1, <2>2
<1> QED BY <1>1, ReceiveFailsInv, ReceiveContinuesInv

LEMMA FetchFailsInv ==
  ASSUME IInv, NEW how, FetchFails(how)
  PROVE  IInv'
<1>1. /\ stage' = "failed" /\ stage \in {"asking", "answered"}
      /\ error'.reason \in Reasons \cup {"fetch"}
      /\ error' = [reason |-> error'.reason, pages |-> fetched.pages, items |-> fetched.items]
      /\ UNCHANGED <<now, world, options, next, reply, expectedOffset, items, fetched,
                     deadlineAt, received, positions>>
  BY DEF FetchFails, FailWith, countersBefore, Reasons
<1>2. TypeOK'
  <2>1. fetched \in [pages : Nat, items : Nat, bytes : Nat]
    BY DEF IInv, TypeOK
  <2>2. error' \in [reason : Reasons \cup {"fetch", "none"}, pages : Nat, items : Nat]
    BY <1>1, <2>1
  <2> QED BY <1>1, <2>2 DEF IInv, TypeOK, world
<1>3. WithinBounds' /\ IdleIsEmpty' /\ CountsReceived' /\ ErrorCountsProgress'
  BY <1>1 DEF IInv, WithinBounds, IdleIsEmpty, CountsReceived, ErrorCountsProgress
<1>4. CollectedLiesBehind' /\ IsFiniteSet(positions)' /\ NoPositionTwice'
  BY <1>1 DEF IInv, CollectedLiesBehind, NoPositionTwice
<1> QED BY <1>2, <1>3, <1>4 DEF IInv

(* What the world does touches no aggregate.                               *)
LEMMA WorldInv ==
  ASSUME IInv, UNCHANGED aggregate, TypeOK'
  PROVE  IInv'
BY DEF IInv, aggregate, WithinBounds, IdleIsEmpty, CountsReceived, ErrorCountsProgress,
   CollectedLiesBehind, NoPositionTwice

LEMMA AppendRowInv ==
  ASSUME IInv, NEW row \in NewRows, AppendRow(row)
  PROVE  IInv'
<1>1. row \in Row
  BY DEF Row
<1>2. list' \in Seq(Row)
  BY <1>1, AppendProperties DEF IInv, TypeOK, AppendRow
<1>3. TypeOK'
  BY <1>2 DEF IInv, TypeOK, AppendRow, aggregate
<1> QED BY <1>3, WorldInv DEF AppendRow

LEMMA RemoveRowInv ==
  ASSUME IInv, NEW i \in DOMAIN list, RemoveRow(i)
  PROVE  IInv'
<1>1. list \in Seq(Row) /\ i \in 1 .. Len(list) /\ Len(list) \in Nat
  BY LenProperties DEF IInv, TypeOK
<1>2. list' = SubSeq(list, 1, i - 1) \o SubSeq(list, i + 1, Len(list))
  BY DEF RemoveRow, RemoveAt
<1>3. SubSeq(list, 1, i - 1) \in Seq(Row) /\ SubSeq(list, i + 1, Len(list)) \in Seq(Row)
  BY <1>1, CutIsRows
<1>4. list' \in Seq(Row)
  BY <1>2, <1>3, ConcatProperties
<1>5. TypeOK'
  BY <1>4 DEF IInv, TypeOK, RemoveRow, aggregate
<1> QED BY <1>5, WorldInv DEF RemoveRow

LEMMA TickInv ==
  ASSUME IInv, Tick
  PROVE  IInv'
<1>1. TypeOK'
  BY DEF IInv, TypeOK, Tick, aggregate, world
<1> QED BY <1>1, WorldInv DEF Tick

(* An honest server answers.                                               *)
ServedHonestly(page) ==
  /\ Serve(page)
  /\ \/ server = "pages" /\ \E largest \in ServerLimits : page = HonestPage(largest)
     \/ server = "bare" /\ page = LegacyPage

(* What an honest server's steps serve is what ServedHonestly names.       *)
LEMMA NextKinds ==
  ASSUME Next
  PROVE  \/ \E pageSize \in PageSizes, offset \in StartOffsets : Start(TRUE, pageSize, offset)
         \/ Start(FALSE, 0, 0)
         \/ \E page : ServedHonestly(page)
         \/ ~ Honest /\ \E page \in OddPages : Serve(page)
         \/ \E at2, at3 \in now .. MaxTime : Receive(at2, at3)
         \/ \E how \in {"expired", "undecodable", "other"} : FetchFails(how)
         \/ \E row \in NewRows : AppendRow(row)
         \/ \E i \in DOMAIN list : RemoveRow(i)
         \/ Tick
<1>1. ASSUME server = "pages", NEW largest \in ServerLimits, Serve(HonestPage(largest))
      PROVE  \E page : ServedHonestly(page)
  <2>1. ServedHonestly(HonestPage(largest))
    BY <1>1 DEF ServedHonestly, Honest
  <2> QED BY <2>1
<1>2. ASSUME server = "bare", Serve(LegacyPage)
      PROVE  \E page : ServedHonestly(page)
  <2>1. ServedHonestly(LegacyPage)
    BY <1>2 DEF ServedHonestly, Honest
  <2> QED BY <2>1
<1> QED BY <1>1, <1>2 DEF Next

LEMMA NextInv ==
  ASSUME IInv, [Next]_vars
  PROVE  IInv'
<1>1. ASSUME NEW pageSize \in PageSizes, NEW offset \in StartOffsets, Start(TRUE, pageSize, offset)
      PROVE  IInv'
  <2>1. pageSize \in Nat /\ offset \in Nat
    BY PaginationAssumption
  <2> QED BY <1>1, <2>1, StartInv
<1>2. CASE Start(FALSE, 0, 0)
  BY <1>2, StartInv
<1>3. ASSUME NEW page, ServedHonestly(page)
      PROVE  IInv'
  <2>1. page \in Page
    BY <1>3, ServedIsPage, PaginationAssumption DEF ServedHonestly, IInv
  <2> QED BY <1>3, <2>1, ServeInv DEF ServedHonestly
<1>4. ASSUME NEW page \in OddPages, Serve(page)
      PROVE  IInv'
  BY <1>4, ServeInv, PaginationAssumption
<1>5. ASSUME NEW at2 \in now .. MaxTime, NEW at3 \in now .. MaxTime, Receive(at2, at3)
      PROVE  IInv'
  BY <1>5, ReceiveInv
<1>6. ASSUME NEW how \in {"expired", "undecodable", "other"}, FetchFails(how)
      PROVE  IInv'
  BY <1>6, FetchFailsInv
<1>7. ASSUME NEW row \in NewRows, AppendRow(row)
      PROVE  IInv'
  BY <1>7, AppendRowInv
<1>8. ASSUME NEW i \in DOMAIN list, RemoveRow(i)
      PROVE  IInv'
  BY <1>8, RemoveRowInv
<1>9. CASE Tick
  BY <1>9, TickInv
<1>10. CASE UNCHANGED vars
  <2>1. UNCHANGED aggregate
    BY <1>10 DEF vars
  <2>2. TypeOK'
    BY <1>10 DEF IInv, TypeOK, vars, world, aggregate
  <2> QED BY <2>1, <2>2, WorldInv
<1> QED BY <1>1, <1>2, <1>3, <1>4, <1>5, <1>6, <1>7, <1>8, <1>9, <1>10, NextKinds

(* The invariant holds in every reachable state.                           *)
THEOREM Inductive == Spec => []IInv
<1>1. Init => IInv
  BY InitInv
<1>2. IInv /\ [Next]_vars => IInv'
  BY NextInv
<1> QED BY <1>1, <1>2, PTL DEF Spec

(* Every reachable state of an aggregate has its type, pages and rows of   *)
(* collectNext included.                                                   *)
THEOREM TypeCorrect == Spec => []TypeOK
<1>1. IInv => TypeOK
  BY DEF IInv
<1> QED BY <1>1, Inductive, PTL

(* maxPages, maxItems and maxBytes of collectNext are never exceeded,      *)
(* whatever the server answers.                                            *)
THEOREM Bounded == Spec => []WithinBounds
<1>1. IInv => WithinBounds
  BY DEF IInv
<1> QED BY <1>1, Inductive, PTL

(* The offset and overlap checks of collectNext keep every position from   *)
(* being collected twice, for any pages and continuations.                 *)
THEOREM NoRepetition == Spec => []NoPositionTwice
<1>1. IInv => NoPositionTwice
  BY DEF IInv
<1> QED BY <1>1, Inductive, PTL

(* The error of a failed aggregate counts what had been received, also     *)
(* when a decoder raised it.                                               *)
THEOREM Accounted == Spec => []ErrorCountsProgress
<1>1. IInv => ErrorCountsProgress
  BY DEF IInv
<1> QED BY <1>1, Inductive, PTL

(* Each page that collectNext asks for lies behind the one before it.      *)
THEOREM Advance == Spec => AsksAdvance
<1> DEFINE Advances == stage = "answered" /\ stage' = "asking" => next'.offset > expectedOffset
<1>1. ASSUME IInv, [Next]_vars
      PROVE  [Advances]_vars
  <2>1. SUFFICES ASSUME stage = "answered", stage' = "asking"
                 PROVE  next'.offset > expectedOffset
    OBVIOUS
  <2>2. PICK at2 \in now .. MaxTime, at3 \in now .. MaxTime : Receive(at2, at3)
    BY <1>1, <2>1 DEF Next, Start, Serve, FetchFails, FailWith, AppendRow, RemoveRow, Tick, vars, aggregate
  <2>3. /\ refuses(reply, CountedWith(reply), now, at2, at3) = "none"
        /\ reply.next.link # "none" /\ next'.offset = reply.next.offset
    BY <2>1, <2>2 DEF Receive, FailWith
  <2>4. /\ reply.kind = "envelope" => reply.offset = expectedOffset
        /\ ~ Stuck(reply)
    BY <2>3, AcceptedPage
  <2>5. reply \in Page
    BY <1>1 DEF IInv, TypeOK
  <2>6. reply.offset = expectedOffset /\ reply.offset \in Nat /\ reply.next.offset \in Nat
    BY <2>3, <2>4, <2>5 DEF Page, Link
  <2> QED BY <2>3, <2>4, <2>6 DEF Stuck
<1> QED BY <1>1, Inductive, PTL DEF Spec, AsksAdvance

(* collectNext neither returns nor asks once the deadline has passed.      *)
THEOREM InTime == Spec => NothingAfterDeadline
<1> DEFINE Timely == stage = "answered" /\ stage' \in {"asking", "returned"} => now' < deadlineAt
<1>1. ASSUME IInv, [Next]_vars
      PROVE  [Timely]_vars
  <2>1. SUFFICES ASSUME stage = "answered", stage' \in {"asking", "returned"}
                 PROVE  now' < deadlineAt
    OBVIOUS
  <2>2. PICK at2 \in now .. MaxTime, at3 \in now .. MaxTime : Receive(at2, at3)
    BY <1>1, <2>1 DEF Next, Start, Serve, FetchFails, FailWith, AppendRow, RemoveRow, Tick, vars, aggregate
  <2>3. refuses(reply, CountedWith(reply), now, at2, at3) = "none" /\ now' = at3
    BY <2>1, <2>2 DEF Receive, FailWith
  <2>4. ~ (at3 >= deadlineAt)
    BY <2>3, AcceptedPage
  <2>5. at3 \in Nat /\ deadlineAt \in Nat
    <3>1. now \in Nat /\ deadlineAt \in Nat
      BY <1>1 DEF IInv, TypeOK
    <3>2. MaxTime \in Nat
      BY PaginationAssumption
    <3> QED BY <3>1, <3>2
  <2> QED BY <2>3, <2>4, <2>5
<1> QED BY <1>1, Inductive, PTL DEF Spec, NothingAfterDeadline
-------------------------------------------------------------------------------
(* An honest server's list.                                                *)

(* Where rows that stand in the list end.                                  *)
LEMMA StandingEnds ==
  ASSUME TypeOK, NEW at \in Nat, NEW rows \in Seq(Row), StandBehind(at, rows), Len(rows) # 0
  PROVE  at + Len(rows) <= Len(list)
<1>1. Len(rows) \in DOMAIN rows /\ Len(rows) \in Nat /\ Len(list) \in Nat
  BY LenProperties DEF TypeOK
<1>2. DOMAIN list = 1 .. Len(list)
  BY LenProperties DEF TypeOK
<1> QED BY <1>1, <1>2 DEF StandBehind

(* The first row of what was there stands first, so the list has not       *)
(* become shorter.                                                         *)
LEMMA ListGrew ==
  ASSUME TypeOK, StandBehind(0, listAtStart)
  PROVE  Len(listAtStart) <= Len(list) /\ Len(listAtStart) \in Nat /\ Len(list) \in Nat
<1>1. listAtStart \in Seq(Row) /\ list \in Seq(Row)
  BY DEF TypeOK
<1>2. Len(listAtStart) \in Nat /\ Len(list) \in Nat
  BY <1>1, LenProperties
<1>3. CASE Len(listAtStart) = 0
  BY <1>2, <1>3
<1>4. CASE Len(listAtStart) # 0
  BY <1>1, <1>2, <1>4, StandingEnds
<1> QED BY <1>3, <1>4

(* Rows followed by rows that stand behind them.                           *)
LEMMA StandTogether ==
  ASSUME NEW at \in Nat, NEW rows \in Seq(Row), NEW more \in Seq(Row),
         StandBehind(at, rows), StandBehind(at + Len(rows), more)
  PROVE  StandBehind(at, rows \o more)
<1>1. Len(rows) \in Nat /\ Len(more) \in Nat
  BY LenProperties
<1>2. /\ rows \o more \in Seq(Row)
      /\ Len(rows \o more) = Len(rows) + Len(more)
      /\ \A i \in 1 .. Len(rows) + Len(more) :
           (rows \o more)[i] = IF i <= Len(rows) THEN rows[i] ELSE more[i - Len(rows)]
  BY ConcatProperties
<1>3. DOMAIN rows = 1 .. Len(rows) /\ DOMAIN more = 1 .. Len(more)
      /\ DOMAIN (rows \o more) = 1 .. Len(rows) + Len(more)
  BY <1>2, LenProperties
<1> SUFFICES ASSUME NEW i \in 1 .. Len(rows) + Len(more)
             PROVE  at + i \in DOMAIN list /\ (rows \o more)[i] = list[at + i]
  BY <1>3 DEF StandBehind
<1>4. CASE i <= Len(rows)
  <2>1. i \in DOMAIN rows
    BY <1>1, <1>3, <1>4
  <2> QED BY <1>2, <1>4, <2>1 DEF StandBehind
<1>5. CASE ~ (i <= Len(rows))
  <2>1. i - Len(rows) \in DOMAIN more
    BY <1>1, <1>3, <1>5
  <2>2. at + Len(rows) + (i - Len(rows)) = at + i
    BY <1>1
  <2>3. at + i \in DOMAIN list /\ more[i - Len(rows)] = list[at + i]
    BY <2>1, <2>2 DEF StandBehind
  <2> QED BY <1>2, <1>5, <2>3
<1> QED BY <1>4, <1>5

LEMMA SumsAssociate ==
  ASSUME NEW a \in Nat, NEW b \in Nat, NEW c \in Nat
  PROVE  a + (b + c) = a + b + c
OBVIOUS

LEMMA FirstIsNatural ==
  ASSUME TypeOK
  PROVE  First \in Nat /\ Len(items) \in Nat /\ Collected \in Nat /\ items \in Seq(Row)
<1>1. items \in Seq(Row) /\ options \in [requestControls : BOOLEAN, pageSize : Nat, startOffset : Nat]
  BY DEF TypeOK
<1>2. Len(items) \in Nat
  BY <1>1, LenProperties
<1>3. First \in Nat
  BY <1>1 DEF First
<1> QED BY <1>1, <1>2, <1>3 DEF Collected

LEMMA StartProgress ==
  ASSUME IInv, Honest, NEW controls \in BOOLEAN, NEW pageSize \in Nat, NEW offset \in Nat,
         controls => pageSize # 0,
         Start(controls, pageSize, offset)
  PROVE  HonestProgress'
<1>1. items' = <<>> /\ stage' = "asking" /\ list' = list /\ listAtStart' = list /\ server' = server
  BY DEF IInv, IdleIsEmpty, Start
<1>2. /\ options' = [requestControls |-> controls, pageSize |-> pageSize, startOffset |-> offset]
      /\ next' = IF controls THEN [offset |-> offset, limit |-> pageSize]
                 ELSE [offset |-> Undefined, limit |-> Undefined]
      /\ expectedOffset' = IF controls THEN offset ELSE 0
  BY DEF Start, expectedFrom
<1>3. First' = (IF server = "pages" /\ controls THEN offset ELSE 0) /\ First' \in Nat
  BY <1>1, <1>2 DEF First
<1>4. Collected' = First'
  <2>1. Len(items') = 0
    BY <1>1
  <2> QED BY <1>3, <2>1 DEF Collected
<1>5. StandBehind(0, listAtStart)' /\ StandBehind(First, items)'
  <2>1. list \in Seq(Row)
    BY DEF IInv, TypeOK
  <2> QED BY <1>1, <2>1, LenProperties DEF StandBehind
<1>6. AsksBehindCollected' /\ AnswerGoesOn'
  BY <1>1, <1>2, <1>3, <1>4 DEF AsksBehindCollected, AnswerGoesOn, Undefined
<1>7. options'.requestControls => options'.pageSize # 0
  BY <1>2
<1>8. IF server' = "pages" THEN expectedOffset' = Collected' ELSE items' = <<>>
  BY <1>1, <1>2, <1>3, <1>4
<1> QED BY <1>1, <1>5, <1>6, <1>7, <1>8 DEF HonestProgress

LEMMA ShortRange ==
  ASSUME NEW a \in Nat, NEW b \in Nat, NEW n, n = (IF a + 1 <= b THEN b - a ELSE 0),
         NEW i \in 1 .. n
  PROVE  i \in 1 .. b - a
OBVIOUS

(* The honest answer is the list from the offset that was asked for on.    *)
LEMMA HonestAnswer ==
  ASSUME TypeOK, AsksBehindCollected, stage = "asking", server = "pages",
         StandBehind(0, listAtStart), NEW largest \in ServerLimits
  PROVE  LET page == HonestPage(largest) IN
         /\ StandBehind(Collected, page.items)
         /\ page.offset = Collected
         /\ page.next.link \in {"none", "more"}
         /\ page.next.link = "none" => Len(listAtStart) <= Collected + Len(page.items)
         /\ page.next.link = "more" =>
              /\ Len(page.items) # 0
              /\ page.next.offset = Collected + Len(page.items)
              /\ page.next.offset < Len(list)
              /\ page.next.limit # 0
<1> DEFINE offset == IF next.offset = Undefined THEN 0 ELSE next.offset
           limit == IF next.limit = Undefined THEN largest ELSE Least(next.limit, largest)
           after == offset + limit
           end == Least(after, Len(list))
           rows == SubSeq(list, offset + 1, end)
<1>1. offset = Collected /\ Collected \in Nat
  BY FirstIsNatural DEF AsksBehindCollected, Undefined
<1>2. limit \in Nat \ {0}
  <2>1. next \in [offset : Nat \cup {Undefined}, limit : Nat \cup {Undefined}]
    BY DEF TypeOK
  <2>2. next.limit \in Nat \cup {Undefined} /\ next.limit # 0
    BY <2>1 DEF AsksBehindCollected
  <2>3. largest \in Nat \ {0}
    BY PaginationAssumption
  <2>4. Least(next.limit, largest) \in {next.limit, largest}
    BY DEF Least
  <2> QED BY <2>2, <2>3, <2>4
<1>3. list \in Seq(Row) /\ Len(list) \in Nat /\ Len(listAtStart) <= Len(list) /\ Len(listAtStart) \in Nat
  BY ListGrew DEF TypeOK
<1> HIDE DEF offset, limit
<1>4. /\ after \in Nat /\ after = Collected + limit
      /\ after < Len(list) => end = after
      /\ ~ (after < Len(list)) => end = Len(list)
      /\ end \in Nat /\ end <= Len(list)
  BY <1>1, <1>2, <1>3 DEF Least
<1> HIDE DEF after, end
<1>5. /\ rows \in Seq(Row)
      /\ Len(rows) = IF offset + 1 <= end THEN end - offset ELSE 0
      /\ \A i \in 1 .. end - offset : rows[i] = list[offset + i]
  <2> DEFINE m == offset + 1
  <2>1. m \in Int /\ end \in Int /\ \A i \in m .. end : list[i] \in Row
    BY <1>1, <1>3, <1>4
  <2> HIDE DEF m
  <2>2. /\ SubSeq(list, m, end) \in Seq(Row)
        /\ Len(SubSeq(list, m, end)) = IF m <= end THEN end - m + 1 ELSE 0
        /\ \A i \in 1 .. end - m + 1 : SubSeq(list, m, end)[i] = list[m + i - 1]
    BY <2>1, SubSeqProperties
  <2>3. m = offset + 1 /\ rows = SubSeq(list, m, end) /\ offset \in Nat
    BY <1>1 DEF m
  <2> HIDE DEF rows
  <2>4. rows \in Seq(Row) /\ Len(rows) = IF offset + 1 <= end THEN end - offset ELSE 0
    BY <1>4, <2>2, <2>3
  <2>5. ASSUME NEW i \in 1 .. end - offset
        PROVE  rows[i] = list[offset + i]
    <3>1. i \in 1 .. end - m + 1 /\ m + i - 1 = offset + i
      BY <1>4, <2>3, <2>5
    <3> QED BY <2>2, <2>3, <3>1
  <2> QED BY <2>4, <2>5
<1> HIDE DEF rows
<1>6. StandBehind(Collected, rows)
  <2> SUFFICES ASSUME NEW i \in DOMAIN rows
               PROVE  Collected + i \in DOMAIN list /\ rows[i] = list[Collected + i]
    BY DEF StandBehind
  <2>1. i \in 1 .. Len(rows) /\ DOMAIN list = 1 .. Len(list)
    BY <1>3, <1>5, LenProperties
  <2>2. i \in 1 .. end - offset
    <3>1. /\ offset \in Nat /\ end \in Nat
          /\ Len(rows) = IF offset + 1 <= end THEN end - offset ELSE 0
      BY <1>1, <1>4, <1>5
    <3> QED BY <2>1, <3>1, ShortRange
  <2>3. rows[i] = list[Collected + i]
    BY <1>1, <1>5, <2>2
  <2>4. Collected + i \in 1 .. Len(list)
    BY <1>1, <1>3, <1>4, <2>2
  <2> QED BY <2>1, <2>3, <2>4
<1>7. HonestPage(largest) = [kind |-> "envelope", offset |-> offset, items |-> rows,
       next |-> IF after < Len(list) THEN [link |-> "more", offset |-> after, limit |-> limit]
                ELSE [link |-> "none", offset |-> 0, limit |-> 0]]
  BY DEF HonestPage, offset, limit, after, end, rows
<1>8. CASE after < Len(list)
  <2>1. Len(rows) = limit
    BY <1>1, <1>2, <1>4, <1>5, <1>8
  <2> QED BY <1>1, <1>2, <1>4, <1>6, <1>7, <1>8, <2>1
<1>9. CASE ~ (after < Len(list))
  <2>1. Len(list) <= Collected + Len(rows) /\ Collected + Len(rows) \in Nat
    BY <1>1, <1>3, <1>4, <1>5, <1>9
  <2>2. Len(listAtStart) <= Collected + Len(rows)
    BY <1>1, <1>3, <2>1
  <2> QED BY <1>1, <1>3, <1>6, <1>7, <1>9, <2>2
<1> QED BY <1>8, <1>9

LEMMA ServeProgress ==
  ASSUME IInv, HonestProgress, ~ shifted, Honest, NEW page, ServedHonestly(page)
  PROVE  HonestProgress'
<1>1. /\ stage = "asking" /\ stage' = "answered" /\ reply' = page
      /\ UNCHANGED <<list, server, listAtStart, shifted, options, next, expectedOffset, items>>
  BY DEF ServedHonestly, Serve, world
<1>2. /\ options.requestControls => options.pageSize # 0
      /\ StandBehind(0, listAtStart) /\ StandBehind(First, items)
      /\ IF server = "pages" THEN expectedOffset = Collected ELSE items = <<>>
      /\ AsksBehindCollected
  BY <1>1 DEF HonestProgress
<1>3. /\ StandBehind(Collected, page.items)
      /\ page.kind = "envelope" => server = "pages" /\ page.offset = Collected
      /\ page.next.link \in {"none", "more"}
      /\ page.next.link = "none" => Len(listAtStart) <= Collected + Len(page.items)
      /\ page.next.link = "more" =>
           /\ server = "pages" /\ page.offset = Collected /\ Len(page.items) # 0
           /\ page.next.offset = Collected + Len(page.items)
           /\ page.next.offset < Len(list)
           /\ page.next.limit # 0
  <2>1. CASE server = "pages"
    <3>1. PICK largest \in ServerLimits : page = HonestPage(largest)
      BY <2>1 DEF ServedHonestly
    <3> QED BY <1>1, <1>2, <2>1, <3>1, HonestAnswer DEF IInv
  <2>2. CASE server # "pages"
    <3>1. page.items = list /\ page.next.link = "none" /\ page.kind # "envelope"
      BY <2>2 DEF ServedHonestly, LegacyPage, NoPage
    <3>2. Collected = 0
      BY <1>2, <2>2 DEF Collected, First
    <3>3. Len(listAtStart) <= Len(list) /\ Len(list) \in Nat /\ list \in Seq(Row)
      BY <1>2, ListGrew DEF IInv, TypeOK
    <3>4. StandBehind(0, list)
      BY <3>3, LenProperties DEF StandBehind
    <3> QED BY <3>1, <3>2, <3>3, <3>4
  <2> QED BY <2>1, <2>2
<1>4. First' = First /\ Collected' = Collected
  BY <1>1 DEF First, Collected
<1>5. StandBehind(0, listAtStart)' /\ StandBehind(First, items)'
  BY <1>1, <1>2, <1>4 DEF StandBehind
<1>6. AnswerGoesOn'
  BY <1>1, <1>3, <1>4 DEF AnswerGoesOn, StandBehind
<1>7. AsksBehindCollected'
  BY <1>1 DEF AsksBehindCollected
<1> QED BY <1>1, <1>2, <1>4, <1>5, <1>6, <1>7 DEF HonestProgress

LEMMA ContinueProgress ==
  ASSUME IInv, HonestProgress, ~ shifted, Honest, stage = "answered",
         NEW at2, NEW at3,
         Receive(at2, at3), refuses(reply, CountedWith(reply), now, at2, at3) = "none"
  PROVE  HonestProgress'
<1>1. /\ UNCHANGED <<list, server, listAtStart, shifted, options>>
      /\ items' = items \o reply.items
      /\ \/ /\ reply.next.link = "none"
            /\ stage' = "returned"
         \/ /\ reply.next.link = "more"
            /\ stage' = "asking"
            /\ next' = [offset |-> reply.next.offset,
                        limit |-> IF options.requestControls THEN options.pageSize
                                  ELSE reply.next.limit]
            /\ expectedOffset' = reply.next.offset
  BY DEF Receive, FailWith, appendPageItems, world
<1>2. /\ options.requestControls => options.pageSize # 0
      /\ StandBehind(0, listAtStart) /\ StandBehind(First, items)
      /\ AnswerGoesOn
  BY DEF HonestProgress
<1>3. First \in Nat /\ Len(items) \in Nat /\ items \in Seq(Row) /\ reply.items \in Seq(Row)
  BY FirstIsNatural DEF IInv, TypeOK, Page
<1>4. /\ Len(reply.items) \in Nat
      /\ Len(items') = Len(items) + Len(reply.items)
  BY <1>1, <1>3, ConcatProperties, LenProperties
<1>5. First' = First /\ Collected' = Collected + Len(reply.items)
  <2>1. First' = First
    BY <1>1 DEF First
  <2>2. Collected' = First' + Len(items') /\ Collected = First + Len(items)
    BY DEF Collected
  <2>3. First + (Len(items) + Len(reply.items)) = First + Len(items) + Len(reply.items)
    <3>1. First \in Nat /\ Len(items) \in Nat /\ Len(reply.items) \in Nat
      BY <1>3, <1>4
    <3> QED BY <3>1, SumsAssociate
  <2> QED BY <1>4, <2>1, <2>2, <2>3
<1>6. StandBehind(First, items \o reply.items)
  BY <1>2, <1>3, StandTogether DEF AnswerGoesOn, Collected
<1>7. StandBehind(0, listAtStart)' /\ StandBehind(First, items)'
  BY <1>1, <1>2, <1>5, <1>6 DEF StandBehind
<1>8. CASE stage' = "asking"
  <2>1. /\ next' = [offset |-> reply.next.offset,
                   limit |-> IF options.requestControls THEN options.pageSize
                             ELSE reply.next.limit]
        /\ expectedOffset' = reply.next.offset /\ reply.next.link = "more"
    BY <1>1, <1>8
  <2>2. server = "pages" /\ reply.next.offset = Collected' /\ reply.next.limit # 0
    BY <1>2, <1>5, <2>1 DEF AnswerGoesOn
  <2>3. AsksBehindCollected'
    BY <1>2, <2>1, <2>2 DEF AsksBehindCollected
  <2>4. AnswerGoesOn'
    BY <1>8 DEF AnswerGoesOn
  <2> QED BY <1>1, <1>2, <1>7, <1>8, <2>1, <2>2, <2>3, <2>4 DEF HonestProgress
<1>9. CASE stage' = "returned"
  <2>1. reply.next.link = "none"
    BY <1>1, <1>9
  <2>2. Len(listAtStart') <= Collected'
    BY <1>1, <1>2, <1>5, <2>1 DEF AnswerGoesOn
  <2>3. AsksBehindCollected' /\ AnswerGoesOn'
    BY <1>9 DEF AsksBehindCollected, AnswerGoesOn
  <2> QED BY <1>1, <1>2, <1>7, <1>9, <2>2, <2>3 DEF HonestProgress
<1> QED BY <1>1, <1>8, <1>9

(* A failed aggregate keeps what it had.                                   *)
LEMMA FailProgress ==
  ASSUME HonestProgress, ~ shifted, Honest, stage # "idle", stage' = "failed",
         UNCHANGED <<world, options, items>>
  PROVE  HonestProgress'
<1>1. First' = First
  BY DEF First, world
<1>2. StandBehind(0, listAtStart)' /\ StandBehind(First, items)'
  BY <1>1 DEF HonestProgress, StandBehind, world
<1>3. AsksBehindCollected' /\ AnswerGoesOn'
  BY DEF AsksBehindCollected, AnswerGoesOn
<1> QED BY <1>2, <1>3 DEF HonestProgress

(* Rows stand where they stood when others are appended.                   *)
LEMMA AppendProgress ==
  ASSUME IInv, HonestProgress, NEW row \in NewRows, AppendRow(row)
  PROVE  HonestProgress'
<1> SUFFICES ASSUME ~ shifted, Honest, stage # "idle"
             PROVE  HonestProgress'
  BY DEF HonestProgress, AppendRow, aggregate
<1>1. /\ list \in Seq(Row) /\ row \in Row
      /\ list' = Append(list, row)
      /\ UNCHANGED <<server, listAtStart, shifted, aggregate>>
  BY DEF IInv, TypeOK, AppendRow, Row
<1>2. /\ Len(list) \in Nat /\ Len(list') = Len(list) + 1
      /\ \A i \in DOMAIN list : i \in DOMAIN list' /\ list'[i] = list[i]
  <2>1. /\ list' \in Seq(Row) /\ Len(list') = Len(list) + 1
        /\ \A i \in 1 .. Len(list) : list'[i] = list[i]
    BY <1>1, AppendProperties
  <2>2. Len(list) \in Nat /\ DOMAIN list = 1 .. Len(list) /\ DOMAIN list' = 1 .. Len(list')
    BY <1>1, <2>1, LenProperties
  <2> QED BY <2>1, <2>2
<1>3. ASSUME NEW at, NEW rows, StandBehind(at, rows)
      PROVE  \A i \in DOMAIN rows : at + i \in DOMAIN list' /\ rows[i] = list'[at + i]
  BY <1>2, <1>3 DEF StandBehind
<1>4. First' = First /\ Collected' = Collected
  BY <1>1 DEF First, Collected, aggregate
<1>5. StandBehind(0, listAtStart)' /\ StandBehind(First, items)'
  BY <1>1, <1>3, <1>4 DEF HonestProgress, StandBehind, aggregate
<1>6. AsksBehindCollected'
  BY <1>1, <1>4 DEF HonestProgress, AsksBehindCollected, aggregate
<1>7. AnswerGoesOn'
  <2> SUFFICES ASSUME stage = "answered"
               PROVE  AnswerGoesOn'
    BY <1>1 DEF AnswerGoesOn, aggregate
  <2>1. /\ AnswerGoesOn /\ reply' = reply /\ reply \in Page
    BY <1>1 DEF HonestProgress, aggregate, IInv, TypeOK
  <2>2. reply.next.offset \in Nat
    BY <2>1 DEF Page, Link
  <2>3. StandBehind(Collected, reply.items)'
    BY <1>3, <1>4, <2>1 DEF AnswerGoesOn, StandBehind
  <2>4. reply.next.offset < Len(list) => reply.next.offset < Len(list')
    BY <1>2, <2>2
  <2> QED BY <1>1, <1>4, <2>1, <2>3, <2>4 DEF AnswerGoesOn
<1> QED BY <1>1, <1>4, <1>5, <1>6, <1>7 DEF HonestProgress, aggregate

(* What the refusals of an honest answer mean.                             *)
LEMMA HonestRefusal ==
  ASSUME NEW page, NEW counted, NEW at1, NEW at2, NEW at3,
         page.next.link \in {"none", "more"},
         page.next.link = "more" => ~ Stuck(page) /\ ~ Overlaps(page)
  PROVE  LET reason == refuses(page, counted, at1, at2, at3) IN
         /\ reason \notin {"invalid_continuation", "non_progress"}
         /\ reason = "max_items" =>
              \/ counted.items > MaxItems
              \/ page.next.link = "more" /\ counted.items >= MaxItems
         /\ reason = "max_pages" => page.next.link = "more" /\ counted.pages >= MaxPages
         /\ reason = "max_bytes" =>
              \/ counted.bytes > MaxBytes
              \/ page.next.link = "more" /\ counted.bytes >= MaxBytes
         /\ reason = "invalid_page" => page.kind = "envelope" /\ page.offset # expectedOffset
<1>1. refusesContinuation(page, counted, at3) \in
        {"invalid_continuation", "non_progress", "max_pages", "max_items", "max_bytes",
         "max_duration", "none"}
  BY DEF refusesContinuation
<1>2. page.next.link = "more" =>
        /\ refusesContinuation(page, counted, at3) \notin {"invalid_continuation", "non_progress"}
        /\ refusesContinuation(page, counted, at3) = "max_items" => counted.items >= MaxItems
        /\ refusesContinuation(page, counted, at3) = "max_pages" => counted.pages >= MaxPages
        /\ refusesContinuation(page, counted, at3) = "max_bytes" => counted.bytes >= MaxBytes
  BY DEF refusesContinuation
<1> QED BY <1>1, <1>2 DEF refuses

(* The arithmetic of positions: f rows are skipped, c are collected, r are *)
(* on their way, and the list has l.                                       *)
LEMMA Behind ==
  ASSUME NEW f \in Nat, NEW c \in Nat, NEW r \in Nat, NEW l \in Nat, r # 0
  PROVE  /\ f + c + r <= l => (IF f + 1 <= l THEN l - f ELSE 0) >= c + r
         /\ f + c + r < l => (IF f + 1 <= l THEN l - f ELSE 0) > c + r
OBVIOUS

LEMMA GoesOn ==
  ASSUME NEW f \in Nat, NEW c \in Nat, NEW r \in Nat, r # 0
  PROVE  /\ ~ (f + c + r <= f + c)
         /\ ~ ((f + c + r) - (f + c) < r)
OBVIOUS

LEMMA FailCause ==
  ASSUME IInv, HonestProgress, NEW at2, NEW at3, Receive(at2, at3), stage' = "failed"
  PROVE  RefusedForCause'
<1> DEFINE reason == refuses(reply, CountedWith(reply), now, at2, at3)
           N == Len(items) + Len(reply.items)
<1>1. /\ stage = "answered"
      /\ UNCHANGED <<list, server, shifted, options>>
      /\ error'.reason = reason
  BY DEF Receive, FailWith, world
<1>r. received' = CountedWith(reply) /\ CountedWith(reply).pages = fetched.pages + 1
      /\ CountedWith(reply) \in [pages : Nat, items : Nat, bytes : Nat]
  <2>1. reply \in Page /\ received = fetched
    BY <1>1 DEF IInv, TypeOK, CountsReceived
  <2> QED BY <2>1, CountersAreNatural DEF Receive
<1> DEFINE counted == CountedWith(reply)
<1> SUFFICES ASSUME ~ shifted, Honest
             PROVE  /\ reason \notin {"invalid_continuation", "non_progress", "invalid_page"}
                    /\ reason = "max_pages" =>
                         counted.pages = MaxPages /\ Len(From(list)) > counted.items
                    /\ reason = "max_items" =>
                         counted.items >= MaxItems /\ Len(From(list)) > MaxItems
                    /\ reason = "max_bytes" =>
                         \/ counted.bytes > MaxBytes
                         \/ counted.bytes = MaxBytes /\ Len(From(list)) > counted.items
  BY <1>1, <1>r DEF RefusedForCause, From, First, Honest
<1>2. AnswerGoesOn /\ StandBehind(First, items)
  BY <1>1 DEF HonestProgress
<1>3. /\ First \in Nat /\ Len(items) \in Nat /\ items \in Seq(Row) /\ Collected = First + Len(items)
      /\ reply.items \in Seq(Row) /\ Len(reply.items) \in Nat
      /\ list \in Seq(Row) /\ Len(list) \in Nat
  BY FirstIsNatural, LenProperties DEF IInv, TypeOK, Page, Collected
<1>0. /\ First \in Nat /\ Len(items) \in Nat /\ Len(reply.items) \in Nat
      /\ Len(list) \in Nat /\ Collected = First + Len(items)
  BY <1>3
<1>4. counted.items = N /\ N \in Nat
  <2>1. Len(items) = fetched.items /\ reply \in Page
    BY <1>1 DEF IInv, WithinBounds, TypeOK
  <2> QED BY <1>3, <2>1, CountersAreNatural
<1>5. Len(From(list)) = IF First + 1 <= Len(list) THEN Len(list) - First ELSE 0
  <2> DEFINE m == First + 1
  <2>1. m \in Int /\ Len(list) \in Int /\ \A i \in m .. Len(list) : list[i] \in Row
    BY <1>3
  <2> HIDE DEF m
  <2>2. Len(SubSeq(list, m, Len(list))) = IF m <= Len(list) THEN Len(list) - m + 1 ELSE 0
    BY <2>1, SubSeqProperties
  <2>3. Len(list) - m + 1 = Len(list) - First /\ m = First + 1
    BY <1>3 DEF m
  <2> QED BY <2>2, <2>3 DEF From
<1>6. N # 0 => Len(From(list)) >= N
  <2>1. CASE Len(reply.items) # 0
    <3>1. StandBehind(Collected, reply.items) /\ Collected \in Nat
      BY <1>1, <1>2, <1>3 DEF AnswerGoesOn
    <3>2. Collected + Len(reply.items) <= Len(list)
      BY <1>3, <2>1, <3>1, StandingEnds DEF IInv
    <3>3. First + Len(items) + Len(reply.items) <= Len(list)
      BY <1>0, <3>2
    <3>4. (IF First + 1 <= Len(list) THEN Len(list) - First ELSE 0) >= Len(items) + Len(reply.items)
      BY ZenonT(30), <1>0, <2>1, <3>3, Behind
    <3> QED BY <1>5, <3>4
  <2>2. CASE Len(reply.items) = 0 /\ Len(items) # 0
    <3>1. First + Len(items) <= Len(list)
      BY <1>2, <1>3, <2>2, StandingEnds DEF IInv
    <3> QED BY <1>3, <1>5, <2>2, <3>1
  <2> QED BY <1>3, <2>1, <2>2
<1>7. ASSUME reply.next.link = "more"
      PROVE  ~ Stuck(reply) /\ ~ Overlaps(reply) /\ Len(From(list)) > N
  <2>1. /\ reply.offset = First + Len(items) /\ Len(reply.items) # 0
        /\ reply.next.offset = First + Len(items) + Len(reply.items)
        /\ reply.next.offset < Len(list)
    BY <1>1, <1>2, <1>3, <1>7 DEF AnswerGoesOn
  <2>2. ~ Stuck(reply) /\ ~ Overlaps(reply)
    BY <1>0, <2>1, GoesOn DEF Stuck, Overlaps
  <2>3. Len(From(list)) > N
    <3>1. First + Len(items) + Len(reply.items) < Len(list)
      BY <1>0, <2>1
    <3>2. (IF First + 1 <= Len(list) THEN Len(list) - First ELSE 0) > Len(items) + Len(reply.items)
      BY <1>0, <2>1, <3>1, Behind
    <3> QED BY <1>5, <3>2
  <2> QED BY <2>2, <2>3
<1>8. reply.next.link \in {"none", "more"}
  BY <1>1, <1>2 DEF AnswerGoesOn
<1>9. /\ reason \notin {"invalid_continuation", "non_progress"}
      /\ reason = "max_items" =>
           \/ counted.items > MaxItems
           \/ reply.next.link = "more" /\ counted.items >= MaxItems
      /\ reason = "max_pages" => reply.next.link = "more" /\ counted.pages >= MaxPages
      /\ reason = "max_bytes" =>
           \/ counted.bytes > MaxBytes
           \/ reply.next.link = "more" /\ counted.bytes >= MaxBytes
      /\ reason = "invalid_page" => reply.kind = "envelope" /\ reply.offset # expectedOffset
  BY <1>7, <1>8, HonestRefusal
<1>10. reason # "invalid_page"
  <2>1. reply.kind = "envelope" => server = "pages" /\ reply.offset = Collected
    BY <1>1, <1>2 DEF AnswerGoesOn
  <2>2. server = "pages" => expectedOffset = Collected
    BY <1>1 DEF HonestProgress
  <2> QED BY <1>9, <2>1, <2>2
<1>11. /\ MaxItems \in Nat /\ MaxPages \in Nat /\ MaxBytes \in Nat
       /\ Len(From(list)) \in Nat /\ fetched.pages \in Nat /\ fetched.pages < MaxPages
       /\ counted.pages = fetched.pages + 1 /\ counted.bytes \in Nat
  BY <1>1, <1>r, <1>3, <1>5, PaginationAssumption DEF IInv, TypeOK, WithinBounds
<1> HIDE DEF reason, N, counted
<1>12. reason = "max_items" => counted.items >= MaxItems /\ Len(From(list)) > MaxItems
  <2>1. ASSUME N > MaxItems
        PROVE  Len(From(list)) > MaxItems
    BY <1>4, <1>6, <1>11, <2>1
  <2>2. ASSUME Len(From(list)) > N, N >= MaxItems
        PROVE  Len(From(list)) > MaxItems
    BY <1>4, <1>11, <2>2
  <2>3. N > MaxItems => N >= MaxItems
    BY <1>4, <1>11
  <2> QED BY <1>4, <1>7, <1>9, <2>1, <2>2, <2>3
<1>13. counted.pages >= MaxPages => counted.pages = MaxPages
  BY <1>11
<1>14. counted.bytes >= MaxBytes => counted.bytes > MaxBytes \/ counted.bytes = MaxBytes
  BY <1>11
<1> QED BY <1>4, <1>7, <1>9, <1>10, <1>12, <1>13, <1>14

HonestInv == IInv /\ HonestProgress /\ RefusedForCause

LEMMA NextHonest ==
  ASSUME HonestInv, [Next]_vars
  PROVE  HonestProgress' /\ RefusedForCause'
<1> USE DEF HonestInv, Honest
<1>1. ASSUME NEW pageSize \in PageSizes, NEW offset \in StartOffsets, Start(TRUE, pageSize, offset)
      PROVE  HonestProgress' /\ RefusedForCause'
  <2>1. pageSize \in Nat \ {0} /\ offset \in Nat
    BY PaginationAssumption
  <2>2. HonestProgress'
    BY <1>1, <2>1, StartProgress DEF HonestProgress, Start
  <2> QED BY <1>1, <2>2 DEF RefusedForCause, Start
<1>2. CASE Start(FALSE, 0, 0)
  <2>1. HonestProgress'
    BY <1>2, StartProgress DEF HonestProgress, Start
  <2> QED BY <1>2, <2>1 DEF RefusedForCause, Start
<1>3. ASSUME NEW page, ServedHonestly(page)
      PROVE  HonestProgress' /\ RefusedForCause'
  <2>1. HonestProgress'
    <3>1. shifted' = shifted /\ Honest
      BY <1>3 DEF ServedHonestly, Serve, world
    <3> QED BY <1>3, <3>1, ServeProgress DEF HonestProgress
  <2> QED BY <1>3, <2>1 DEF RefusedForCause, ServedHonestly, Serve
<1>4. ASSUME ~ Honest, NEW page \in OddPages, Serve(page)
      PROVE  HonestProgress' /\ RefusedForCause'
  BY <1>4 DEF HonestProgress, RefusedForCause, Serve, world
<1>5. ASSUME NEW at2 \in now .. MaxTime, NEW at3 \in now .. MaxTime, Receive(at2, at3)
      PROVE  HonestProgress' /\ RefusedForCause'
  <2>1. shifted' = shifted /\ server' = server /\ stage = "answered"
    BY <1>5 DEF Receive, world
  <2>2. CASE refuses(reply, CountedWith(reply), now, at2, at3) = "none"
    <3>1. HonestProgress'
      BY <1>5, <2>1, <2>2, ContinueProgress DEF HonestProgress
    <3>2. stage' # "failed"
      BY <1>5, <2>2 DEF Receive
    <3> QED BY <3>1, <3>2 DEF RefusedForCause
  <2>3. CASE refuses(reply, CountedWith(reply), now, at2, at3) # "none"
    <3>1. stage' = "failed" /\ UNCHANGED <<world, options, items>>
      BY <1>5, <2>3 DEF Receive, FailWith
    <3>2. HonestProgress'
      BY <2>1, <3>1, FailProgress DEF HonestProgress, world
    <3> QED BY <1>5, <3>1, <3>2, FailCause
  <2> QED BY <2>2, <2>3
<1>6. ASSUME NEW how \in {"expired", "undecodable", "other"}, FetchFails(how)
      PROVE  HonestProgress' /\ RefusedForCause'
  <2>1. /\ stage # "idle" /\ stage' = "failed" /\ UNCHANGED <<world, options, items>>
        /\ error'.reason \in {"max_duration", "invalid_page", "fetch"}
        /\ received' = received /\ fetched' = fetched /\ stage # "failed"
    BY <1>6 DEF FetchFails, FailWith
  <2>2. HonestProgress'
    BY <2>1, FailProgress DEF HonestProgress, world
  <2>3. received' = fetched'
    BY <2>1 DEF IInv, CountsReceived
  <2> QED BY <2>1, <2>2, <2>3 DEF RefusedForCause
<1>7. ASSUME NEW row \in NewRows, AppendRow(row)
      PROVE  HonestProgress' /\ RefusedForCause'
  <2>1. HonestProgress'
    BY <1>7, AppendProgress
  <2> QED BY <1>7, <2>1 DEF RefusedForCause, AppendRow, aggregate, Ended
<1>8. ASSUME NEW i \in DOMAIN list, RemoveRow(i)
      PROVE  HonestProgress' /\ RefusedForCause'
  BY <1>8 DEF HonestProgress, RefusedForCause, RemoveRow, aggregate, Ended
<1>9. CASE UNCHANGED <<world, aggregate>>
  <2>1. HonestProgress'
    BY <1>9 DEF HonestProgress, world, aggregate, StandBehind, AsksBehindCollected,
       AnswerGoesOn, First, Collected
  <2>2. RefusedForCause'
    BY <1>9 DEF RefusedForCause, world, aggregate, First, From
  <2> QED BY <2>1, <2>2
<1> QED BY <1>1, <1>2, <1>3, <1>4, <1>5, <1>6, <1>7, <1>8, <1>9, NextKinds DEF Tick, vars

LEMMA HonestInductive == Spec => []HonestInv
<1>1. Init => HonestProgress /\ RefusedForCause
  BY DEF Init, HonestProgress, RefusedForCause
<1>2. Init => HonestInv
  BY <1>1, InitInv DEF HonestInv
<1>3. HonestInv /\ [Next]_vars => HonestInv'
  BY NextInv, NextHonest DEF HonestInv
<1> QED BY <1>2, <1>3, PTL DEF Spec

(* What collectNext refuses of an honest server's list, it refuses for a   *)
(* bound that is exceeded, or reached with rows to come: maxPages, maxItems *)
(* and maxBytes are inclusive.                                             *)
THEOREM RefusedRightly == Spec => []RefusedForCause
<1>1. HonestInv => RefusedForCause
  BY DEF HonestInv
<1> QED BY <1>1, HonestInductive, PTL

(* What collectAllPages returns of a list that at most grew: all that was  *)
(* there, in order and once, for any sizes, offsets and bounds.            *)
THEOREM Complete == Spec => []CollectedIsList
<1>1. HonestInv => CollectedIsList
  <2> SUFFICES ASSUME HonestInv, stage = "returned", ~ shifted, Honest
               PROVE  IsPrefix(From(listAtStart), items) /\ IsPrefix(items, From(list))
    BY DEF CollectedIsList
  <2>1. /\ StandBehind(0, listAtStart) /\ StandBehind(First, items)
        /\ Len(listAtStart) <= First + Len(items)
    BY DEF HonestInv, HonestProgress, Collected
  <2>2. /\ First \in Nat /\ items \in Seq(Row) /\ Len(items) \in Nat
        /\ list \in Seq(Row) /\ Len(list) \in Nat
        /\ listAtStart \in Seq(Row) /\ Len(listAtStart) \in Nat
        /\ Len(listAtStart) <= Len(list)
    BY <2>1, FirstIsNatural, ListGrew DEF HonestInv, IInv, TypeOK
  <2>3. ASSUME NEW rows \in Seq(Row)
        PROVE  /\ From(rows) \in Seq(Row)
               /\ Len(From(rows)) = IF First < Len(rows) THEN Len(rows) - First ELSE 0
               /\ \A i \in 1 .. Len(rows) - First : From(rows)[i] = rows[First + i]
    <3> DEFINE m == First + 1
               n == Len(rows)
    <3>1. n \in Nat /\ m \in Int /\ \A i \in m .. n : rows[i] \in Row
      BY <2>2, <2>3, LenProperties
    <3>2. m = First + 1 /\ From(rows) = SubSeq(rows, m, n)
      BY DEF From
    <3> HIDE DEF m, n
    <3>3. /\ SubSeq(rows, m, n) \in Seq(Row)
          /\ Len(SubSeq(rows, m, n)) = IF m <= n THEN n - m + 1 ELSE 0
          /\ \A i \in 1 .. n - m + 1 : SubSeq(rows, m, n)[i] = rows[m + i - 1]
      BY <3>1, SubSeqProperties
    <3>4. (m <= n <=> First < n) /\ n - m + 1 = n - First
      BY <2>2, <3>1, <3>2
    <3>5. ASSUME NEW i \in 1 .. n - First
          PROVE  From(rows)[i] = rows[First + i]
      <4>1. i \in 1 .. n - m + 1 /\ m + i - 1 = First + i
        BY <2>2, <3>1, <3>2, <3>4, <3>5
      <4> QED BY <3>2, <3>3, <4>1
    <3> QED BY <3>2, <3>3, <3>4, <3>5 DEF n
  <2>4. ASSUME NEW s \in Seq(Row), NEW t \in Seq(Row), Len(s) <= Len(t),
               \A i \in 1 .. Len(s) : s[i] = t[i]
        PROVE  IsPrefix(s, t)
    <3>1. Len(s) \in Nat /\ Len(t) \in Nat
      BY <2>4, LenProperties
    <3>2. ASSUME NEW q \in Seq(Row), Len(s) <= Len(q)
          PROVE  /\ SubSeq(q, 1, Len(s)) \in Seq(Row)
                 /\ Len(SubSeq(q, 1, Len(s))) = Len(s)
                 /\ \A i \in 1 .. Len(s) : SubSeq(q, 1, Len(s))[i] = q[i]
      <4>1. Len(q) \in Nat /\ \A i \in 1 .. Len(s) : q[i] \in Row
        BY <3>1, <3>2, LenProperties
      <4>2. /\ SubSeq(q, 1, Len(s)) \in Seq(Row)
            /\ Len(SubSeq(q, 1, Len(s))) = IF 1 <= Len(s) THEN Len(s) - 1 + 1 ELSE 0
            /\ \A i \in 1 .. Len(s) - 1 + 1 : SubSeq(q, 1, Len(s))[i] = q[1 + i - 1]
        BY <3>1, <4>1, SubSeqProperties
      <4> QED BY <3>1, <4>2
    <3> DEFINE a == SubSeq(s, 1, Len(s))
               b == SubSeq(t, 1, Len(s))
    <3>3. /\ a \in Seq(Row) /\ b \in Seq(Row) /\ Len(a) = Len(s) /\ Len(b) = Len(s)
          /\ \A i \in 1 .. Len(s) : a[i] = s[i] /\ b[i] = t[i]
      BY <2>4, <3>1, <3>2
    <3> HIDE DEF a, b
    <3>4. a = b
      BY <2>4, <3>3, SeqEqual
    <3> QED BY <2>4, <3>4 DEF IsPrefix, a, b
  <2>5. IsPrefix(From(listAtStart), items)
    <3>1. Len(From(listAtStart)) <= Len(items)
      BY <2>1, <2>2, <2>3
    <3>2. ASSUME NEW i \in 1 .. Len(From(listAtStart))
          PROVE  From(listAtStart)[i] = items[i]
      <4>1. i \in Nat /\ i \in 1 .. Len(listAtStart) - First
        <5>1. /\ Len(From(listAtStart)) = IF First < Len(listAtStart) THEN Len(listAtStart) - First ELSE 0
              /\ First \in Nat /\ Len(listAtStart) \in Nat
          BY <2>2, <2>3
        <5> QED BY <3>2, <5>1
      <4>2. From(listAtStart)[i] = listAtStart[First + i]
        BY <2>2, <2>3, <4>1
      <4>3. First + i \in DOMAIN listAtStart /\ i \in DOMAIN items
        BY <2>1, <2>2, <4>1, LenProperties
      <4>4. listAtStart[First + i] = list[0 + (First + i)] /\ items[i] = list[First + i]
        BY <2>1, <4>3 DEF StandBehind
      <4> QED BY <2>2, <4>1, <4>2, <4>4
    <3> QED BY <2>2, <2>3, <2>4, <3>1, <3>2
  <2>6. IsPrefix(items, From(list))
    <3>1. Len(items) # 0 => First + Len(items) <= Len(list)
      BY <2>1, <2>2, StandingEnds DEF HonestInv, IInv
    <3>2. Len(items) <= Len(From(list))
      BY <2>2, <2>3, <3>1
    <3>3. ASSUME NEW i \in 1 .. Len(items)
          PROVE  items[i] = From(list)[i]
      <4>1. i \in DOMAIN items /\ i \in 1 .. Len(list) - First
        BY <2>2, <3>1, <3>3, LenProperties
      <4> QED BY <2>1, <2>2, <2>3, <4>1 DEF StandBehind
    <3> QED BY <2>2, <2>3, <2>4, <3>2, <3>3
  <2> QED BY <2>5, <2>6
<1> QED BY <1>1, HonestInductive, PTL
===============================================================================
