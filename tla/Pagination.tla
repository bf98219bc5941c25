------------------------------ MODULE Pagination ------------------------------
(***************************************************************************)
(* collectAllPages of src/pagination.ts, as the executors of               *)
(* src/modules/paginated-list.ts call it: one aggregate read of a list     *)
(* that other users change while its pages are fetched, from a server that *)
(* may also answer pages that make no sense.                               *)
(*                                                                         *)
(* Between two requests the code runs without interruption, but not in no  *)
(* time: each reading of the clock may be later than the one before.       *)
(***************************************************************************)
EXTENDS Integers, FiniteSets, SequencesExt

CONSTANTS
  MaxPages, MaxItems, MaxBytes, MaxDuration, (* the bounds of the aggregate *)
  PageSizes,      (* the pageSize a caller may ask for                     *)
  StartOffsets,   (* the startOffset a caller may ask for                  *)
  ServerLimits,   (* the largest page the server returns, each time one    *)
  InitialList,    (* the list before anybody changes it                    *)
  NewRows,        (* rows others may insert                                *)
  OddPages,       (* pages an odd server may answer                        *)
  MaxTime         (* bound of the model: the clock stops                   *)

Undefined == -1

Row == NewRows \cup {InitialList[i] : i \in DOMAIN InitialList}
             \cup UNION {{page.items[i] : i \in DOMAIN page.items} : page \in OddPages}

(* _links.next: "none", one that cannot be parsed, or a continuation.      *)
Link == [link : {"none", "malformed", "more"}, offset : Nat, limit : Nat]

(* A decoded page; a bare array has no links.                              *)
Page == {page \in [kind : {"envelope", "legacy-array"}, items : Seq(Row), offset : Nat, next : Link] :
           page.kind = "legacy-array" => page.next.link = "none"}

ASSUME PaginationAssumption ==
  /\ MaxPages \in Nat \ {0} /\ MaxItems \in Nat \ {0} /\ MaxBytes \in Nat \ {0}
  /\ MaxDuration \in Nat \ {0} /\ MaxTime \in Nat
  /\ PageSizes \subseteq Nat \ {0} /\ StartOffsets \subseteq Nat
  /\ ServerLimits \subseteq Nat \ {0}
  /\ InitialList \in Seq(Row)
  /\ OddPages \subseteq Page

VARIABLES
  now,
  list,           (* the list at the server                                *)
  server,         (* "pages", "bare" that knows none, or "odd"             *)
  listAtStart,    (* history: the list when the aggregate began            *)
  shifted,        (* history: rows have moved since then                   *)
  stage,          (* "idle", "asking", "answered", "returned", "failed"    *)
  options,        (* requestControls, pageSize, startOffset                *)
  next,           (* nextOffset and nextLimit                              *)
  reply,          (* the page on its way                                   *)
  expectedOffset,
  items,
  fetched,        (* pagesFetched, itemsFetched, bytesFetched              *)
  deadlineAt,
  error,          (* what a failed aggregate reports                       *)
  received,       (* history: what has been received, as fetched counts it *)
  positions       (* history: the positions the pages of items claim       *)

aggregate == <<stage, options, next, reply, expectedOffset, items, fetched, deadlineAt,
               error, received, positions>>
world == <<list, server, listAtStart, shifted>>
vars == <<now, world, aggregate>>

NoPage == [kind |-> "legacy-array", items |-> <<>>, offset |-> 0,
           next |-> [link |-> "none", offset |-> 0, limit |-> 0]]

Reasons == {"max_pages", "max_items", "max_duration", "max_bytes", "invalid_page",
            "invalid_continuation", "non_progress"}

TypeOK ==
  /\ now \in Nat /\ deadlineAt \in Nat
  /\ list \in Seq(Row) /\ listAtStart \in Seq(Row)
  /\ server \in {"pages", "bare", "odd"} /\ shifted \in BOOLEAN
  /\ stage \in {"idle", "asking", "answered", "returned", "failed"}
  /\ options \in [requestControls : BOOLEAN, pageSize : Nat, startOffset : Nat]
  /\ next \in [offset : Nat \cup {Undefined}, limit : Nat \cup {Undefined}]
  /\ reply \in Page
  /\ expectedOffset \in Nat
  /\ items \in Seq(Row)
  /\ fetched \in [pages : Nat, items : Nat, bytes : Nat]
  /\ error \in [reason : Reasons \cup {"fetch", "none"}, pages : Nat, items : Nat]
  /\ received \in [pages : Nat, items : Nat, bytes : Nat]
  /\ positions \subseteq Nat

Init ==
  /\ now = 0 /\ deadlineAt = 0
  /\ list = InitialList /\ listAtStart = InitialList
  /\ server \in {"pages", "bare", "odd"}
  /\ shifted = FALSE
  /\ stage = "idle"
  /\ options = [requestControls |-> TRUE, pageSize |-> 0, startOffset |-> 0]
  /\ next = [offset |-> 0, limit |-> 0]
  /\ reply = NoPage
  /\ expectedOffset = 0
  /\ items = <<>>
  /\ fetched = [pages |-> 0, items |-> 0, bytes |-> 0]
  /\ error = [reason |-> "none", pages |-> 0, items |-> 0]
  /\ received = [pages |-> 0, items |-> 0, bytes |-> 0]
  /\ positions = {}
-------------------------------------------------------------------------------
(* Asking.                                                                 *)

(* resolved.startOffset ?? 0                                               *)
expectedFrom(controls, offset) == IF controls THEN offset ELSE 0

(* The aggregate asks for its first page; without requestControls there is *)
(* no pageSize and no startOffset.                                         *)
Start(controls, pageSize, offset) ==
  /\ stage = "idle"
  /\ stage' = "asking"
  /\ options' = [requestControls |-> controls, pageSize |-> pageSize, startOffset |-> offset]
  /\ next' = IF controls THEN [offset |-> offset, limit |-> pageSize]
             ELSE [offset |-> Undefined, limit |-> Undefined]
  /\ expectedOffset' = expectedFrom(controls, offset)
  /\ deadlineAt' = now + MaxDuration
  /\ listAtStart' = list
  /\ UNCHANGED <<now, list, server, shifted, reply, items, fetched, error, received, positions>>

Least(a, b) == IF a < b THEN a ELSE b

(* The server answers what it is asked, from the list as it is now, with   *)
(* a page of its own largest size if that is less.                         *)
HonestPage(largest) ==
  LET offset == IF next.offset = Undefined THEN 0 ELSE next.offset
      limit == IF next.limit = Undefined THEN largest ELSE Least(next.limit, largest)
      after == offset + limit
  IN  [kind |-> "envelope", offset |-> offset,
       items |-> SubSeq(list, offset + 1, Least(after, Len(list))),
       next |-> IF after < Len(list) THEN [link |-> "more", offset |-> after, limit |-> limit]
                ELSE [link |-> "none", offset |-> 0, limit |-> 0]]

(* A server without pagination: the whole list, whatever was asked.        *)
LegacyPage == [NoPage EXCEPT !.items = list]

Serve(page) ==
  /\ stage = "asking"
  /\ stage' = "answered"
  /\ reply' = page
  /\ UNCHANGED <<now, world, options, next, expectedOffset, items, fetched, deadlineAt,
                 error, received, positions>>
-------------------------------------------------------------------------------
(* Looking at a page.                                                      *)

(* UTF-8 bytes of the serialized items: brackets, and something per row.   *)
serializedByteLength(rows) == 2 + Len(rows)

(* What the counters say after this page.                                  *)
CountedWith(page) ==
  [pages |-> fetched.pages + 1, items |-> fetched.items + Len(page.items),
   bytes |-> fetched.bytes + serializedByteLength(page.items)]

(* The continuation does not advance.                                      *)
Stuck(page) == page.next.offset <= page.offset

(* The continuation begins within this page.                               *)
Overlaps(page) == page.next.offset - page.offset < Len(page.items)

(* A mutated form: one page too many.                                      *)
refusesContinuationLate(page, counted, at) ==
  IF page.next.link = "malformed" THEN "invalid_continuation"
  ELSE IF Stuck(page) \/ Overlaps(page) THEN "non_progress"
  ELSE IF counted.pages > MaxPages THEN "max_pages"
  ELSE IF counted.items >= MaxItems THEN "max_items"
  ELSE IF counted.bytes >= MaxBytes THEN "max_bytes"
  ELSE IF at >= deadlineAt THEN "max_duration"
  ELSE "none"

(* A mutated form: one page too few.                                       *)
refusesContinuationEarly(page, counted, at) ==
  IF counted.pages >= MaxPages - 1 THEN "max_pages"
  ELSE IF counted.items >= MaxItems THEN "max_items"
  ELSE IF counted.bytes >= MaxBytes THEN "max_bytes"
  ELSE "none"

(* Why the next page is not asked for, or "none"; the last check is the    *)
(* first one of collectNext.                                               *)
refusesContinuation(page, counted, at) ==
  IF page.next.link = "malformed" THEN "invalid_continuation"
  ELSE IF Stuck(page) \/ Overlaps(page) THEN "non_progress"
  ELSE IF counted.pages >= MaxPages THEN "max_pages"
  ELSE IF counted.items >= MaxItems THEN "max_items"
  ELSE IF counted.bytes >= MaxBytes THEN "max_bytes"
  ELSE IF at >= deadlineAt THEN "max_duration"
  ELSE "none"

(* A mutated form: the clock is not read again before the items are        *)
(* returned.                                                               *)
refusesWithoutRecheck(page, counted, at1, at2, at3) ==
  IF at1 >= deadlineAt THEN "max_duration"
  ELSE IF page.kind = "envelope" /\ page.offset # expectedOffset THEN "invalid_page"
  ELSE IF counted.items > MaxItems THEN "max_items"
  ELSE IF at2 >= deadlineAt THEN "max_duration"
  ELSE IF counted.bytes > MaxBytes THEN "max_bytes"
  ELSE IF page.next.link # "none" THEN refusesContinuation(page, counted, at3)
  ELSE "none"

(* A mutated form: what just fills the byte bound is refused.              *)
refusesFullBytes(page, counted, at1, at2, at3) ==
  IF at1 >= deadlineAt THEN "max_duration"
  ELSE IF page.kind = "envelope" /\ page.offset # expectedOffset THEN "invalid_page"
  ELSE IF counted.items > MaxItems THEN "max_items"
  ELSE IF at2 >= deadlineAt THEN "max_duration"
  ELSE IF counted.bytes >= MaxBytes THEN "max_bytes"
  ELSE IF page.next.link # "none" THEN refusesContinuation(page, counted, at3)
  ELSE "none"

(* Why a page that was received fails the aggregate, or "none".            *)
refuses(page, counted, at1, at2, at3) ==
  IF at1 >= deadlineAt THEN "max_duration"
  ELSE IF page.kind = "envelope" /\ page.offset # expectedOffset THEN "invalid_page"
  ELSE IF counted.items > MaxItems THEN "max_items"
  ELSE IF at2 >= deadlineAt THEN "max_duration"
  ELSE IF counted.bytes > MaxBytes THEN "max_bytes"
  ELSE IF page.next.link # "none" THEN refusesContinuation(page, counted, at3)
  ELSE IF at3 >= deadlineAt THEN "max_duration"
  ELSE "none"

FailWith(reason, counted) ==
  /\ stage' = "failed"
  /\ error' = [reason |-> reason, pages |-> counted.pages, items |-> counted.items]

(* A mutated form: the last page is forgotten.                             *)
appendUnlessLast(page) == IF page.next.link = "none" THEN items ELSE items \o page.items

appendPageItems(page) == items \o page.items

(* The positions a page says its rows have; a bare array says nothing, and *)
(* is taken for the answer to what was asked.                              *)
Claimed(page) ==
  LET first == IF page.kind = "envelope" THEN page.offset ELSE expectedOffset
  IN  first .. first + Len(page.items) - 1

(* A page is received; the clock is read three times on the way.           *)
Receive(at2, at3) ==
  LET page == reply
      counted == CountedWith(page)
      refusal == refuses(page, counted, now, at2, at3)
  IN  /\ stage = "answered"
      /\ now <= at2 /\ at2 <= at3 /\ at3 <= MaxTime
      /\ now' = at3
      /\ reply' = NoPage
      /\ received' = [pages |-> received.pages + 1, items |-> received.items + Len(page.items),
                      bytes |-> received.bytes + serializedByteLength(page.items)]
      /\ UNCHANGED <<world, options, deadlineAt>>
      /\ \/ /\ refusal # "none"
            /\ FailWith(refusal, counted)
            /\ UNCHANGED <<next, expectedOffset, items, fetched, positions>>
         \/ /\ refusal = "none"
            /\ items' = appendPageItems(page)
            /\ fetched' = counted
            /\ positions' = positions \cup Claimed(page)
            /\ UNCHANGED error
            /\ \/ /\ page.next.link = "none"
                  /\ stage' = "returned"
                  /\ UNCHANGED <<next, expectedOffset>>
               \/ /\ page.next.link = "more"
                  /\ stage' = "asking"
                  /\ next' = [offset |-> page.next.offset,
                              limit |-> IF options.requestControls THEN options.pageSize
                                        ELSE page.next.limit]
                  /\ expectedOffset' = page.next.offset

(* What an undecodable page reports, whose decoder knows of no others.     *)
countersBefore == [pages |-> fetched.pages, items |-> fetched.items]

(* The request fails: its budget is spent, it was not answered, or what it *)
(* was answered cannot be decoded.                                         *)
FetchFails(how) ==
  /\ stage \in {"asking", "answered"}
  /\ \/ /\ how = "expired" \/ now >= deadlineAt
        /\ FailWith("max_duration", fetched)
     \/ /\ how = "undecodable" /\ now < deadlineAt
        /\ FailWith("invalid_page", countersBefore)
     \/ /\ how = "other" /\ now < deadlineAt
        /\ FailWith("fetch", fetched)
  /\ UNCHANGED <<now, world, options, next, reply, expectedOffset, items, fetched,
                 deadlineAt, received, positions>>
-------------------------------------------------------------------------------
(* The world, until the aggregate has ended.                               *)

(* An odd server makes its pages up; its list does not matter.             *)
Honest == server # "odd"

Ended == stage \in {"returned", "failed"}

AppendRow(row) ==
  /\ ~ Ended /\ Honest /\ ~ Contains(list, row)
  /\ list' = Append(list, row)
  /\ UNCHANGED <<now, server, listAtStart, shifted, aggregate>>

RemoveRow(i) ==
  /\ ~ Ended /\ Honest
  /\ list' = RemoveAt(list, i)
  /\ shifted' = (stage # "idle")
  /\ UNCHANGED <<now, server, listAtStart, aggregate>>

Tick ==
  /\ ~ Ended /\ now < MaxTime
  /\ now' = now + 1
  /\ UNCHANGED <<world, aggregate>>

Next ==
  \/ \E pageSize \in PageSizes, offset \in StartOffsets : Start(TRUE, pageSize, offset)
  \/ Start(FALSE, 0, 0)
  \/ \E largest \in ServerLimits : server = "pages" /\ Serve(HonestPage(largest))
  \/ server = "bare" /\ Serve(LegacyPage)
  \/ ~ Honest /\ \E page \in OddPages : Serve(page)
  \/ \E at2, at3 \in now .. MaxTime : Receive(at2, at3)
  \/ \E how \in {"expired", "undecodable", "other"} : FetchFails(how)
  \/ \E row \in NewRows : AppendRow(row)
  \/ \E i \in DOMAIN list : RemoveRow(i)
  \/ Tick

Spec == Init /\ [][Next]_vars
-------------------------------------------------------------------------------
(* Safety.                                                                 *)

(* Where the list is collected from: nothing is skipped by a server        *)
(* without pages, nor where no startOffset can be asked for.               *)
First == IF server = "pages" /\ options.requestControls THEN options.startOffset ELSE 0

From(rows) == SubSeq(rows, First + 1, Len(rows))

(* A list that at most grew at its end while it was collected is returned  *)
(* from startOffset on: nothing that was there is missing, nothing is      *)
(* repeated, whatever sizes were asked for and granted.                    *)
CollectedIsList ==
  stage = "returned" /\ ~ shifted /\ Honest =>
    IsPrefix(From(listAtStart), items) /\ IsPrefix(items, From(list))

(* An honest server's list is refused only for the bound that is named, and  *)
(* only when it is exceeded, or reached with more of the list to come: one   *)
(* that ends exactly at a bound is returned.  Its pages are never called     *)
(* wrong, unless they could not be decoded.                                  *)
RefusedForCause ==
  stage = "failed" /\ ~ shifted /\ Honest =>
    LET more == Len(From(list)) > received.items
    IN  /\ error.reason \notin {"invalid_continuation", "non_progress"}
        /\ error.reason = "invalid_page" => received = fetched
        /\ error.reason = "max_pages" => received.pages = MaxPages /\ more
        /\ error.reason = "max_items" => received.items >= MaxItems /\ Len(From(list)) > MaxItems
        /\ error.reason = "max_bytes" => \/ received.bytes > MaxBytes
                                         \/ received.bytes = MaxBytes /\ more

(* No position of the list is collected twice, whatever offsets, sizes and *)
(* continuations a server makes up.                                        *)
NoPositionTwice == Cardinality(positions) = Len(items)

(* An aggregate stays within its bounds, however long the list and however *)
(* the server continues it; what it returns is everything that it counted. *)
WithinBounds ==
  /\ stage \in {"asking", "answered"} => fetched.pages < MaxPages
  /\ fetched.pages <= MaxPages /\ fetched.bytes <= MaxBytes
  /\ Len(items) <= MaxItems /\ Len(items) = fetched.items

(* Every page asked for lies behind the one before it: an aggregate cannot *)
(* be kept in a loop.                                                      *)
AsksAdvance ==
  [][stage = "answered" /\ stage' = "asking" => next'.offset > expectedOffset]_vars

(* Nothing is returned, and no page is asked for, once the deadline has    *)
(* passed, also when it passed while a page was being looked at.           *)
NothingAfterDeadline ==
  [][stage = "answered" /\ stage' \in {"asking", "returned"} => now' < deadlineAt]_vars

(* An aggregate that fails reports the pages and rows it had received, not *)
(* the counters of whoever found the fault.                                *)
ErrorCountsProgress ==
  stage = "failed" /\ error.reason # "fetch" =>
    error.pages = received.pages /\ error.items = received.items
-------------------------------------------------------------------------------
(* Why it is safe.                                                         *)

(* What has been collected lies before what is asked for.                  *)
CollectedLiesBehind ==
  stage \in {"idle", "asking", "answered"} => \A p \in positions : p < expectedOffset

(* Until it fails, an aggregate counts what it receives.                   *)
CountsReceived ==
  stage # "failed" => received = fetched

(* Nothing is collected before anything is asked.                          *)
IdleIsEmpty ==
  stage = "idle" => /\ items = <<>> /\ positions = {}
                    /\ fetched = [pages |-> 0, items |-> 0, bytes |-> 0]

(* The rows are those of the list, behind position at.                     *)
StandBehind(at, rows) ==
  \A i \in DOMAIN rows : at + i \in DOMAIN list /\ rows[i] = list[at + i]

(* Where the next row to be collected stands.                              *)
Collected == First + Len(items)

(* The first page is asked for without controls or at startOffset, later   *)
(* ones where the collected rows end.                                      *)
AsksBehindCollected ==
  stage = "asking" /\ server = "pages" =>
    /\ next.limit # 0
    /\ next.offset = Collected \/ (next.offset = Undefined /\ Collected = 0)

(* An answer on its way goes on where the collected rows end; it is the    *)
(* last one only if it completes the list that was there.                  *)
AnswerGoesOn ==
  stage = "answered" =>
    /\ StandBehind(Collected, reply.items)
    /\ reply.kind = "envelope" => server = "pages" /\ reply.offset = Collected
    /\ reply.next.link \in {"none", "more"}
    /\ reply.next.link = "none" => Len(listAtStart) <= Collected + Len(reply.items)
    /\ reply.next.link = "more" =>
         /\ server = "pages" /\ reply.offset = Collected /\ Len(reply.items) # 0
         /\ reply.next.offset = Collected + Len(reply.items)
         /\ reply.next.offset < Len(list)
         /\ reply.next.limit # 0

(* What an honest server's list is like while it only grows.               *)
HonestProgress ==
  ~ shifted /\ Honest /\ stage # "idle" =>
    /\ options.requestControls => options.pageSize # 0
    /\ StandBehind(0, listAtStart)
    /\ StandBehind(First, items)
    /\ stage \in {"asking", "answered"} =>
         IF server = "pages" THEN expectedOffset = Collected ELSE items = <<>>
    /\ AsksBehindCollected
    /\ AnswerGoesOn
    /\ stage = "returned" => Len(listAtStart) <= Collected

IInv ==
  /\ TypeOK /\ WithinBounds /\ IdleIsEmpty /\ CountsReceived /\ ErrorCountsProgress
  /\ CollectedLiesBehind /\ IsFiniteSet(positions) /\ NoPositionTwice
===============================================================================
