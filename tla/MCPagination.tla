----------------------------- MODULE MCPagination -----------------------------
(* Pagination for TLC: a list, and what an odd server may answer.            *)
EXTENDS Pagination, TLC

(* Where rows are only counted they need not differ.                         *)
Rows(n) == [i \in 1 .. n |-> "x"]

SevenRows == Rows(7)

Links == {[link |-> "none", offset |-> 0, limit |-> 0],
          [link |-> "malformed", offset |-> 0, limit |-> 0]}
         \cup [link : {"more"}, offset : 0 .. 4, limit : {1}]

Odd == [kind : {"envelope"}, items : {Rows(n) : n \in {0, 1, 4}}, offset : 0 .. 3, next : Links]
       \cup [kind : {"legacy-array"}, items : {Rows(n) : n \in {0, 1, 4}}, offset : {0},
             next : {[link |-> "none", offset |-> 0, limit |-> 0]}]
===============================================================================
