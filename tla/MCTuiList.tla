----------------------------- MODULE MCTuiList ------------------------------
(***************************************************************************)
(* Small stores behind the list screen: two or three rows, one of r1..r3   *)
(* still to be written, pages of one row, layers that deepen twice. The    *)
(* queries: the timeline oldest or newest first, a search for terms, and   *)
(* the review preset.                                                      *)
(***************************************************************************)
EXTENDS TuiList

CONSTANTS r1, r2, r3, oldest, newest, search, review

TwoRows == <<r1, r2>>

ThreeRows == <<r1, r2, r3>>

Plain == [terms |-> FALSE, review |-> FALSE, newest |-> FALSE, rows |-> Rows,
          keyword |-> {}, text |-> {}, fuzzy |-> {}]

MCAsks ==
  [q \in Queries |->
     CASE q = oldest -> Plain
       [] q = newest -> [Plain EXCEPT !.newest = TRUE]
       [] q = review -> [Plain EXCEPT !.review = TRUE]
       [] q = search -> [Plain EXCEPT !.terms = TRUE, !.keyword = {r1, r3},
                                      !.text = {r2, r3}, !.fuzzy = {r2}]]
=============================================================================
