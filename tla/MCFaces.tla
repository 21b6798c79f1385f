------------------------------- MODULE MCFaces ------------------------------
(***************************************************************************)
(* A small instance of Faces: three memories, stored one after another,    *)
(* and a fourth to come; limits and budgets on both sides of the defaults, *)
(* the maxima and the int32 range, which are scaled down.                  *)
(***************************************************************************)
EXTENDS Faces, TLC

CONSTANTS m1, m2, m3, m4, a, b

Memory(pk, id, keywords, words, created, expires) ==
  [pk |-> pk, id |-> id, keywords |-> keywords, words |-> words, up |-> 0, down |-> 0,
   reads |-> 0, created |-> created, expires |-> expires, superseded |-> FALSE]

MCStores == {{Memory(1, m1, {a}, {}, 0, 3), Memory(2, m2, {a, b}, {b}, 1, 9),
              Memory(3, m3, {b}, {a}, 2, 9)}}

Filter == [query |-> {}, keywords |-> {}, any |-> {}, since |-> {}, until |-> {}, limit |-> 1,
           offset |-> 0, order |-> "relevance", skipTotal |-> FALSE, dead |-> FALSE]

MCSearches ==
  {[Filter EXCEPT !.any = {a, b}],
   [Filter EXCEPT !.query = {a}, !.limit = 2, !.dead = TRUE],
   [Filter EXCEPT !.order = "created_desc", !.dead = TRUE],
   [Filter EXCEPT !.order = "created_asc", !.since = {1}, !.limit = 0],
   [Filter EXCEPT !.order = "rating_desc", !.keywords = {a}, !.limit = 9],
   [Filter EXCEPT !.order = "rating_asc", !.until = {2}, !.limit = 7, !.dead = TRUE],
   [Filter EXCEPT !.order = "reads_asc", !.limit = -1],
   [Filter EXCEPT !.order = "reads_desc", !.any = {a}, !.limit = 4]}

MCForms == {[keywords |-> {a}, words |-> {b}, lifetime |-> 5]}

MCBatches == {<<m1, m2>>, <<m2, m4, m2>>}

MCPacks == {[any |-> {a, b}, query |-> {}, budget |-> 0],
            [any |-> {a, b}, query |-> {}, budget |-> 3],
            [any |-> {b}, query |-> {a}, budget |-> 7],
            [any |-> {a}, query |-> {}, budget |-> 13]}

(* m1 has the word a in fewer words than m3 has, and m2 gains by the       *)
(* length of the others when m4 is there: more than a vote or two weigh.   *)
MCTextRank ==
  [ids \in SUBSET Ids |-> [query \in SUBSET Terms |-> [id \in Ids |->
    IF a \notin query THEN 5
    ELSE CASE id = m1 -> 75 [] id = m2 -> IF m4 \in ids THEN 100 ELSE 10
           [] id = m3 -> 30 [] OTHER -> 2]]]

MCSize == [id \in Ids |-> IF id = m2 THEN 4 ELSE 1]
=============================================================================
