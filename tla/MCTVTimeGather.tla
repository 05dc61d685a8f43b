---------------------------- MODULE MCTVTimeGather ----------------------------
(* Pages of two: the series and the history fill up to two pages, so that    *)
(* there are full, short and empty pages and good ones between failures;     *)
(* with one anime four shows meet two workers.  The history names an episode *)
(* on both of its pages, a special of the anime, which may not be followed,  *)
(* and one that is to be announced; an episode of the second series came     *)
(* without an id.                                                            *)
EXTENDS TVTimeGather, TLC

Most == [l \in Lists |-> CASE l = "series" -> 3 [] l = "anime" -> 1 [] l = "episode" -> 3]

Episode(season, id) == [season |-> season, id |-> id, special |-> FALSE, tba |-> FALSE]

Content ==
    (<<"series", 1>> :> <<Episode(1, 11), [Episode(1, 12) EXCEPT !.special = TRUE]>>) @@
    (<<"series", 2>> :> <<Episode(2, 0)>>) @@
    (<<"series", 3>> :> <<>>) @@
    (<<"anime", 1>> :> <<[Episode(1, 41) EXCEPT !.tba = TRUE], Episode(1, 42), Episode(0, 43)>>)

History ==
    <<[series |-> <<"series", 1>>, episode |-> 11, rewatches |-> 0],
      [series |-> <<"anime", 1>>, episode |-> 43, rewatches |-> 0],
      [series |-> <<"series", 1>>, episode |-> 11, rewatches |-> 1]>>
===============================================================================
