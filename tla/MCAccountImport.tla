--------------------------- MODULE MCAccountImport ---------------------------
(* Two migrations of a show with specials, a season of three entries (one    *)
(* without a number, which cannot be tracked), a season of one episode and a *)
(* season Serializd does not have.  At Serializd one regular season has      *)
(* "special" in its name; it may also lack its ids, or know specials only.   *)
EXTENDS AccountImport, TLC

Ep(n, seen) == [number |-> n, watched |-> seen]

Seasons(a, b, c, d) ==
    [n \in 0..3 |-> CASE n = 0 -> {Ep(1, d)}
                      [] n = 1 -> {Ep(0, TRUE), Ep(1, a), Ep(2, b)}
                      [] n = 2 -> {Ep(1, c)}
                      [] n = 3 -> {Ep(1, TRUE)}]

Shows == {[status |-> s, seasons |-> Seasons(a, FALSE, c, TRUE)] :
             s \in Statuses, a \in BOOLEAN, c \in BOOLEAN}

Season(id, number, named) == [id |-> id, number |-> number, named |-> named]

Answers == {<<Season(1, 1, FALSE), Season(2, 2, TRUE), Season(9, 0, TRUE)>>,
            <<Season(0, 1, FALSE), Season(2, 2, FALSE)>>,
            <<Season(9, 0, FALSE)>>}

Symmetric == Permutations(Jobs)
=============================================================================
