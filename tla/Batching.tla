------------------------------ MODULE Batching ------------------------------
(***************************************************************************)
(* Which queued rows the next upload carries: Spool.candidates (spool.py)  *)
(* chooses per station, Uploader._batch (uploader.py) merges the stations. *)
(* Both are loops over SQL cursors; here the order in which they inspect   *)
(* rows is given by a place, and the loop over that order is one fold.     *)
(***************************************************************************)
EXTENDS Integers, FiniteSets, Sequences, SequencesExt

\* Mutant: newest first, whatever the station sent last.
Turn_NewestFirst(e, D, seq, newest) == Cardinality({f \in D : seq[f] > seq[e]})

\* The place of row e in the alternating list that candidates builds from the
\* due rows D: oldest, newest, second oldest, second newest, ... or the same
\* with the two ends exchanged; zip_longest over two lists of the same rows,
\* the second occurrence of a row skipped.
Turn(e, D, seq, newest) ==
    LET older == Cardinality({f \in D : seq[f] < seq[e]})
        newer == Cardinality(D) - 1 - older
        fromFirst == IF newest THEN newer ELSE older
        fromSecond == IF newest THEN older ELSE newer
    IN  IF 2 * fromFirst < 2 * fromSecond + 1 THEN 2 * fromFirst ELSE 2 * fromSecond + 1

\* What candidates returns: the first `limit' rows of that list.
Candidates(D, seq, newest, limit) ==
    {e \in D : Turn(e, D, seq, newest) < limit}

\* self.spools[self.cursor:] + self.spools[:self.cursor]: how far the spool at
\* index i of n is from the one at index front, indices from 0.
Distance(i, front, n) == (i + n - front) % n

\* One inspection of a row: take it, pass it over because the request would
\* exceed the byte limit, or set it apart because no request could carry it.
Inspect(acc, e, size, limits) ==
    IF Cardinality(acc.chosen) >= limits.packets THEN acc
    ELSE IF acc.bytes + size[e] <= limits.bytes
    THEN [acc EXCEPT !.chosen = @ \cup {e}, !.bytes = @ + size[e]]
    ELSE IF size[e] > limits.bytes
    THEN [acc EXCEPT !.tooLarge = @ \cup {e}]
    ELSE acc

NothingChosen == [chosen |-> {}, tooLarge |-> {}, bytes |-> 0]

\* The last of some rows, each given with its place, and the loop over them.
LastOf(rows) == CHOOSE p \in rows : \A q \in rows : q[1] <= p[1]

Inspected(rows, size, limits) ==
    MapThenFoldSet(LAMBDA p, acc : Inspect(acc, p[2], size, limits), NothingChosen,
                   LAMBDA p : p, LastOf, rows)

\* The batch: the k-th candidates of all spools are inspected before any
\* (k+1)-th, starting from the spool whose turn it is.  `due' and `newest'
\* are functions of the station, `index' its place in self.spools.
Pick(due, seq, newest, size, index, front, limits) ==
    LET stations == DOMAIN due
        n == Cardinality(stations)
        place == [s \in stations |->
                    [e \in Candidates(due[s], seq, newest[s], limits.packets) |->
                       n * Turn(e, due[s], seq, newest[s]) + Distance(index[s], front, n)]]
        offered == UNION {{<<place[s][e], e>> : e \in DOMAIN place[s]} : s \in stations}
    IN  Inspected(offered, size, limits)
=============================================================================
