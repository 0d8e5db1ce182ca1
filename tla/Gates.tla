--------------------------------- MODULE Gates ---------------------------------
(***************************************************************************)
(* The correctness gates (run_gates of src/harness/src/corpus.rs) as       *)
(* operators on a table: a set of rows <<batch_id, event_seq>> and those   *)
(* of them that it holds twice.                                            *)
(*                                                                         *)
(* The checks on the rows' content (sums and fingerprints) are left out:   *)
(* they are taken over the same distinct rows as the count of identities.  *)
(***************************************************************************)
EXTENDS Naturals, FiniteSets, FiniteSetsExt

CONSTANTS
  Seqs,       \* the events of a message that the filter keeps
  MaxBatches  \* GATE_MAX_BATCHES: the messages looked at, from the top

ASSUME GatesAssumption ==
  IsFiniteSet(Seqs) /\ Seqs # {} /\ MaxBatches \in Nat \ {0}

Ids(rows) == {r[1] : r \in rows}

\* min(batch_id), max(batch_id): 0 and 0 of an empty table.
min_batch(rows) == IF rows = {} THEN 0 ELSE Min(Ids(rows))
max_batch(rows) == IF rows = {} THEN 0 ELSE Max(Ids(rows))

\* Mutant: the last batch is gated too.
HiInclusive(rows) == max_batch(rows) + 1

hi(rows) == max_batch(rows)

lo(rows) ==
  LET top == IF hi(rows) > MaxBatches THEN hi(rows) - MaxBatches ELSE 0
  IN IF min_batch(rows) + 1 > top THEN min_batch(rows) + 1 ELSE top

Gated(rows) == {r \in rows : lo(rows) <= r[1] /\ r[1] < hi(rows)}

\* The range is too narrow to gate: an Err of the whole gate.
Narrow(rows) == max_batch(rows) <= min_batch(rows) + 1

contiguous(rows) == Cardinality(Ids(Gated(rows))) = hi(rows) - lo(rows)

\* Mutant: rows are counted, not identities.
RowsNotDistinct(rows, twice) ==
  Cardinality(Gated(rows)) + Cardinality(Gated(rows) \intersect twice)
    = (hi(rows) - lo(rows)) * Cardinality(Seqs)

\* "Compared against distinct ids, so a duplicate cannot mask a loss."
rows_match(rows, twice) ==
  Cardinality(Gated(rows)) = (hi(rows) - lo(rows)) * Cardinality(Seqs)

passed(rows, twice) == contiguous(rows) /\ rows_match(rows, twice)

\* What a gate is for, row by row: every row of every message it looks at.
Complete(rows) == \A m \in lo(rows)..(hi(rows) - 1), s \in Seqs : <<m, s>> \in rows

\* The rows of the messages strictly between the first and the last.
Interior(rows) ==
  ((min_batch(rows) + 1)..(max_batch(rows) - 1)) \X Seqs
=============================================================================
