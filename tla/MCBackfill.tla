----------------------------- MODULE MCBackfill -----------------------------
(***************************************************************************)
(* A small instance of Backfill: two old rows of Nubank that today's rules *)
(* make a transfer and a ride, one they do not cover, one that was         *)
(* imported with a category today's rules would not give it, one of c6     *)
(* without a category, and a row of Nubank that a sync is still to commit. *)
(***************************************************************************)
EXTENDS Backfill, TLC

MCTransactions == {"pix", "ride", "odd", "old", "c6", "new"}
MCOld == MCTransactions \ {"new"}
MCNubank == MCTransactions \ {"c6"}
MCSpending == {"pix", "old", "c6", "new"}
MCFirst == [[t \in MCTransactions |-> None] EXCEPT !["old"] = "Transporte",
                                                   !["new"] = "Transferencia"]
MCInfer == [pix |-> "Transferencia", ride |-> "Transporte", odd |-> None,
            old |-> "Transferencia", c6 |-> "Transporte", new |-> "Transferencia"]
Symmetry == Permutations(Backfills)
=============================================================================
