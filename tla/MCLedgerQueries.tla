-------------------------- MODULE MCLedgerQueries --------------------------
(***************************************************************************)
(* A small instance of LedgerQueries: an invoice of Nubank and one of c6   *)
(* from the start, an extract and a later invoice that are still to be     *)
(* committed; two rows share a date, and one is without a category, which *)
(* a backfill can give it.                                                 *)
(***************************************************************************)
EXTENDS LedgerQueries, TLC

Row(account, job, date, cents, text, first, inferred) ==
  [account |-> account, job |-> job, date |-> date, cents |-> cents,
   text |-> text, first |-> first, inferred |-> inferred]

MCData == [
  t1 |-> Row("nubank", "n1", 29, 300, "ride", None, "transport"),
  t2 |-> Row("nubank", "n1", 35, -200, "refund", "transport", None),
  t3 |-> Row("nubank", "n1", 33, 400, "ride", "transport", None),
  t4 |-> Row("c6", "c1", 33, 900, "tv", None, None),
  t5 |-> Row("checking", "a1", 32, 700, "bill", "bill", None),
  t6 |-> Row("checking", "a1", 34, 150, "pix", "transfer", None),
  t7 |-> Row("nubank", "n2", 40, 250, "ride", "transport", None) ]
MCTransactions == DOMAIN MCData
MCAccountData == [
  nubank |-> [bank |-> "nubank", type |-> "credit_card", card |-> ""],
  c6 |-> [bank |-> "c6", type |-> "credit_card", card |-> "1111"],
  checking |-> [bank |-> "nubank", type |-> "checking", card |-> "77"] ]

Everything == [bank |-> None, type |-> None, card |-> None, from |-> None, to |-> None,
               category |-> None]
MCFilters == {
  Everything,
  [Everything EXCEPT !.bank = "nubank", !.to = 33],
  [Everything EXCEPT !.type = "checking", !.from = 32],
  [Everything EXCEPT !.card = "1111"],
  [Everything EXCEPT !.category = "transport"] }
=============================================================================
