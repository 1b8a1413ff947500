---------------------------- MODULE MCStatements ----------------------------
(***************************************************************************)
(* A mailbox for Statements: an invoice of a card of c6 that comes again   *)
(* in a file without a date, that of a second card with the same billing   *)
(* date, two invoices of Nubank, one without a date, and two overlapping   *)
(* extracts of the account that pays them.  Days are numbers.              *)
(***************************************************************************)
EXTENDS Statements, TLC

CONSTANTS c1, c2, c3, n1, n2, a1, a2

Plain(event, day, printed, text) ==
  [event |-> event, day |-> day, printed |-> printed, text |-> text, form |-> "comma",
   marks |-> {}, inst |-> None, card |-> "", category |-> "", id |-> None]
C6Line(event, day, printed, text, card) ==
  [Plain(event, day, printed, text) EXCEPT !.card = card, !.category = "car"]
AccountLine(event, day, printed, text, id, marks) ==
  [Plain(event, day, printed, text) EXCEPT !.form = "point", !.id = id, !.marks = marks]

\* Two equal coffees, a plan of three instalments, a total and a number that
\* c6 could not have written with a point for thousands.
Invoice == <<
  [Plain("paid", 2, -5000, "payment") EXCEPT !.category = "-"],
  C6Line("coffee1", 3, 450, "coffee", "1111"), C6Line("coffee2", 3, 450, "coffee", "1111"),
  [C6Line("tv1", 1, 9900, "tv", "1111") EXCEPT !.inst = <<1, 3>>],
  [C6Line("car", 4, 123456, "car", "1111") EXCEPT !.form = "thousands"],
  [Plain("total", None, 10350, "total") EXCEPT !.card = "9999"] >>

MCStatementOf ==
  (c1 :> [source |-> "c6", named |-> 10, number |-> "", lines |-> Invoice]) @@
  (c2 :> [source |-> "c6", named |-> None, number |-> "", lines |-> Invoice]) @@
  (c3 :> [source |-> "c6", named |-> 10, number |-> "", lines |-> <<
     C6Line("coffee3", 3, 450, "coffee", "2222"), C6Line("fuel", 3, 7000, "fuel", "2222") >>]) @@
  (n1 :> [source |-> "nubank", named |-> 11, number |-> "", lines |-> <<
     [Plain("desk1", 1, 123456, "desk") EXCEPT !.form = "thousands", !.inst = <<1, 2>>],
     [Plain("film", 5, 3990, "film") EXCEPT !.form = "point", !.marks = {8}],
     [Plain("eats", 5, 6000, "uber eats") EXCEPT !.marks = {1, 6}],
     Plain("refund", 6, -3000, "refund"),
     [Plain("torn", 6, 100, "torn") EXCEPT !.form = "words"] >>]) @@
  (n2 :> [source |-> "nubank", named |-> None, number |-> "", lines |-> <<
     [Plain("desk2", 1, 123456, "desk") EXCEPT !.form = "thousands", !.inst = <<2, 2>>],
     [Plain("eats", 5, 6000, "uber eats") EXCEPT !.marks = {1, 6}] >>]) @@
  (a1 :> [source |-> "account", named |-> 9, number |-> "77", lines |-> <<
     AccountLine("bill", 7, -9000, "bill", "id1", {16}),
     AccountLine("added", 8, 2000, "pix", "id2", {}), AccountLine("spent", 8, -2000, "pix", "id2", {2, 17}),
     AccountLine("fee", 8, -10, "fee", None, {}) >>]) @@
  (a2 :> [source |-> "account", named |-> 12, number |-> "77", lines |-> <<
     AccountLine("spent", 8, -2000, "pix", "id2", {2, 17}), AccountLine("added", 8, 2000, "pix", "id2", {}),
     AccountLine("fee", 8, -10, "fee", None, {}),
     AccountLine("friend", 9, -500, "pix", "id3", {17}),
     AccountLine("vet", 9, -8000, "pix vet", "id5", {17, 19}),
     AccountLine("self", 9, -700, "pix self", "id6", {17}),
     AccountLine("wallet", 9, -600, "pix self, mercado pago", "id7", {3, 17}),
     AccountLine("boleto", 10, -10350, "boleto", "id8", {}),
     [AccountLine("odd", 9, -500, "odd", "id4", {}) EXCEPT !.form = "comma"] >>])

MCOutflow ==
  [paid |-> -5000, coffee1 |-> 450, coffee2 |-> 450, coffee3 |-> 450, tv1 |-> 9900,
   car |-> 123456, fuel |-> 7000, desk1 |-> 123456, desk2 |-> 123456, film |-> 3990,
   eats |-> 6000, refund |-> -3000, bill |-> 9000, added |-> -2000, spent |-> 2000,
   fee |-> 10, friend |-> 500, vet |-> 8000, self |-> 700, wallet |-> 600, boleto |-> 10350,
   odd |-> 500, torn |-> 100]

\* Not spent: what comes in, the bills of both cards, also the one that is paid
\* by a slip, and what goes to own accounts, also to one with a payment service.
MCIsSpend ==
  [e \in DOMAIN MCOutflow |->
     MCOutflow[e] > 0 /\ e \notin {"bill", "boleto", "self", "wallet"}]
=============================================================================
