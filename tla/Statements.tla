----------------------------- MODULE Statements -----------------------------
(***************************************************************************)
(* From the lines of a statement to the rows of the table: the three       *)
(* importers read amounts, dates, instalments and cards, infer_category    *)
(* names what a row was for, make_row_hash decides which rows are the      *)
(* same, and the INSERT skips those whose hash is there.                   *)
(*                                                                         *)
(* Banks print one payment in several statements: an invoice is sent       *)
(* again, extracts of an account overlap, an invoice lists the purchases   *)
(* and an extract the payment of the invoice.  The properties compare the  *)
(* table with the payments behind the lines.                               *)
(*                                                                         *)
(* One message is imported in one step: SyncBank has the interleavings.    *)
(***************************************************************************)
EXTENDS Integers

CONSTANTS
  Messages,      \* messages of the mailbox, one statement each
  StatementOf,   \* StatementOf[m]: [source, named, number, lines]
  Outflow,       \* Outflow[e]: the cents payment e takes from the owner
  IsSpend,       \* IsSpend[e]: e was paid to others, for whatever it was, and is
                 \* neither the bill of an own card, nor money moved between own
                 \* accounts, nor income
  FirstDay, LastDay,  \* the days on which syncs run
  None

Sources == {"c6", "nubank", "account"}

ASSUME StatementAssumption ==
  /\ \A m \in Messages : /\ StatementOf[m].source \in Sources
                         /\ DOMAIN StatementOf[m].lines \subseteq Nat
  /\ None \notin Sources
  /\ FirstDay \in Nat /\ LastDay \in Nat /\ FirstDay <= LastDay

VARIABLES
  today,     \* the day of the server's clock
  imported,  \* messages that have a job
  rows       \* the table of transactions

vars == <<today, imported, rows>>

Bank(source) == IF source = "c6" THEN "c6" ELSE "nubank"

\* Printed in the name of the file, or else the day on which it is fetched.
BillingDate(s) == IF s.named # None THEN s.named ELSE today

-----------------------------------------------------------------------------
(* Reading a line: [day, printed, form, text, marks, inst, card, category, *)
(* id, event].  "form" is how the number "printed" (in cents) is written.  *)

\* "1.234,56" has two points once the comma is one, and is no number.
ReadC6(line) == IF line.form \in {"comma", "point"} THEN line.printed ELSE None

\* Points go before the comma becomes one, the decimal point included.
ReadNubank(line) ==
  IF line.form \in {"comma", "thousands"} THEN line.printed
  ELSE IF line.form = "point" THEN 100 * line.printed ELSE None

\* Mutant: money that comes in stays positive.
ReadAccountUnflipped(line) == IF line.form = "point" THEN line.printed ELSE None

ReadAccount(line) == IF line.form = "point" THEN -line.printed ELSE None

\* Categories of the rules, in their order: the marks of a text are the
\* rules whose pattern occurs in it.
Rules == <<"restaurant", "restaurant", "market", "health", "car", "transport",
           "retail", "fun", "telecom", "education", "health", "transport",
           "sport", "market", "lottery", "bill", "transfer", "clothes", "pet">>
TransferCategories == {"transfer", "bill"}

\* Mutant: the last match wins.
InferLast(marks) ==
  IF marks = {} THEN None ELSE Rules[CHOOSE i \in marks : \A j \in marks : j <= i]

InferCategory(marks) ==
  IF marks = {} THEN None ELSE Rules[CHOOSE i \in marks : \A j \in marks : i <= j]

\* What the importers have in common: no row without a date and an amount.
Transaction(line, cents, category, inst, id) ==
  IF line.day = None \/ cents = None THEN None
  ELSE [day |-> line.day, text |-> line.text, cents |-> cents,
        category |-> category, inst |-> inst, id |-> id]

\* The file of c6 brings the categories.
ParseC6(line) ==
  Transaction(line, ReadC6(line),
              IF line.category \in {"", "-"} THEN None ELSE line.category, line.inst, None)

\* The title of a row of Nubank brings the instalment.
ParseNubank(line) ==
  Transaction(line, ReadNubank(line), InferCategory(line.marks), line.inst, None)

\* A row of an extract has an id and no instalments.
ParseAccount(line) ==
  Transaction(line, ReadAccount(line), InferCategory(line.marks), None, line.id)

ParseRow(source, line) ==
  IF source = "c6" THEN ParseC6(line)
  ELSE IF source = "nubank" THEN ParseNubank(line) ELSE ParseAccount(line)

\* Positions of the lines that parse yields.
Parsed(s) == {i \in DOMAIN s.lines : ParseRow(s.source, s.lines[i]) # None}

\* Mutant: the card of the first row, blank or not.
CardOfFirstRow(s) ==
  LET first == CHOOSE i \in Parsed(s) : \A j \in Parsed(s) : i <= j
  IN  IF s.source = "c6" /\ Parsed(s) # {} THEN s.lines[first].card
      ELSE IF s.source = "account" THEN s.number ELSE ""

\* The first card in a row that parses; nothing; the number of the file name.
CardLast4(s) ==
  LET shown == {i \in Parsed(s) : s.lines[i].card # ""}
      first == CHOOSE i \in shown : \A j \in shown : i <= j
  IN  IF s.source = "c6" /\ shown # {} THEN s.lines[first].card
      ELSE IF s.source = "account" THEN s.number ELSE ""

-----------------------------------------------------------------------------
(* What is outside the program: line at[2] of message at[1], and how banks  *)
(* print payments.                                                         *)

Line(at) == StatementOf[at[1]].lines[at[2]]
Source(at) == StatementOf[at[1]].source
Named(at) == StatementOf[at[1]].named
Read(at) == ParseRow(Source(at), Line(at))

\* An invoice prints what the owner pays, an extract what the account gets.
\* The id of a movement names it, except that one Pix may have two movements
\* of different amounts.  A payment is listed by one bank, with one id or with
\* none; invoices repeat it word for word, under the same billing date if they
\* have one.
ASSUME PrintedAssumption ==
  \A m, n \in Messages :
    \A i \in Parsed(StatementOf[m]), j \in Parsed(StatementOf[n]) :
      LET at == <<m, i>>
          by == <<n, j>>
          same == Line(at).event = Line(by).event
      IN  /\ Outflow[Line(at).event] \in Int
          /\ Line(at).printed = IF Source(at) = "account" THEN -Outflow[Line(at).event]
                                                         ELSE Outflow[Line(at).event]
          /\ /\ Bank(Source(at)) = Bank(Source(by))
             /\ Read(at).id # None /\ Read(at).id = Read(by).id
             /\ Read(at).day = Read(by).day /\ Read(at).cents = Read(by).cents
             => same
          /\ same =>
               /\ Bank(Source(at)) = Bank(Source(by)) /\ Read(at).id = Read(by).id
               /\ Read(at).id # None =>
                    Read(at).day = Read(by).day /\ Read(at).cents = Read(by).cents
               /\ /\ Read(at).id = None
                  /\ \A a \in {at, by} : Source(a) # "account"
                  => /\ None \in {Named(at), Named(by)} \/ Named(at) = Named(by)
                     /\ Read(at).day = Read(by).day
                     /\ Read(at).text = Read(by).text /\ Read(at).cents = Read(by).cents
                     /\ Read(at).inst = Read(by).inst

\* The texts, by the place of the pattern they match: those that speak of a
\* bill (16) or of a transfer (17), and those of shops that follow them.
TransferTexts == {16, 17}
LateTexts == {18, 19}

\* What the owner pays with a card, and no text calls a transfer, is bought from
\* others; c6 categorises its lines itself, and calls none a transfer.
ASSUME SpendAssumption ==
  /\ None \notin TransferCategories
  /\ \A m \in Messages : \A i \in Parsed(StatementOf[m]) :
       LET line == Line(<<m, i>>)
       IN  /\ line.marks \subseteq DOMAIN Rules
           /\ StatementOf[m].source = "c6" => /\ line.category \notin TransferCategories
                                              /\ line.marks = {}
           /\ IsSpend[line.event] \in BOOLEAN
           /\ IsSpend[line.event] => Outflow[line.event] > 0
           /\ /\ StatementOf[m].source # "account" /\ Outflow[line.event] > 0
              /\ line.marks \intersect TransferTexts = {}
              => IsSpend[line.event]

-----------------------------------------------------------------------------
(* Rows and their hashes. *)

\* Mutant: the id of the bank is the whole key.
HashByIdAlone(bank, billed, tx) ==
  IF tx.id # None THEN <<bank, "external", tx.id>>
  ELSE <<bank, billed, tx.day, tx.text, tx.cents, tx.inst>>

\* Mutant: the billing date stays in every key.
HashWithBillingDate(bank, billed, tx) ==
  IF tx.id # None THEN <<bank, "external", tx.id, tx.day, tx.cents, billed, tx.text>>
  ELSE <<bank, billed, tx.day, tx.text, tx.cents, tx.inst>>

RowHash(bank, billed, tx) ==
  IF tx.id # None THEN <<bank, "external", tx.id, tx.day, tx.cents>>
  ELSE <<bank, billed, tx.day, tx.text, tx.cents, tx.inst>>

\* The row for line i of message m; "at" is its line, which properties use.
RowOf(m, i) ==
  LET s == StatementOf[m]
      tx == ParseRow(s.source, s.lines[i])
  IN  [hash |-> RowHash(Bank(s.source), BillingDate(s), tx),
       account |-> <<Bank(s.source), CardLast4(s)>>,
       cents |-> tx.cents, category |-> tx.category, at |-> <<m, i>>]

Hashes(R) == {r.hash : r \in R}

\* ON CONFLICT (row_hash) DO NOTHING, for the rows of the table and of the list.
Inserted(m) ==
  {RowOf(m, i) : i \in {j \in Parsed(StatementOf[m]) :
     /\ RowOf(m, j).hash \notin Hashes(rows)
     /\ \A k \in Parsed(StatementOf[m]) : k < j => RowOf(m, k).hash # RowOf(m, j).hash}}

Init == today = FirstDay /\ imported = {} /\ rows = {}

\* A message whose job is not there is imported by the importer that
\* recognises the name of its file.
Import(m, source) ==
  /\ StatementOf[m].source = source
  /\ m \notin imported
  /\ imported' = imported \union {m}
  /\ rows' = rows \union Inserted(m)
  /\ UNCHANGED today

ImportC6(m) == Import(m, "c6")
ImportNubank(m) == Import(m, "nubank")
ImportAccount(m) == Import(m, "account")

DayPasses ==
  /\ today < LastDay
  /\ today' = today + 1
  /\ UNCHANGED <<imported, rows>>

Next ==
  \/ DayPasses
  \/ \E m \in Messages : ImportC6(m) \/ ImportNubank(m) \/ ImportAccount(m)

Spec == Init /\ [][Next]_vars

-----------------------------------------------------------------------------
(* Properties. *)

Event(r) == Line(r.at).event

\* A decimal point in an invoice of Nubank.
Misread(at) == Source(at) = "nubank" /\ Line(at).form = "point"

\* What is read of a payment in a line, apart from card and category.
Shown(at) == <<Bank(Source(at)), [Read(at) EXCEPT !.category = None]>>

\* The dates in the names of two files agree, as far as they have one.
SameBilling(at, by) ==
  LET dates == {Named(at), Named(by)} \ {None}
  IN  \A d, e \in dates : d = e

\* Spend as get_spend_vs_transfers counts it.
Counted(r) == r.cents > 0 /\ r.category \notin TransferCategories

\* The cards that an invoice of c6 names in rows that can be read.
NamedCards(s) == {s.lines[i].card : i \in Parsed(s)} \ {""}

\* The types of the table: a row comes from an imported line that can be read,
\* that of an invoice of c6 goes to a card the invoice names, if it names any,
\* and row_hash is a key (c6.py:54-60, models.py:81).
TypeOK ==
  /\ today \in FirstDay..LastDay
  /\ imported \subseteq Messages
  /\ \A r \in rows :
       LET s == StatementOf[r.at[1]]
       IN  /\ r.at[1] \in imported /\ r.at[2] \in Parsed(s)
           /\ s.source = "c6" /\ NamedCards(s) # {} => r.account[2] \in NamedCards(s)
  /\ \A r, q \in rows : r.hash = q.hash => r = q

\* No payment is in the table twice, however often and in whatever order and
\* on whatever days its invoices and overlapping extracts are imported, except
\* payments without an id in extracts, and those of an invoice without a date in
\* its name that was imported on another day than the billing date of the other
\* (base.py:35-46).
NothingDoubled ==
  \A r, q \in rows : Event(r) = Event(q) =>
    \/ r = q
    \/ /\ Read(r.at).id = None /\ Read(q.at).id = None
       /\ \E p \in {r, q} :
            Source(p.at) = "account" \/ (Named(p.at) = None /\ r.hash[2] # q.hash[2])

\* Every line of an imported statement that can be read has its payment in the
\* table, unless a line that reads the same took its place: equal purchases
\* of one invoice, or of two cards with the same billing date, are one row
\* (base.py:32-48).
NothingLost ==
  \A m \in imported : \A i \in Parsed(StatementOf[m]) :
    \E r \in rows : \/ Event(r) = Line(<<m, i>>).event
                    \/ Shown(r.at) = Shown(<<m, i>>) /\ SameBilling(r.at, <<m, i>>)

\* Amounts are those of the payments, positive for money that leaves the owner
\* in each of the three formats (c6.py:75-80, nubank.py:70-79 and
\* nubank_account.py:114-124), except what an invoice of Nubank prints with a
\* decimal point: a hundred times too much.
AmountsAreRead ==
  \A r \in rows : r.cents = IF Misread(r.at) THEN 100 * Outflow[Event(r)]
                                             ELSE Outflow[Event(r)]

\* A text that leaves open whether a payment goes to others: in an extract it
\* speaks of no transfer, or in any statement of one and of something else.
Unclear(at) ==
  IF Line(at).marks \intersect TransferTexts = {} THEN Source(at) = "account"
  ELSE Line(at).marks \ TransferTexts # {}

\* A text that speaks of a transfer, and of no shop but one of the last rules.
MereTransfer(at) ==
  /\ Line(at).marks \intersect TransferTexts # {}
  /\ Line(at).marks \subseteq TransferTexts \union LateTexts

\* What the reports count as spend was paid to others: neither a bill, which
\* would count the purchases of its card again, nor a transfer between own
\* accounts, a refund or income, unless its text leaves that open.  And what was
\* paid to others is counted, also by a transfer to a shop that its text names,
\* unless the text is a mere transfer, as that of a Pix to a friend is
\* (categorizer.py:5-8, 78-86).
SpendIsReal ==
  \A r \in rows :
    /\ Counted(r) => IsSpend[Event(r)] \/ Unclear(r.at)
    /\ IsSpend[Event(r)] => Counted(r) \/ MereTransfer(r.at)
=============================================================================
