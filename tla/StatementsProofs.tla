-------------------------- MODULE StatementsProofs --------------------------
(***************************************************************************)
(* Proofs about Statements, for any mailbox, any days and any order of the *)
(* imports: the key of a row tells payments apart, and only those.         *)
(***************************************************************************)
EXTENDS Statements, FiniteSetTheorems, WellFoundedInduction, TLAPS

\* The billing dates under which a line may be imported, and the hashes of its row.
Billings(at) == IF Named(at) # None THEN {Named(at)} ELSE FirstDay..LastDay
IsHash(h, at) == \E b \in Billings(at) : h = RowHash(Bank(Source(at)), b, Read(at))

\* A row is what was read in its line.
Written ==
  \A r \in rows : /\ r.at = <<r.at[1], r.at[2]>>
                  /\ IsHash(r.hash, r.at)
                  /\ r.cents = Read(r.at).cents /\ r.category = Read(r.at).category

\* Every line that was read has a row with a hash of its own.
Kept ==
  \A m \in imported : \A i \in Parsed(StatementOf[m]) :
    \E r \in rows : IsHash(r.hash, <<m, i>>)

IInv == TypeOK /\ Written /\ Kept

-----------------------------------------------------------------------------
(* Lines. *)

\* Numbers have a least one, as each has finitely many below it.
LEMMA LeastExists ==
  ASSUME NEW T, T \subseteq Nat, T # {}
  PROVE  \E x \in T : \A y \in T : x <= y
<1> DEFINE Below(x) == {y \in T : y <= x}
           Belows == {Below(x) : x \in T}
<1>1. \A x \in T : Below(x) \in FiniteSubsetsOf(T)
  <2>1. SUFFICES ASSUME NEW x \in T PROVE Below(x) \in FiniteSubsetsOf(T)
    OBVIOUS
  <2>2. IsFiniteSet(Below(x))
    BY FS_BoundedSetOfNaturals
  <2> QED
    BY <2>2 DEF FiniteSubsetsOf
<1>2. Belows \subseteq FiniteSubsetsOf(T) /\ Belows # {}
  BY <1>1
<1>3. PICK B \in Belows : \A C \in Belows : ~ (<<C, B>> \in StrictSubsetOrdering(T))
  <2> HIDE DEF Belows
  <2> QED
    BY <1>2, FS_StrictSubsetOrderingWellFounded, WFMin
<1>4. PICK x \in T : B = Below(x)
  OBVIOUS
<1>5. ASSUME NEW y \in T, ~(x <= y) PROVE FALSE
  <2>1. x \in Nat /\ y \in Nat /\ y < x
    BY <1>5
  <2>2. \A z \in T : z <= y => z <= x
    BY <2>1
  <2>3. x \in Below(x) /\ x \notin Below(y)
    BY <2>1
  <2>4. Below(y) \in SUBSET T /\ Below(x) \in SUBSET T /\ Below(y) \subseteq Below(x)
    BY <2>2
  <2>5. <<Below(y), Below(x)>> \in StrictSubsetOrdering(T)
    BY <2>3, <2>4 DEF StrictSubsetOrdering
  <2> QED
    BY <1>4, <1>3, <2>5
<1> QED
  BY <1>5

\* Lines have numbers.
LEMMA LinesAreNumbered ==
  ASSUME NEW m \in Messages
  PROVE  Parsed(StatementOf[m]) \subseteq Nat
BY StatementAssumption DEF Parsed

\* What is read of a line is what it says.
LEMMA WhatIsRead ==
  ASSUME NEW m \in Messages, NEW i \in Parsed(StatementOf[m]), NEW at, at = <<m, i>>
  PROVE  /\ Read(at) = [day |-> Read(at).day, text |-> Read(at).text, cents |-> Read(at).cents,
                        category |-> Read(at).category, inst |-> Read(at).inst,
                        id |-> Read(at).id]
         /\ Read(at).cents = IF Source(at) = "account" THEN -Line(at).printed
                             ELSE IF Misread(at) THEN 100 * Line(at).printed
                             ELSE Line(at).printed
<1> DEFINE line == Line(at)
           Tx(cents, category, inst, id) ==
             [day |-> line.day, text |-> line.text, cents |-> cents,
              category |-> category, inst |-> inst, id |-> id]
<1>1. line = StatementOf[m].lines[i] /\ Source(at) = StatementOf[m].source
  BY DEF Line, Source
<1>2. /\ Read(at) = ParseRow(Source(at), line) /\ Read(at) # None
      /\ Source(at) \in {"c6", "nubank", "account"}
  BY <1>1, StatementAssumption DEF Parsed, Sources, Read
<1> HIDE DEF line
<1>3. CASE Source(at) = "c6"
  <2>1. Read(at) = ParseC6(line)
    BY <1>2, <1>3 DEF ParseRow
  <2>2. ReadC6(line) # None
    BY <1>2, <2>1 DEF ParseC6, Transaction
  <2>3. ReadC6(line) = line.printed
    BY <2>2 DEF ReadC6
  <2>4. \E category, inst : Read(at) = Tx(line.printed, category, inst, None)
    BY <1>2, <2>1, <2>3 DEF ParseC6, Transaction
  <2> QED
    BY <1>3, <2>4 DEF Misread, line
<1>4. CASE Source(at) = "nubank"
  <2>1. Read(at) = ParseNubank(line)
    BY <1>2, <1>4 DEF ParseRow
  <2>2. ReadNubank(line) # None
    BY <1>2, <2>1 DEF ParseNubank, Transaction
  <2>3. ReadNubank(line) = IF line.form = "point" THEN 100 * line.printed ELSE line.printed
    BY <2>2 DEF ReadNubank
  <2>4. \E category, inst : Read(at) = Tx(ReadNubank(line), category, inst, None)
    BY <1>2, <2>1 DEF ParseNubank, Transaction
  <2> QED
    BY <1>4, <2>3, <2>4 DEF Misread, line
<1>5. CASE Source(at) = "account"
  <2>1. Read(at) = ParseAccount(line)
    BY <1>2, <1>5 DEF ParseRow
  <2>2. ReadAccount(line) # None
    BY <1>2, <2>1 DEF ParseAccount, Transaction
  <2>3. ReadAccount(line) = -line.printed
    BY <2>2 DEF ReadAccount
  <2>4. \E category, id : Read(at) = Tx(-line.printed, category, None, id)
    BY <1>2, <2>1, <2>3 DEF ParseAccount, Transaction
  <2> QED
    BY <1>5, <2>4 DEF line
<1> QED
  BY <1>2, <1>3, <1>4, <1>5

\* c6 brings the category of a row; the rules infer that of the others.
LEMMA CategoryIsRead ==
  ASSUME NEW m \in Messages, NEW i \in Parsed(StatementOf[m]), NEW at, at = <<m, i>>
  PROVE  /\ Source(at) = "c6" => Read(at).category \in {None, Line(at).category}
         /\ Source(at) # "c6" => Read(at).category = InferCategory(Line(at).marks)
<1> DEFINE line == Line(at)
<1>1. line = StatementOf[m].lines[i] /\ Source(at) = StatementOf[m].source
  BY DEF Line, Source
<1>2. /\ Read(at) = ParseRow(Source(at), line) /\ Read(at) # None
      /\ Source(at) \in {"c6", "nubank", "account"}
  BY <1>1, StatementAssumption DEF Parsed, Sources, Read
<1> HIDE DEF line
<1>3. CASE Source(at) = "c6"
  <2>1. Read(at) = ParseC6(line)
    BY <1>2, <1>3 DEF ParseRow
  <2> DEFINE c == IF line.category \in {"", "-"} THEN None ELSE line.category
  <2>2. Read(at) = Transaction(line, ReadC6(line), c, line.inst, None)
    BY <2>1 DEF ParseC6
  <2>3. c \in {None, line.category}
    OBVIOUS
  <2> HIDE DEF c
  <2>4. Read(at).category = c
    BY <1>2, <2>2 DEF Transaction
  <2> QED
    BY <1>3, <2>3, <2>4 DEF line
<1>4. CASE Source(at) = "nubank"
  <2>1. Read(at) = ParseNubank(line)
    BY <1>2, <1>4 DEF ParseRow
  <2> QED
    BY <1>2, <1>4, <2>1 DEF ParseNubank, Transaction, line
<1>5. CASE Source(at) = "account"
  <2>1. Read(at) = ParseAccount(line)
    BY <1>2, <1>5 DEF ParseRow
  <2> QED
    BY <1>2, <1>5, <2>1 DEF ParseAccount, Transaction, line
<1> QED
  BY <1>2, <1>3, <1>4, <1>5

\* The first match is a transfer only when no rule before the two matches, and is
\* one when no other rule matches.
LEMMA FirstMatchDecides ==
  ASSUME NEW marks, marks \subseteq DOMAIN Rules, None \notin TransferCategories
  PROVE  /\ InferCategory(marks) \in TransferCategories =>
              /\ marks \intersect TransferTexts # {}
              /\ marks \subseteq TransferTexts \union LateTexts
         /\ marks # {} /\ marks \subseteq TransferTexts =>
              InferCategory(marks) \in TransferCategories
<1>1. CASE marks = {}
  BY <1>1 DEF InferCategory
<1>2. CASE marks # {}
  <2>1. DOMAIN Rules = 1..19 /\ marks \subseteq Nat
    BY DEF Rules
  <2>2. \A i \in 1..19 : Rules[i] \in TransferCategories <=> i \in TransferTexts
    BY DEF Rules, TransferCategories, TransferTexts
  <2>3. \E i \in marks : \A j \in marks : i <= j
    BY <1>2, <2>1, LeastExists
  <2> DEFINE first == CHOOSE i \in marks : \A j \in marks : i <= j
  <2>4. first \in marks /\ \A j \in marks : first <= j
    BY <2>3
  <2>5. InferCategory(marks) = Rules[first]
    BY <1>2 DEF InferCategory
  <2> HIDE DEF first
  <2>6. InferCategory(marks) \in TransferCategories <=> first \in TransferTexts
    BY <2>1, <2>2, <2>4, <2>5
  <2>7. first \in TransferTexts => marks \subseteq TransferTexts \union LateTexts
    BY <2>1, <2>4 DEF TransferTexts, LateTexts
  <2> QED
    BY <1>2, <2>4, <2>6, <2>7
<1> QED
  BY <1>1, <1>2

\* A card that c6 names is one of the cards of its readable rows.
LEMMA CardIsNamed ==
  ASSUME NEW m \in Messages, StatementOf[m].source = "c6", NamedCards(StatementOf[m]) # {}
  PROVE  CardLast4(StatementOf[m]) \in NamedCards(StatementOf[m])
<1> DEFINE s == StatementOf[m]
           shown == {i \in Parsed(s) : s.lines[i].card # ""}
           first == CHOOSE i \in shown : \A j \in shown : i <= j
<1>1. shown # {} /\ shown \subseteq Nat
  BY LinesAreNumbered DEF NamedCards
<1>2. \E i \in shown : \A j \in shown : i <= j
  <2> HIDE DEF shown
  <2> QED
    BY <1>1, LeastExists
<1>3. first \in shown
  BY <1>2
<1>4. CardLast4(s) = s.lines[first].card
  BY <1>1 DEF CardLast4
<1> QED
  BY <1>3, <1>4 DEF NamedCards

-----------------------------------------------------------------------------
(* Hashes. *)

\* A line prints the amount of its payment.
LEMMA AmountIsPrinted ==
  ASSUME NEW m \in Messages, NEW i \in Parsed(StatementOf[m]), NEW at, at = <<m, i>>
  PROVE  /\ Outflow[Line(at).event] \in Int
         /\ Line(at).printed = IF Source(at) = "account" THEN -Outflow[Line(at).event]
                                                        ELSE Outflow[Line(at).event]
BY PrintedAssumption

\* Two lines with one id, day and amount are of one payment.
LEMMA IdsNamePayments ==
  ASSUME NEW m \in Messages, NEW i \in Parsed(StatementOf[m]), NEW at, at = <<m, i>>,
         NEW n \in Messages, NEW j \in Parsed(StatementOf[n]), NEW by, by = <<n, j>>,
         Bank(Source(at)) = Bank(Source(by)), Read(at).id # None, Read(at).id = Read(by).id,
         Read(at).day = Read(by).day, Read(at).cents = Read(by).cents
  PROVE  Line(at).event = Line(by).event
BY PrintedAssumption

\* Two lines of one payment agree in what their hashes are made of.
LEMMA RepeatsAreAlike ==
  ASSUME NEW m \in Messages, NEW i \in Parsed(StatementOf[m]), NEW at, at = <<m, i>>,
         NEW n \in Messages, NEW j \in Parsed(StatementOf[n]), NEW by, by = <<n, j>>,
         Line(at).event = Line(by).event
  PROVE  /\ Bank(Source(at)) = Bank(Source(by)) /\ Read(at).id = Read(by).id
         /\ Read(at).id # None =>
              Read(at).day = Read(by).day /\ Read(at).cents = Read(by).cents
         /\ /\ Read(at).id = None
            /\ Source(at) # "account" /\ Source(by) # "account"
            => /\ None \in {Named(at), Named(by)} \/ Named(at) = Named(by)
               /\ Read(at).day = Read(by).day
               /\ Read(at).text = Read(by).text /\ Read(at).cents = Read(by).cents
               /\ Read(at).inst = Read(by).inst
BY PrintedAssumption

\* The hash of a row with an id.
LEMMA HashWithId ==
  ASSUME NEW bank, NEW billed, NEW tx, tx.id # None
  PROVE  RowHash(bank, billed, tx) = <<bank, "external", tx.id, tx.day, tx.cents>>
BY DEF RowHash

\* The hash of a row without an id.
LEMMA HashWithoutId ==
  ASSUME NEW bank, NEW billed, NEW tx, tx.id = None
  PROVE  RowHash(bank, billed, tx) = <<bank, billed, tx.day, tx.text, tx.cents, tx.inst>>
BY DEF RowHash

\* A hash with an id is not one without.
LEMMA HashesDiffer ==
  ASSUME NEW a, NEW b, NEW c, NEW d, NEW e, NEW p, NEW q, NEW r, NEW s, NEW t, NEW u
  PROVE  <<a, b, c, d, e>> # <<p, q, r, s, t, u>>
<1>1. DOMAIN <<a, b, c, d, e>> = 1..5 /\ DOMAIN <<p, q, r, s, t, u>> = 1..6
  OBVIOUS
<1>2. 6 \in 1..6 /\ 6 \notin 1..5
  OBVIOUS
<1> QED
  BY <1>1, <1>2

\* Lines with one hash are of one payment, or read the same.
LEMMA HashTells ==
  ASSUME NEW m \in Messages, NEW i \in Parsed(StatementOf[m]), NEW at, at = <<m, i>>,
         NEW n \in Messages, NEW j \in Parsed(StatementOf[n]), NEW by, by = <<n, j>>,
         NEW h, IsHash(h, at), IsHash(h, by)
  PROVE  \/ Line(at).event = Line(by).event
         \/ Shown(at) = Shown(by) /\ SameBilling(at, by)
<1>1. PICK b \in Billings(at) : h = RowHash(Bank(Source(at)), b, Read(at))
  BY DEF IsHash
<1>2. PICK c \in Billings(by) : h = RowHash(Bank(Source(by)), c, Read(by))
  BY DEF IsHash
<1>3. CASE Read(at).id # None /\ Read(by).id # None
  <2>1. /\ h = <<Bank(Source(at)), "external", Read(at).id, Read(at).day, Read(at).cents>>
        /\ h = <<Bank(Source(by)), "external", Read(by).id, Read(by).day, Read(by).cents>>
    BY <1>1, <1>2, <1>3, HashWithId
  <2>2. /\ Bank(Source(at)) = Bank(Source(by)) /\ Read(at).id = Read(by).id
        /\ Read(at).day = Read(by).day /\ Read(at).cents = Read(by).cents
    BY <2>1
  <2> QED
    BY <1>3, <2>2, IdsNamePayments
<1>4. CASE Read(at).id = None /\ Read(by).id = None
  <2>1. h = <<Bank(Source(at)), b, Read(at).day, Read(at).text, Read(at).cents, Read(at).inst>>
    BY <1>1, <1>4, HashWithoutId
  <2>2. h = <<Bank(Source(by)), c, Read(by).day, Read(by).text, Read(by).cents, Read(by).inst>>
    BY <1>2, <1>4, HashWithoutId
  <2>3. /\ Bank(Source(at)) = Bank(Source(by)) /\ b = c /\ Read(at).day = Read(by).day
        /\ Read(at).text = Read(by).text /\ Read(at).cents = Read(by).cents
        /\ Read(at).inst = Read(by).inst
    BY <2>1, <2>2
  <2>4. [Read(at) EXCEPT !.category = None] = [Read(by) EXCEPT !.category = None]
    <3>1. \A tx : tx = [day |-> tx.day, text |-> tx.text, cents |-> tx.cents,
                        category |-> tx.category, inst |-> tx.inst, id |-> tx.id] =>
            [tx EXCEPT !.category = None] =
              [day |-> tx.day, text |-> tx.text, cents |-> tx.cents,
               category |-> None, inst |-> tx.inst, id |-> tx.id]
      OBVIOUS
    <3> QED
      BY <1>4, <2>3, <3>1, WhatIsRead
  <2>5. SameBilling(at, by)
    BY <1>1, <1>2, <2>3 DEF Billings, SameBilling
  <2> QED
    BY <2>3, <2>4, <2>5 DEF Shown
<1>5. CASE Read(at).id # None /\ Read(by).id = None
  <2>1. h = <<Bank(Source(at)), "external", Read(at).id, Read(at).day, Read(at).cents>>
    BY <1>1, <1>5, HashWithId
  <2>2. h = <<Bank(Source(by)), c, Read(by).day, Read(by).text, Read(by).cents, Read(by).inst>>
    BY <1>2, <1>5, HashWithoutId
  <2> QED
    BY <2>1, <2>2, HashesDiffer
<1>6. CASE Read(at).id = None /\ Read(by).id # None
  <2>1. h = <<Bank(Source(by)), "external", Read(by).id, Read(by).day, Read(by).cents>>
    BY <1>2, <1>6, HashWithId
  <2>2. h = <<Bank(Source(at)), b, Read(at).day, Read(at).text, Read(at).cents, Read(at).inst>>
    BY <1>1, <1>6, HashWithoutId
  <2> QED
    BY <2>1, <2>2, HashesDiffer
<1> QED
  BY <1>3, <1>4, <1>5, <1>6

\* Lines of one payment have one hash, unless they have no id and are in an
\* extract or in an invoice without a date, whose billing date is another.
LEMMA HashRepeats ==
  ASSUME NEW m \in Messages, NEW i \in Parsed(StatementOf[m]), NEW at, at = <<m, i>>,
         NEW n \in Messages, NEW j \in Parsed(StatementOf[n]), NEW by, by = <<n, j>>,
         Line(at).event = Line(by).event,
         NEW g, NEW h, IsHash(g, at), IsHash(h, by)
  PROVE  \/ g = h
         \/ /\ Read(at).id = None /\ Read(by).id = None
            /\ \E p \in {at, by} :
                 Source(p) = "account" \/ (Named(p) = None /\ g[2] # h[2])
<1>1. PICK b \in Billings(at) : g = RowHash(Bank(Source(at)), b, Read(at))
  BY DEF IsHash
<1>2. PICK c \in Billings(by) : h = RowHash(Bank(Source(by)), c, Read(by))
  BY DEF IsHash
<1>3. Bank(Source(at)) = Bank(Source(by)) /\ Read(at).id = Read(by).id
  BY RepeatsAreAlike
<1>4. CASE Read(at).id # None
  <2>1. Read(at).day = Read(by).day /\ Read(at).cents = Read(by).cents
    BY <1>4, RepeatsAreAlike
  <2> QED
    BY <1>1, <1>2, <1>3, <1>4, <2>1, HashWithId
<1>5. CASE Read(at).id = None /\ Source(at) # "account" /\ Source(by) # "account"
  <2>1. /\ None \in {Named(at), Named(by)} \/ Named(at) = Named(by)
        /\ Read(at).day = Read(by).day
        /\ Read(at).text = Read(by).text /\ Read(at).cents = Read(by).cents
        /\ Read(at).inst = Read(by).inst
    BY <1>5, RepeatsAreAlike
  <2> DEFINE key(d) == <<Bank(Source(at)), d, Read(at).day, Read(at).text,
                         Read(at).cents, Read(at).inst>>
  <2>2. g = key(b) /\ h = key(c)
    BY <1>1, <1>2, <1>3, <1>5, <2>1, HashWithoutId
  <2>3. g[2] = b /\ h[2] = c
    BY <2>2
  <2>4. CASE b = c
    BY <2>2, <2>4
  <2>5. CASE b # c
    <3>1. None \in {Named(at), Named(by)}
      BY <1>1, <1>2, <2>1, <2>5 DEF Billings
    <3> QED
      BY <1>3, <1>5, <2>3, <2>5, <3>1
  <2> QED
    BY <2>4, <2>5
<1> QED
  BY <1>3, <1>4, <1>5

-----------------------------------------------------------------------------
(* Steps. *)

\* The row for a line.
LEMMA RowOfLine ==
  ASSUME TypeOK, NEW m \in Messages, NEW i \in Parsed(StatementOf[m])
  PROVE  LET r == RowOf(m, i)
         IN  /\ r.at = <<m, i>> /\ r.account[2] = CardLast4(StatementOf[m])
             /\ IsHash(r.hash, <<m, i>>) /\ r.cents = Read(<<m, i>>).cents
             /\ r.category = Read(<<m, i>>).category
<1> DEFINE s == StatementOf[m]
           r == RowOf(m, i)
<1>1. Read(<<m, i>>) = ParseRow(s.source, s.lines[i]) /\ Source(<<m, i>>) = s.source
  BY DEF Read, Line, Source
<1>2. BillingDate(s) \in Billings(<<m, i>>)
  BY DEF BillingDate, Billings, Named, TypeOK
<1>3. r.hash = RowHash(Bank(s.source), BillingDate(s), Read(<<m, i>>))
  BY <1>1 DEF RowOf
<1>4. IsHash(r.hash, <<m, i>>)
  BY <1>1, <1>2, <1>3 DEF IsHash
<1>5. r.at = <<m, i>> /\ r.cents = Read(<<m, i>>).cents /\ r.category = Read(<<m, i>>).category
  BY <1>1 DEF RowOf
<1>6. r.account[2] = CardLast4(s)
  BY DEF RowOf
<1> QED
  BY <1>4, <1>5, <1>6

\* Of the lines of a message with one hash, the first is inserted, unless the
\* table has that hash.
LEMMA HashIsInserted ==
  ASSUME NEW m \in Messages, NEW i \in Parsed(StatementOf[m])
  PROVE  \E r \in rows \union Inserted(m) : r.hash = RowOf(m, i).hash
<1> DEFINE T == {k \in Parsed(StatementOf[m]) : RowOf(m, k).hash = RowOf(m, i).hash}
<1>1. CASE RowOf(m, i).hash \in Hashes(rows)
  BY <1>1 DEF Hashes
<1>2. CASE RowOf(m, i).hash \notin Hashes(rows)
  <2>1. T \subseteq Nat /\ T # {}
    BY LinesAreNumbered
  <2>2. PICK k \in T : \A j \in T : k <= j
    <3> HIDE DEF T
    <3> QED
      BY <2>1, LeastExists
  <2>3. \A j \in Parsed(StatementOf[m]) : j < k => RowOf(m, j).hash # RowOf(m, k).hash
    <3>1. SUFFICES ASSUME NEW j \in Parsed(StatementOf[m]), j < k,
                          RowOf(m, j).hash = RowOf(m, k).hash
                   PROVE  FALSE
      OBVIOUS
    <3>2. j \in T
      BY <2>2, <3>1
    <3>3. j \in Nat /\ k \in Nat /\ k <= j
      BY <2>1, <2>2, <3>2
    <3> QED
      BY <3>1, <3>3
  <2>4. RowOf(m, k) \in Inserted(m)
    BY <1>2, <2>2, <2>3 DEF Inserted
  <2> QED
    BY <2>2, <2>4
<1> QED
  BY <1>1, <1>2

\* The inserted rows, by their lines.
LEMMA InsertedRows ==
  ASSUME NEW m \in Messages, NEW r \in Inserted(m)
  PROVE  \E i \in Parsed(StatementOf[m]) :
           /\ r = RowOf(m, i) /\ r.hash \notin Hashes(rows)
           /\ \A k \in Parsed(StatementOf[m]) : k < i => RowOf(m, k).hash # r.hash
BY DEF Inserted

\* An import keeps the invariant.
LEMMA ImportKeepsIInv ==
  ASSUME IInv, NEW m \in Messages, NEW source, Import(m, source)
  PROVE  IInv'
<1> USE DEF IInv
<1>1. /\ imported' = imported \union {m} /\ rows' = rows \union Inserted(m)
      /\ today' = today
  BY DEF Import
<1>2. ASSUME NEW r \in Inserted(m)
      PROVE  LET s == StatementOf[m]
             IN  /\ r.at = <<r.at[1], r.at[2]>> /\ r.at[1] = m /\ r.at[2] \in Parsed(s)
                 /\ r.account[2] = CardLast4(s)
                 /\ IsHash(r.hash, r.at) /\ r.cents = Read(r.at).cents
                 /\ r.category = Read(r.at).category
  <2>1. PICK i \in Parsed(StatementOf[m]) : r = RowOf(m, i)
    BY <1>2, InsertedRows
  <2>2. /\ r.at = <<m, i>> /\ r.account[2] = CardLast4(StatementOf[m])
        /\ IsHash(r.hash, <<m, i>>) /\ r.cents = Read(<<m, i>>).cents
        /\ r.category = Read(<<m, i>>).category
    BY <2>1, RowOfLine
  <2> QED
    BY <2>2
<1>3. ASSUME NEW r \in rows', NEW q \in rows', r.hash = q.hash
      PROVE  r = q
  <2>1. CASE r \in rows /\ q \in rows
    BY <1>3, <2>1 DEF TypeOK
  <2>2. CASE r \in rows /\ q \in Inserted(m)
    BY <1>3, <2>2, InsertedRows DEF Hashes
  <2>3. CASE r \in Inserted(m) /\ q \in rows
    BY <1>3, <2>3, InsertedRows DEF Hashes
  <2>4. CASE r \in Inserted(m) /\ q \in Inserted(m)
    <3>1. PICK i \in Parsed(StatementOf[m]) :
            r = RowOf(m, i) /\ \A k \in Parsed(StatementOf[m]) : k < i => RowOf(m, k).hash # r.hash
      BY <2>4, InsertedRows
    <3>2. PICK j \in Parsed(StatementOf[m]) :
            q = RowOf(m, j) /\ \A k \in Parsed(StatementOf[m]) : k < j => RowOf(m, k).hash # q.hash
      BY <2>4, InsertedRows
    <3>3. i \in Nat /\ j \in Nat
      BY LinesAreNumbered
    <3>4. ~(i < j) /\ ~(j < i)
      BY <1>3, <3>1, <3>2
    <3>5. i = j
      BY <3>3, <3>4
    <3> QED
      BY <3>1, <3>2, <3>5
  <2> QED
    BY <1>1, <1>3, <2>1, <2>2, <2>3, <2>4
<1>4. ASSUME NEW r \in rows'
      PROVE  LET s == StatementOf[r.at[1]]
             IN  /\ r.at[1] \in imported' /\ r.at[2] \in Parsed(s)
                 /\ s.source = "c6" /\ NamedCards(s) # {} => r.account[2] \in NamedCards(s)
  <2>1. CASE r \in rows
    BY <1>1, <2>1 DEF TypeOK
  <2>2. CASE r \in Inserted(m)
    BY <1>1, <1>2, <2>2, CardIsNamed
  <2> QED
    BY <1>1, <1>4, <2>1, <2>2
<1>5. TypeOK'
  BY <1>1, <1>3, <1>4 DEF TypeOK
<1>6. Written'
  BY <1>1, <1>2 DEF Written
<1>7. Kept'
  <2>1. SUFFICES ASSUME NEW n \in imported', NEW i \in Parsed(StatementOf[n])
                 PROVE  \E r \in rows' : IsHash(r.hash, <<n, i>>)
    BY DEF Kept
  <2>2. CASE n \in imported
    BY <1>1, <2>2 DEF Kept
  <2>3. CASE n = m
    <3>1. PICK r \in rows' : r.hash = RowOf(m, i).hash
      BY <1>1, <2>3, HashIsInserted
    <3>2. IsHash(RowOf(m, i).hash, <<m, i>>)
      BY <2>3, RowOfLine
    <3> QED
      BY <2>3, <3>1, <3>2
  <2> QED
    BY <1>1, <2>1, <2>2, <2>3
<1> QED
  BY <1>5, <1>6, <1>7

\* Every step keeps the invariant.
LEMMA StepKeepsIInv ==
  ASSUME IInv, [Next]_vars
  PROVE  IInv'
<1>1. CASE UNCHANGED vars
  BY <1>1 DEF IInv, vars, TypeOK, Written, Kept
<1>2. CASE DayPasses
  <2>1. today' \in FirstDay..LastDay
    BY <1>2, StatementAssumption DEF IInv, TypeOK, DayPasses
  <2> QED
    BY <1>2, <2>1 DEF DayPasses, IInv, TypeOK, Written, Kept
<1>3. CASE \E m \in Messages : ImportC6(m) \/ ImportNubank(m) \/ ImportAccount(m)
  BY <1>3, ImportKeepsIInv DEF ImportC6, ImportNubank, ImportAccount
<1> QED
  BY <1>1, <1>2, <1>3 DEF Next

\* Nothing is imported at first.
LEMMA InitHolds ==
  ASSUME Init
  PROVE  IInv
BY StatementAssumption DEF Init, IInv, TypeOK, Written, Kept

\* The invariant holds of every run.
LEMMA IInvHolds == Spec => []IInv
BY InitHolds, StepKeepsIInv, PTL DEF Spec

\* The rows that the invariant speaks of come from lines of messages.
LEMMA RowHasLine ==
  ASSUME IInv, NEW r \in rows
  PROVE  /\ r.at[1] \in Messages /\ r.at[2] \in Parsed(StatementOf[r.at[1]])
         /\ r.at = <<r.at[1], r.at[2]>>
         /\ IsHash(r.hash, r.at)
         /\ r.cents = Read(r.at).cents /\ r.category = Read(r.at).category
BY DEF IInv, TypeOK, Written

-----------------------------------------------------------------------------
(* Theorems. *)

\* row_hash is a key of the table, rows come from lines that were read, and
\* those of an invoice of c6 go to a card that it names (c6.py:54-60, models.py:81).
THEOREM TypesAreInvariant == Spec => []TypeOK
BY IInvHolds, PTL DEF IInv

\* No payment is doubled by statements that repeat it, but for payments without
\* an id in extracts, or in invoices without a date under another billing date
\* (base.py:35-46).
THEOREM PaymentsAreNotDoubled == Spec => []NothingDoubled
<1>1. IInv => NothingDoubled
  <2>1. SUFFICES ASSUME IInv, NEW r \in rows, NEW q \in rows, Event(r) = Event(q), r # q
                 PROVE  /\ Read(r.at).id = None /\ Read(q.at).id = None
                        /\ \E p \in {r, q} :
                             \/ Source(p.at) = "account"
                             \/ Named(p.at) = None /\ r.hash[2] # q.hash[2]
    BY DEF NothingDoubled
  <2>2. r.hash # q.hash
    BY <2>1 DEF IInv, TypeOK
  <2>3. /\ r.at[1] \in Messages /\ r.at[2] \in Parsed(StatementOf[r.at[1]])
        /\ r.at = <<r.at[1], r.at[2]>> /\ IsHash(r.hash, r.at)
        /\ q.at[1] \in Messages /\ q.at[2] \in Parsed(StatementOf[q.at[1]])
        /\ q.at = <<q.at[1], q.at[2]>> /\ IsHash(q.hash, q.at)
    BY <2>1, RowHasLine
  <2>4. Line(r.at).event = Line(q.at).event
    BY <2>1 DEF Event
  <2>5. /\ Read(r.at).id = None /\ Read(q.at).id = None
        /\ \E p \in {r.at, q.at} :
             Source(p) = "account" \/ (Named(p) = None /\ r.hash[2] # q.hash[2])
    <3> DEFINE at == r.at
               by == q.at
               m == r.at[1]
               n == q.at[1]
               i == r.at[2]
               j == q.at[2]
               g == r.hash
               h == q.hash
    <3>1. /\ m \in Messages /\ i \in Parsed(StatementOf[m]) /\ at = <<m, i>>
          /\ n \in Messages /\ j \in Parsed(StatementOf[n]) /\ by = <<n, j>>
          /\ Line(at).event = Line(by).event
          /\ IsHash(g, at) /\ IsHash(h, by) /\ g # h
      BY <2>2, <2>3, <2>4
    <3> HIDE DEF at, by, m, n, i, j, g, h
    <3>2. /\ Read(at).id = None /\ Read(by).id = None
          /\ \E p \in {at, by} :
               Source(p) = "account" \/ (Named(p) = None /\ g[2] # h[2])
      BY <3>1, HashRepeats
    <3> QED
      BY <3>2 DEF at, by, g, h
  <2> QED
    BY <2>5
<1> QED
  BY <1>1, IInvHolds, PTL

\* No payment is lost, but for lines that read like another of the same
\* billing date (base.py:32-48).
THEOREM PaymentsAreNotLost == Spec => []NothingLost
<1>1. IInv => NothingLost
  <2>1. SUFFICES ASSUME IInv, NEW m \in imported, NEW i \in Parsed(StatementOf[m])
                 PROVE  \E r \in rows : \/ Event(r) = Line(<<m, i>>).event
                                        \/ /\ Shown(r.at) = Shown(<<m, i>>)
                                           /\ SameBilling(r.at, <<m, i>>)
    BY DEF NothingLost
  <2>2. PICK r \in rows : IsHash(r.hash, <<m, i>>)
    BY <2>1 DEF IInv, Kept
  <2>3. m \in Messages
    BY <2>1 DEF IInv, TypeOK
  <2> QED
    BY <2>1, <2>2, <2>3, RowHasLine, HashTells DEF Event
<1> QED
  BY <1>1, IInvHolds, PTL

\* Amounts have the sign of the payment in each of the three formats, and its
\* size but for decimal points in invoices of Nubank (c6.py:75-80,
\* nubank.py:70-79, nubank_account.py:114-124).
THEOREM AmountsAreInvariant == Spec => []AmountsAreRead
<1>1. IInv => AmountsAreRead
  <2>1. SUFFICES ASSUME IInv, NEW r \in rows
                 PROVE  r.cents = IF Misread(r.at) THEN 100 * Outflow[Event(r)]
                                                   ELSE Outflow[Event(r)]
    BY DEF AmountsAreRead
  <2>2. /\ Outflow[Event(r)] \in Int
        /\ Line(r.at).printed = IF Source(r.at) = "account" THEN -Outflow[Event(r)]
                                ELSE Outflow[Event(r)]
    BY <2>1, RowHasLine, AmountIsPrinted DEF Event
  <2>3. r.cents = IF Source(r.at) = "account" THEN -Line(r.at).printed
                  ELSE IF Misread(r.at) THEN 100 * Line(r.at).printed
                  ELSE Line(r.at).printed
    BY <2>1, RowHasLine, WhatIsRead
  <2>4. Misread(r.at) => Source(r.at) # "account"
    BY DEF Misread
  <2> QED
    BY <2>2, <2>3, <2>4
<1> QED
  BY <1>1, IInvHolds, PTL

\* What counts as spend was paid to others and what was paid to others counts,
\* but for texts that leave it open and mere transfers (categorizer.py:5-8, 78-86).
THEOREM SpendIsInvariant == Spec => []SpendIsReal
<1>1. IInv /\ AmountsAreRead => SpendIsReal
  <2>1. SUFFICES ASSUME IInv, AmountsAreRead, NEW r \in rows
                 PROVE  /\ Counted(r) => IsSpend[Event(r)] \/ Unclear(r.at)
                        /\ IsSpend[Event(r)] => Counted(r) \/ MereTransfer(r.at)
    BY DEF SpendIsReal
  <2> DEFINE at == r.at
             m == at[1]
             i == at[2]
             line == Line(at)
             spoken == line.marks \intersect TransferTexts
  <2>2. /\ m \in Messages /\ i \in Parsed(StatementOf[m]) /\ at = <<m, i>>
        /\ r.category = Read(at).category /\ Event(r) = line.event
    BY <2>1, RowHasLine DEF Event
  <2>3. /\ line.marks \subseteq DOMAIN Rules /\ None \notin TransferCategories
        /\ Source(at) = "c6" => line.category \notin TransferCategories /\ line.marks = {}
        /\ IsSpend[line.event] => Outflow[line.event] > 0
        /\ Source(at) # "account" /\ Outflow[line.event] > 0 /\ spoken = {}
           => IsSpend[line.event]
    BY <2>2, SpendAssumption DEF Source
  <2>4. r.cents > 0 <=> Outflow[line.event] > 0
    <3>1. Outflow[line.event] \in Int
      BY <2>2, AmountIsPrinted
    <3>2. r.cents = Outflow[line.event] \/ r.cents = 100 * Outflow[line.event]
      BY <2>1, <2>2 DEF AmountsAreRead
    <3> QED
      BY <3>1, <3>2
  <2>5. CASE Source(at) = "c6"
    <3>1. Read(at).category \in {None, line.category}
      BY <2>2, <2>5, CategoryIsRead
    <3>2. Counted(r) <=> Outflow[line.event] > 0
      BY <2>2, <2>3, <2>4, <2>5, <3>1 DEF Counted
    <3>3. Outflow[line.event] > 0 => IsSpend[line.event]
      BY <2>3, <2>5
    <3> QED
      BY <2>2, <2>3, <3>2, <3>3
  <2>6. CASE Source(at) # "c6"
    <3>1. r.category = InferCategory(line.marks)
      BY <2>2, <2>6, CategoryIsRead
    <3>2. ASSUME Counted(r) PROVE IsSpend[line.event] \/ Unclear(at)
      <4>1. Outflow[line.event] > 0 /\ InferCategory(line.marks) \notin TransferCategories
        BY <2>4, <3>1, <3>2 DEF Counted
      <4>2. line.marks = {} \/ ~(line.marks \subseteq TransferTexts)
        BY <2>3, <4>1, FirstMatchDecides
      <4>3. CASE spoken = {}
        BY <2>3, <4>1, <4>3 DEF Unclear
      <4>4. CASE spoken # {}
        BY <4>2, <4>4 DEF Unclear
      <4> QED
        BY <4>3, <4>4
    <3>3. ASSUME IsSpend[line.event] PROVE Counted(r) \/ MereTransfer(at)
      <4>1. r.cents > 0
        BY <2>3, <2>4, <3>3
      <4>2. CASE InferCategory(line.marks) \notin TransferCategories
        BY <3>1, <4>1, <4>2 DEF Counted
      <4>3. CASE InferCategory(line.marks) \in TransferCategories
        BY <2>3, <4>3, FirstMatchDecides DEF MereTransfer
      <4> QED
        BY <4>2, <4>3
    <3> QED
      BY <2>2, <3>2, <3>3
  <2> QED
    BY <2>5, <2>6
<1> QED
  BY <1>1, IInvHolds, AmountsAreInvariant, PTL
=============================================================================
