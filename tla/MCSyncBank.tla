----------------------------- MODULE MCSyncBank -----------------------------
(***************************************************************************)
(* Small instances of SyncBank for TLC, one group of definitions for each  *)
(* mailbox the configurations use.                                         *)
(***************************************************************************)
EXTENDS SyncBank, TLC

RequestSymmetry == Permutations(Requests)
NoBadRow == [a \in Attachments |-> 0]

\* Overlap: account extracts of three accounts in three messages; the oldest
\* and the newest share a row, as overlapping statement periods do.  Two syncs
\* that list the mailbox at different times lock the keys in opposite order.
OverlapMsgOf == <<1, 2, 3>>
OverlapImporterOf == [a \in 1..3 |-> "nubank_account"]
OverlapCardOf == <<"B", "C", "A">>
OverlapRows == <<<<"h1">>, <<"h2">>, <<"h1", "h3">>>>

\* Faulty: one statement per importer and, among those of c6, one that does not
\* parse, one whose second row the server rejects and one whose rows fail in the
\* client; the account number of the extract is too long for its column.
FaultyMsgOf == <<1, 2, 3, 4, 5>>
FaultyImporterOf == <<"c6", "nubank", "nubank_account", "c6", "c6">>
FaultyCardOf == <<"A", "", "B", "A", "A">>
FaultyRows == <<<<"h1", "h1">>, <<>>, <<"h4">>, <<"h2", "h3">>, <<"h5">>>>
FaultyBadRow == <<0, 0, 0, 2, 0>>

\* Crowded: of the three messages of the overlap, the second carries an invoice
\* as well, and a page holds two.
CrowdedMsgOf == <<1, 2, 2, 3>>
CrowdedImporterOf ==
  <<"nubank_account", "nubank", "nubank_account", "nubank_account">>
CrowdedCardOf == <<"B", "", "C", "A">>
CrowdedRows == <<<<"h1">>, <<"h4">>, <<"h2">>, <<"h1", "h3">>>>

=============================================================================
