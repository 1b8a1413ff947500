---------------------------- MODULE ImportLedger ----------------------------
(***************************************************************************)
(* What POST /banking/sync promises, without requests, transactions or     *)
(* failures: a ledger of imported statements.  Statements are imported at  *)
(* most once per reference, each as a whole, together with the rows it     *)
(* brings; an imported statement and a stored row stay as they are.        *)
(***************************************************************************)
CONSTANTS
  Statements,  \* the statements there are
  RefOf,       \* RefOf[s]: the reference a statement is recorded under
  KeysOf,      \* KeysOf[s]: the keys of the rows of s
  Whole        \* statements for which completeness is promised

VARIABLES
  imported,    \* statements imported so far
  stored       \* rows stored so far: [hash, job]

ledger == <<imported, stored>>

Keys(rows) == {t.hash : t \in rows}

Init == imported = {} /\ stored = {}

\* The statements of one sync enter the ledger in a single step.
Publish ==
  LET batch == imported' \ imported
      new == stored' \ stored
  IN  /\ imported \subseteq imported' /\ stored \subseteq stored'
      /\ batch \subseteq Statements
      /\ \A s \in batch, t \in imported' : RefOf[s] = RefOf[t] => s = t
      /\ \A t \in new : /\ t.job \in batch
                        /\ t.hash \in KeysOf[t.job]
                        /\ t.hash \notin Keys(stored' \ {t})
      /\ \A s \in batch \intersect Whole : KeysOf[s] \subseteq Keys(stored')

Spec == Init /\ [][Publish]_ledger
=============================================================================
