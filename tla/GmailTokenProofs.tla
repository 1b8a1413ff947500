-------------------------- MODULE GmailTokenProofs --------------------------
(***************************************************************************)
(* Proofs about the token file, for any number of threads, any lengths of  *)
(* the token and any number of expiries.                                   *)
(***************************************************************************)
EXTENDS GmailToken, TLAPS

\* While saves do not overlap, a saver that has opened the file is alone, the file
\* is empty exactly then, and its text will start where the file ends.
Alone ==
  torn \/ /\ \A s, o \in Savers : Writing(s) /\ Writing(o) => s = o
          /\ \A s \in Savers : Writing(s) => file = Empty
          /\ file.kind \in {"absent", "token"} \/ \E s \in Savers : Writing(s)

IInv == TypeOK /\ Alone

-----------------------------------------------------------------------------

\* Issuing a token gives its holder a token: _load_credentials and authorize
\* save only what Google has issued.
LEMMA ObtainTypes ==
  ASSUME TypeOK, NEW s \in Savers, Obtain(s)
  PROVE  TypeOK'
BY TokenAssumption DEF TypeOK, Obtain, Go, Tokens

\* The file is empty or as long as some token.
LEMMA FileSize ==
  ASSUME TypeOK
  PROVE  file.size \in Sizes \union {0}
<1>1. CASE file \in {Absent, Empty}
  BY <1>1 DEF Absent, Empty
<1>2. ASSUME NEW t \in Tokens, file = Holding(t)
      PROVE  file.size \in Sizes
  BY <1>2 DEF Holding, Tokens
<1>3. ASSUME NEW n \in Sizes, file = Garbled(n)
      PROVE  file.size \in Sizes
  BY <1>3 DEF Garbled
<1>4. \/ file \in {Absent, Empty}
      \/ \E t \in Tokens : file = Holding(t)
      \/ \E n \in Sizes : file = Garbled(n)
  BY DEF TypeOK
<1> QED
  BY <1>1, <1>2, <1>3, <1>4

\* What a save leaves in the file is a token or a text that is no token.
LEMMA WriteTypes ==
  ASSUME TypeOK, NEW s \in Savers, Write(s)
  PROVE  TypeOK'
<1>1. creds[s] \in Tokens
  BY DEF TypeOK, Write, Written, Writing
<1>2. creds[s].size \in Nat \ {0}
  BY <1>1, TokenAssumption DEF Tokens
<1>3. file.size > creds[s].size => file.size \in Sizes
  BY <1>2, FileSize
<1>4. file.size \in Nat
  <2>1. file.size \in Sizes \union {0}
    BY FileSize
  <2>2. \A n \in Sizes \union {0} : n \in Nat
    BY TokenAssumption
  <2> QED
    BY <2>1, <2>2
<1>5. file' \in {Holding(t) : t \in Tokens} \union {Garbled(n) : n \in Sizes}
  BY <1>1, <1>2, <1>3, <1>4 DEF Write
<1> QED
  BY <1>5, TokenAssumption DEF TypeOK, Write, Written, Go, Savers

\* Every step keeps the types.
LEMMA NextTypes ==
  ASSUME TypeOK, [Next]_vars
  PROVE  TypeOK'
<1> USE TokenAssumption
<1>1. CASE UNCHANGED vars
  BY <1>1 DEF TypeOK, vars
<1>2. CASE Expire
  BY <1>2 DEF TypeOK, Expire
<1>3. CASE Crash
  BY <1>3 DEF TypeOK, Crash, Savers
<1>4. CASE Authorize
  BY <1>4, ObtainTypes DEF Authorize, Savers
<1>5. ASSUME NEW t \in Threads, StartSync(t) \/ LoadFails(t) \/ RefreshFails(t)
      PROVE  TypeOK'
  BY <1>5 DEF TypeOK, StartSync, LoadFails, RefreshFails, Go, Savers
<1>6. ASSUME NEW t \in Threads, Load(t)
      PROVE  TypeOK'
  <2>1. PICK k \in Tokens : file = Holding(k)
    BY <1>6 DEF TypeOK, Load, Absent, Empty, Garbled
  <2>2. [epoch |-> file.epoch, size |-> file.size] \in Tokens
    BY <2>1 DEF Holding, Tokens
  <2> QED
    BY <1>6, <2>2 DEF TypeOK, Load, Go, Savers
<1>7. ASSUME NEW t \in Threads, Refresh(t)
      PROVE  TypeOK'
  BY <1>7, ObtainTypes DEF Refresh, Savers
<1>8. ASSUME NEW t \in Threads, Fetch(t)
      PROVE  TypeOK'
  BY <1>8 DEF TypeOK, Fetch, Go, Savers
<1>9. ASSUME NEW s \in Savers, Truncate(s)
      PROVE  TypeOK'
  BY <1>9 DEF TypeOK, Truncate, Go, Savers
<1>10. ASSUME NEW s \in Savers, Write(s)
       PROVE  TypeOK'
  BY <1>10, WriteTypes
<1> QED
  BY <1>1, <1>2, <1>3, <1>4, <1>5, <1>6, <1>7, <1>8, <1>9, <1>10
  DEF Next, Step, Save

-----------------------------------------------------------------------------

\* Every step keeps savers apart, or the save is torn.
LEMMA NextAlone ==
  ASSUME TypeOK, Alone, [Next]_vars
  PROVE  Alone'
<1> SUFFICES ASSUME ~torn'
             PROVE  Alone'
  BY DEF Alone
<1> USE TokenAssumption DEF TypeOK, Alone, Writing
<1>1. CASE UNCHANGED vars
  BY <1>1 DEF vars
<1>2. CASE Expire
  BY <1>2 DEF Expire
<1>3. CASE Crash
  <2>1. ~torn /\ \A t \in Threads : ~Writing(t)
    BY <1>3 DEF Crash
  <2>2. \A s \in Savers : Writing(s)' <=> Writing(s)
    BY <1>3, <2>1 DEF Crash, Savers
  <2> QED
    BY <1>3, <2>1, <2>2 DEF Crash
<1>4. ASSUME NEW s \in Savers, NEW next \in {"load", "save", "fetch", "refresh", "failed", "idle"},
             ~Writing(s), Go(s, next), file' = file, torn' = torn
      PROVE  Alone'
  <2>1. \A o \in Savers : Writing(o)' <=> Writing(o)
    BY <1>4 DEF Go
  <2> QED
    BY <1>4, <2>1
<1>5. CASE Authorize
  BY <1>5, <1>4 DEF Authorize, Obtain, Savers
<1>6. ASSUME NEW t \in Threads,
             StartSync(t) \/ Load(t) \/ LoadFails(t) \/ Refresh(t) \/ RefreshFails(t) \/ Fetch(t)
      PROVE  Alone'
  BY <1>6, <1>4
  DEF StartSync, Load, LoadFails, Refresh, RefreshFails, Fetch, Obtain, Savers
<1>7. ASSUME NEW s \in Savers, Truncate(s)
      PROVE  Alone'
  <2>1. \A o \in Savers \ {s} : ~Writing(o)
    BY <1>7 DEF Truncate
  <2>2. \A o \in Savers : Writing(o)' <=> o = s
    BY <1>7, <2>1 DEF Truncate, Go
  <2> QED
    BY <1>7, <2>2 DEF Truncate
<1>8. ASSUME NEW s \in Savers, Write(s)
      PROVE  Alone'
  <2>1. ~torn /\ file = Empty
    BY <1>8 DEF Write, Written
  <2>2. \A o \in Savers : ~Writing(o)'
    BY <1>8, <2>1 DEF Write, Written, Go, Savers
  <2>3. creds[s] \in Tokens
    BY <1>8 DEF Write, Written
  <2>4. creds[s].size \in Nat \ {0}
    BY <2>3 DEF Tokens
  <2>5. file.size = 0
    BY <2>1 DEF Empty
  <2>6. file' = Holding(creds[s])
    BY <1>8, <2>4, <2>5 DEF Write
  <2> QED
    BY <2>2, <2>6 DEF Holding
<1> QED
  BY <1>1, <1>2, <1>3, <1>5, <1>6, <1>7, <1>8 DEF Next, Step, Save

\* The invariant holds in every reachable state.
LEMMA Inductive == Spec => []IInv
<1>1. Init => IInv
  <2> SUFFICES ASSUME Init
               PROVE  TypeOK /\ Alone
    BY DEF IInv
  <2>1. 0 \in 0..MaxEpoch
    BY TokenAssumption
  <2>2. TypeOK
    BY <2>1 DEF Init, TypeOK, Savers
  <2>3. Alone
    BY DEF Init, Alone, Writing, Absent
  <2> QED
    BY <2>2, <2>3
<1>2. IInv /\ [Next]_vars => IInv'
  BY NextTypes, NextAlone DEF IInv
<1> QED
  BY <1>1, <1>2, PTL DEF Spec

\* The state of the file and its savers keeps its types, and only what Google has
\* issued is ever saved.
THEOREM TypesAreInvariant == Spec => []TypeOK
<1>1. IInv => TypeOK
  BY DEF IInv
<1> QED
  BY <1>1, Inductive, PTL

\* For any number of syncs: the file cannot be read only while a single saver is
\* between opening and writing it, unless saves overlap or one is cut short.
THEOREM FileIsReadable == Spec => []UnreadableOnlyInSave
<1>1. IInv => UnreadableOnlyInSave
  BY DEF IInv, Alone, UnreadableOnlyInSave
<1> QED
  BY <1>1, Inductive, PTL

=============================================================================
