----------------------------- MODULE GmailToken -----------------------------
(***************************************************************************)
(* The token file of the Gmail client.  Each sync fetches in a thread of   *)
(* its own and first loads the credentials: it reads the file, refreshes   *)
(* the token if it has expired and saves it.  The owner creates the file   *)
(* with the command gmail-auth, a process of its own.                      *)
(*                                                                         *)
(* Path.write_text opens the file, which truncates it, and then writes the *)
(* text at offset 0 of its own descriptor.  Nothing excludes other savers: *)
(* if two truncate before either writes, the shorter text lies on top of   *)
(* the longer one.                                                         *)
(***************************************************************************)
EXTENDS Naturals, FiniteSets

CONSTANTS
  Threads,   \* threads in which syncs fetch
  Cli,       \* the process of gmail-auth
  Sizes,     \* lengths of a token as JSON
  MaxEpoch,  \* bound on the number of expiries
  Faults     \* what may happen of {"google", "crash", "reauthorize"}

ASSUME TokenAssumption ==
  /\ Cli \notin Threads
  /\ Sizes \subseteq Nat \ {0}
  /\ MaxEpoch \in Nat

VARIABLES
  epoch,  \* a token is valid in the epoch in which it was issued
  file,   \* the token file
  creds,  \* the credentials a saver or fetcher holds
  pc,
  torn    \* history: the last save overlapped another one or was cut short

vars == <<epoch, file, creds, pc, torn>>

Savers == Threads \union {Cli}
Tokens == [epoch : 0..MaxEpoch, size : Sizes]
NoToken == [epoch |-> 0, size |-> 0]
Absent == [kind |-> "absent", epoch |-> 0, size |-> 0]
Empty == [kind |-> "empty", epoch |-> 0, size |-> 0]
Holding(t) == [kind |-> "token", epoch |-> t.epoch, size |-> t.size]
Garbled(n) == [kind |-> "garbled", epoch |-> 0, size |-> n]

Writing(s) == pc[s] = "write"

Init ==
  /\ epoch = 0
  /\ file = Absent
  /\ creds = [s \in Savers |-> NoToken]
  /\ pc = [s \in Savers |-> "idle"]
  /\ torn = FALSE

Go(s, next) == pc' = [pc EXCEPT ![s] = next]

StartSync(t) ==
  /\ pc[t] \in {"idle", "failed"}
  /\ Go(t, "load")
  /\ UNCHANGED <<epoch, file, creds, torn>>

\* The file is there and is the JSON of a token.
Load(t) ==
  /\ pc[t] = "load" /\ file.kind = "token"
  /\ creds' = [creds EXCEPT ![t] = [epoch |-> file.epoch, size |-> file.size]]
  /\ Go(t, IF file.epoch = epoch THEN "fetch" ELSE "refresh")
  /\ UNCHANGED <<epoch, file, torn>>

\* No file, or no JSON in it: an exception, which ends the sync.
LoadFails(t) ==
  /\ pc[t] = "load" /\ file.kind # "token"
  /\ Go(t, "failed")
  /\ UNCHANGED <<epoch, file, creds, torn>>

Obtain(s) ==
  /\ \E n \in Sizes : creds' = [creds EXCEPT ![s] = [epoch |-> epoch, size |-> n]]
  /\ Go(s, "save")
  /\ UNCHANGED <<epoch, file, torn>>

Refresh(t) == pc[t] = "refresh" /\ Obtain(t)

RefreshFails(t) ==
  /\ "google" \in Faults
  /\ pc[t] = "refresh"
  /\ Go(t, "failed")
  /\ UNCHANGED <<epoch, file, creds, torn>>

\* Mutant: the token is saved although the owner has not consented.
AuthorizeBlindly ==
  /\ pc[Cli] = "idle"
  /\ file = Absent \/ "reauthorize" \in Faults
  /\ Go(Cli, "save")
  /\ UNCHANGED <<epoch, file, creds, torn>>

\* The owner runs gmail-auth, once or at any time.
Authorize ==
  /\ pc[Cli] = "idle"
  /\ file = Absent \/ "reauthorize" \in Faults
  /\ Obtain(Cli)

\* Mutant: the file is opened without truncating it.
OpenOnly(s) ==
  /\ pc[s] = "save"
  /\ torn' = \E o \in Savers \ {s} : Writing(o)
  /\ Go(s, "write")
  /\ UNCHANGED <<epoch, file, creds>>

\* _save_token opens the file ...
Truncate(s) ==
  /\ pc[s] = "save"
  /\ file' = Empty
  /\ torn' = \E o \in Savers \ {s} : Writing(o)
  /\ Go(s, "write")
  /\ UNCHANGED <<epoch, creds>>

Written(s) ==
  /\ Writing(s)
  /\ Go(s, IF s = Cli THEN "idle" ELSE "fetch")
  /\ UNCHANGED <<epoch, creds, torn>>

\* Mutant: the text stays in a buffer.
WriteNothing(s) == Written(s) /\ UNCHANGED file

\* ... and writes over what is there by now.
Write(s) ==
  /\ Written(s)
  /\ file' = IF file.size <= creds[s].size THEN Holding(creds[s])
                                           ELSE Garbled(file.size)

\* The fetch from Gmail, with the credentials as they are.
Fetch(t) ==
  /\ pc[t] = "fetch"
  /\ Go(t, "idle")
  /\ UNCHANGED <<epoch, file, creds, torn>>

Expire ==
  /\ epoch < MaxEpoch
  /\ epoch' = epoch + 1
  /\ UNCHANGED <<file, creds, pc, torn>>

\* The API dies with its threads; the file stays as it is.
Crash ==
  /\ "crash" \in Faults
  /\ pc' = [s \in Savers |-> IF s = Cli THEN pc[s] ELSE "idle"]
  /\ torn' = (torn \/ \E t \in Threads : Writing(t))
  /\ UNCHANGED <<epoch, file, creds>>

Step(t) == Load(t) \/ LoadFails(t) \/ Refresh(t) \/ Fetch(t)
Save(s) == Truncate(s) \/ Write(s)

Next ==
  \/ Expire \/ Crash \/ Authorize
  \/ \E t \in Threads : StartSync(t) \/ Step(t) \/ RefreshFails(t)
  \/ \E s \in Savers : Save(s)

Spec == Init /\ [][Next]_vars

\* Threads and the command are scheduled; the owner keeps syncing and authorizes
\* when the error of a sync says that the token is unusable.
OwnerSpec ==
  /\ Spec
  /\ \A t \in Threads : WF_vars(StartSync(t)) /\ WF_vars(Step(t))
  /\ \A s \in Savers : WF_vars(Save(s))
  /\ WF_vars(file.kind # "token" /\ Authorize)

-----------------------------------------------------------------------------
(* Properties. *)

\* Every variable has its type; only syncs load and fetch, and whoever saves
\* holds a token.
TypeOK ==
  /\ epoch \in 0..MaxEpoch
  /\ file \in {Absent, Empty} \union {Holding(t) : t \in Tokens}
                             \union {Garbled(n) : n \in Sizes}
  /\ creds \in [Savers -> Tokens \union {NoToken}]
  /\ \A s \in Savers : pc[s] \in {"save", "write"} => creds[s] \in Tokens
  /\ pc \in [Savers -> {"idle", "load", "refresh", "save", "write", "fetch", "failed"}]
  /\ pc[Cli] \in {"idle", "save", "write"}
  /\ torn \in BOOLEAN

\* The file is only unreadable while one saver is between opening and writing it,
\* unless saves overlapped or the process died in the middle of one.
UnreadableOnlyInSave ==
  \/ torn
  \/ file.kind \in {"absent", "token"}
  \/ file = Empty /\ \E s \in Savers : Writing(s)

Disturbance ==
  \/ Expire \/ Crash
  \/ file.kind = "token" /\ Authorize
  \/ \E t \in Threads : RefreshFails(t)

\* If tokens stop expiring, failures stop and the owner leaves a readable token
\* alone, syncs reach Gmail again and again, whatever the savers have left in the
\* file: an unreadable one is replaced, and its replacement is not garbled again.
Recovers ==
  <>[][~Disturbance]_vars => []<>(\E t \in Threads : pc[t] = "fetch")

=============================================================================
