------------------------------- MODULE Usage -------------------------------
(***************************************************************************)
(* The usage receipts of one task: the runner's durable ledger             *)
(* (usage_ledger.py), its uploads, and the website's table (usage.ts).     *)
(*                                                                         *)
(* An api receipt counts one upstream response and never changes.  A turn  *)
(* receipt follows one model turn: its tokens grow, also across attempts,  *)
(* and each change is a new version.  A request may be lost or given up at *)
(* any step; given up, it may go on later, after newer ones.               *)
(***************************************************************************)
EXTENDS Naturals, Sequences, SequencesExt, FiniteSetsExt

CONSTANTS
  Api, Turns,    \* identities of receipts, of the two sources
  Outcomes,      \* how a call or a turn may have ended, "completed" for good
  BatchSize,     \* receipts of one upload (25)
  MaxTokens,     \* bound: tokens one receipt counts
  MaxVersion,    \* bound: versions of one receipt
  MaxLeases,     \* bound: attempts of the task
  MaxLate        \* bound: requests given up and still under way

ASSUME UsageAssumption ==
  /\ Api \cap Turns = {} /\ "completed" \in Outcomes
  /\ {MaxTokens, MaxLate} \subseteq Nat /\ {BatchSize, MaxVersion, MaxLeases} \subseteq Nat \ {0}

VARIABLES
  receipts,  \* the ledger: files of the state directory, and records of an open ledger
  pending,   \* identities to send, in the order of the dict
  opened,    \* lease of the attempt that has the ledger open, 0 for none
  upload,    \* the request of flush
  late,      \* requests nobody waits for any more
  holder,    \* lease of the jobs row, 0 for none
  leases,    \* leases issued
  starting,  \* the newest one's attempt has not opened the ledger yet
  table      \* task_usage

usageVars == <<receipts, pending, opened, upload, late, holder, leases, starting, table>>

Calls   == Api \cup Turns
Unrecorded == [version |-> 0, tokens |-> 0, outcome |-> "none", attempt |-> 0]
ReceiptRows == {Unrecorded} \cup
  [version : 1 .. MaxVersion, tokens : 0 .. MaxTokens, outcome : Outcomes, attempt : 1 .. MaxLeases]

NoUpload == [step |-> "idle", lease |-> 0, ids |-> {}, rows |-> [i \in {} |-> Unrecorded]]
InFlight == {"sent", "checked", "stored"}
Finished == {"ok", "refused"}

UsageInit ==
  /\ receipts = [i \in Calls |-> Unrecorded] /\ pending = << >> /\ opened = 0
  /\ upload = NoUpload /\ late = {}
  /\ holder = 0 /\ leases = 0 /\ starting = FALSE
  /\ table = [i \in Calls |-> Unrecorded]
-----------------------------------------------------------------------------
(***************************************************************************)
(* The attempts of the task, as far as the receipts depend on them         *)
(***************************************************************************)

IssueLease ==
  /\ leases < MaxLeases
  /\ leases' = leases + 1 /\ holder' = leases + 1 /\ starting' = TRUE
  /\ UNCHANGED <<receipts, pending, opened, upload, late, table>>

\* Paused, failed, queued again or expired.
RevokeLease ==
  /\ holder # 0 /\ holder' = 0
  /\ UNCHANGED <<receipts, pending, opened, upload, late, leases, starting, table>>

\* Every receipt on disk is pending again, in the order the directory lists them.
ReloadedNone == {}
Reloaded == {i \in Calls : receipts[i].version > 0}

OpenLedger ==
  /\ opened = 0 /\ starting /\ starting' = FALSE /\ opened' = leases
  /\ pending' \in SetToSeqs(Reloaded)
  /\ UNCHANGED <<receipts, upload, late, holder, leases, table>>

\* The request under way when a ledger closes goes on, or is lost.
GivenUp(r) ==
  \/ late' = late
  \/ r.step \in InFlight /\ Cardinality(late \cup {r}) <= MaxLate /\ late' = late \cup {r}

\* close, after the uploads it tries, or the end of the process.
CloseLedger ==
  /\ opened # 0 /\ opened' = 0 /\ pending' = << >>
  /\ GivenUp(upload) /\ upload' = NoUpload
  /\ UNCHANGED <<receipts, holder, leases, starting, table>>

(***************************************************************************)
(* The ledger                                                              *)
(***************************************************************************)

\* The row _save keeps of a row that exists and what is observed now.
MergedTokensLatest(old, tokens) == tokens
MergedTokens(old, tokens) == Max({old.tokens, tokens})

Merged(old, tokens, outcome) ==
  [version |-> old.version + 1,
   tokens  |-> MergedTokens(old, tokens),
   outcome |-> IF old.outcome = "completed" THEN "completed" ELSE outcome,
   attempt |-> old.attempt]

\* An identity that is pending keeps its place.
Queued(i) == IF Contains(pending, i) THEN pending ELSE Append(pending, i)

Keeps(i, row) ==
  /\ receipts' = [receipts EXCEPT ![i] = row]
  /\ pending' = Queued(i)
  /\ UNCHANGED <<opened, upload, late, holder, leases, starting, table>>

SaveNew(i, tokens, outcome) ==
  /\ opened # 0 /\ receipts[i] = Unrecorded
  /\ Keeps(i, [version |-> 1, tokens |-> tokens, outcome |-> outcome, attempt |-> opened])

\* An api receipt is immutable; a turn's is stored again only when it differs.
SaveAgain(i, tokens, outcome) ==
  /\ opened # 0 /\ i \in Turns /\ receipts[i].version \in 1 .. MaxVersion - 1
  /\ LET row == Merged(receipts[i], tokens, outcome) IN
       /\ [row EXCEPT !.version = receipts[i].version] # receipts[i]
       /\ Keeps(i, row)

\* flush: the first pending receipts, as they are now.
Send ==
  /\ opened # 0 /\ upload = NoUpload /\ pending # << >>
  /\ LET ids == ToSet(SubSeq(pending, 1, Min({BatchSize, Len(pending)}))) IN
       upload' = [step |-> "sent", lease |-> opened, ids |-> ids,
                  rows |-> [i \in ids |-> receipts[i]]]
  /\ UNCHANGED <<receipts, pending, opened, late, holder, leases, starting, table>>

\* Only what was not saved again while it was sent is no longer pending.
AcknowledgedAll == upload.ids
Acknowledged == {i \in upload.ids : receipts[i] = upload.rows[i]}

\* The others keep their order.
InOrder(rest) ==
  \A m, n \in DOMAIN rest : m < n =>
    \E p, q \in DOMAIN pending : p < q /\ pending[p] = rest[m] /\ pending[q] = rest[n]

Receive ==
  /\ upload.step \in Finished
  /\ IF upload.step = "ok"
     THEN pending' \in {rest \in SetToSeqs(ToSet(pending) \ Acknowledged) : InOrder(rest)}
     ELSE UNCHANGED pending
  /\ upload' = NoUpload
  /\ UNCHANGED <<receipts, opened, late, holder, leases, starting, table>>

\* Timeout, or a connection that breaks.
GiveUp ==
  /\ upload.step \in InFlight \cup Finished
  /\ GivenUp(upload) /\ upload' = NoUpload
  /\ UNCHANGED <<receipts, pending, opened, holder, leases, starting, table>>

(***************************************************************************)
(* The website: lease and preflight, one batch of upserts, then the checks *)
(***************************************************************************)

Held(r) == holder = r.lease

\* A stored receipt is not contradicted, never decreases, keeps its identity.
Agrees(i, row) ==
  LET old == table[i] IN
  \/ old.version = 0
  \/ old.version = row.version /\ old = row
  \/ old.version > row.version
  \/ /\ old.version < row.version
     /\ i \notin Api /\ old.attempt = row.attempt /\ old.tokens <= row.tokens

NewerOrNot(i, row) == TRUE
Newer(i, row) == table[i].version < row.version

Upserted(r) == [i \in Calls |->
  IF i \in r.ids /\ Newer(i, r.rows[i]) /\ Agrees(i, r.rows[i]) THEN r.rows[i] ELSE table[i]]

Kept(i, row) == table[i].version > row.version \/ table[i] = row

Handled(r) ==
  CASE r.step = "sent" ->
         [r EXCEPT !.step = IF Held(r) /\ \A i \in r.ids : Agrees(i, r.rows[i])
                            THEN "checked" ELSE "refused"]
    [] r.step = "checked" -> [r EXCEPT !.step = "stored"]
    [] r.step = "stored" ->
         [r EXCEPT !.step = IF Held(r) /\ \A i \in r.ids : Kept(i, r.rows[i])
                            THEN "ok" ELSE "refused"]

StoredBy(r) == IF r.step = "checked" /\ Held(r) THEN Upserted(r) ELSE table

HandleUpload(step) ==
  /\ upload.step = step /\ step \in InFlight
  /\ upload' = Handled(upload) /\ table' = StoredBy(upload)
  /\ UNCHANGED <<receipts, pending, opened, late, holder, leases, starting>>

HandleLate(r) ==
  /\ late' = (late \ {r}) \cup {h \in {Handled(r)} : h.step \in InFlight}
  /\ table' = StoredBy(r)
  /\ UNCHANGED <<receipts, pending, opened, upload, holder, leases, starting>>
-----------------------------------------------------------------------------
Saves == \E i \in Calls, tokens \in 0 .. MaxTokens, outcome \in Outcomes :
           SaveNew(i, tokens, outcome) \/ SaveAgain(i, tokens, outcome)

UsageNext ==
  \/ IssueLease \/ RevokeLease \/ OpenLedger \/ CloseLedger
  \/ Saves \/ Send \/ Receive \/ GiveUp
  \/ \E step \in InFlight : HandleUpload(step)
  \/ \E r \in late : HandleLate(r)

\* The ledger's thread flushes every five seconds; the website answers again and again.
UsageFairness ==
  /\ WF_usageVars(Send)
  /\ SF_usageVars(Receive)
  /\ \A step \in InFlight : SF_usageVars(HandleUpload(step))

UsageSpec == UsageInit /\ [][UsageNext]_usageVars /\ UsageFairness
-----------------------------------------------------------------------------
UploadShape(r) ==
  /\ r.step \in InFlight \cup Finished /\ r.lease \in 1 .. MaxLeases
  /\ r.ids \subseteq Calls /\ r.ids # {} /\ r.rows \in [r.ids -> ReceiptRows]

\* What each variable holds; pending names each recorded receipt once at most.
UsageTypeOK ==
  /\ receipts \in [Calls -> ReceiptRows] /\ table \in [Calls -> ReceiptRows]
  /\ pending \in Seq(Calls) /\ IsInjective(pending)
  /\ {opened, holder, leases} \subseteq 0 .. MaxLeases /\ starting \in BOOLEAN
  /\ upload = NoUpload \/ UploadShape(upload)
  /\ \A r \in late : UploadShape(r)

\* A batch is refused only because the attempt lost its lease: whatever was merged,
\* resent or overtaken, no receipt of the ledger ever conflicts with the stored
\* ones, which would refuse its whole batch again and again (usage.ts, storeUsage).
OnlyLeaseLossRefuses == upload.step = "refused" => holder # upload.lease

\* What the website counted of a receipt is never taken back: versions and tokens
\* only grow, and a receipt stays with the attempt that first saw it, although
\* requests that were given up still arrive (the guard of the upsert).
CountNeverRecedes ==
  [][\A i \in Calls : table[i].version > 0 =>
       /\ table'[i].version >= table[i].version /\ table'[i].tokens >= table[i].tokens
       /\ table'[i].attempt = table[i].attempt]_usageVars

\* A receipt that no longer is pending is on the website in its latest version, so
\* that nothing is lost when it changed while a former version was sent (flush).
SettledIsStored ==
  opened # 0 => \A i \in Calls :
    receipts[i].version > 0 => Contains(pending, i) \/ table[i] = receipts[i]

\* While an attempt goes on and holds its lease, all of its receipts arrive.
ReceiptsArrive == <>[](opened # 0 /\ holder = opened) => <>[](table = receipts)
=============================================================================
