------------------------ MODULE RunnerRecordsProofs ------------------------
(***************************************************************************)
(* Theorems about three of the records a runner keeps of a task, each on   *)
(* its own: the usage receipts, the reviews and the prefetched materials.  *)
(***************************************************************************)
EXTENDS Usage, Reviews, Prefetch, FiniteSetTheorems, FunctionTheorems, TLAPS

(***************************************************************************)
(* Usage receipts                                                          *)
(***************************************************************************)

USE UsageAssumption DEF UsageAssumption

LEMMA Larger ==
  ASSUME NEW a \in Nat, NEW b \in Nat
  PROVE  Max({a, b}) \in {a, b} /\ Max({a, b}) >= a /\ Max({a, b}) >= b
<1>1. \E x \in {a, b} : \A y \in {a, b} : x >= y
  OBVIOUS
<1> QED BY <1>1 DEF Max

LEMMA Smaller ==
  ASSUME NEW a \in Nat, NEW b \in Nat
  PROVE  Min({a, b}) \in {a, b} /\ Min({a, b}) <= a /\ Min({a, b}) <= b
<1>1. \E x \in {a, b} : \A y \in {a, b} : x <= y
  OBVIOUS
<1> QED BY <1>1 DEF Min

\* A sequence of each element of a finite set.
LEMMA Listing ==
  ASSUME NEW S, IsFiniteSet(S), NEW s \in SetToSeqs(S)
  PROVE  s \in Seq(S) /\ IsInjective(s) /\ \A i : Contains(s, i) <=> i \in S
<1>1. Cardinality(S) \in Nat
  BY FS_CardinalityType
<1> DEFINE D == 1 .. Cardinality(S)
<1>2. s \in [D -> S] /\ \A i, j \in D : i # j => s[i] # s[j]
  BY DEF SetToSeqs
<1>3. s \in Seq(S) /\ Len(s) = Cardinality(S)
  BY <1>1, <1>2
<1>4. IsInjective(s)
  BY <1>2 DEF IsInjective
<1>5. s \in Injection(D, S)
  BY <1>2 DEF Injection, IsInjective
<1>6. IsFiniteSet(D) /\ Cardinality(D) = Cardinality(S)
  BY <1>1, FS_Interval
<1>7. s \in Surjection(D, S)
  BY <1>5, <1>6, FS_Injection
<1>8. \A i \in S : Contains(s, i)
  BY <1>3, <1>7 DEF Surjection, Contains
<1>9. \A i : Contains(s, i) => i \in S
  BY <1>2, <1>3 DEF Contains
<1> QED BY <1>3, <1>4, <1>8, <1>9
-----------------------------------------------------------------------------
\* Two rows of one receipt: the same version is the same row, and of a receipt that
\* grows the older one is of the same attempt and counts less.
InLine(i, a, b) ==
  /\ a.version = b.version => a = b
  /\ 0 < a.version /\ a.version < b.version => i \notin Api /\ a.attempt = b.attempt /\ a.tokens <= b.tokens

UploadRequests == late \cup {upload}
RowsOf(i) == {receipts[i], table[i]} \cup {r.rows[i] : r \in {x \in UploadRequests : i \in x.ids}}

\* The rows of one receipt, wherever they are, are versions of the ledger's row.
Lines ==
  \A i \in Calls :
    /\ RowsOf(i) \subseteq ReceiptRows
    /\ \A a \in RowsOf(i) : a.version <= receipts[i].version
    /\ \A a, b \in RowsOf(i) : InLine(i, a, b)

IsRequest(r) ==
  /\ UploadShape(r) /\ r = [step |-> r.step, lease |-> r.lease, ids |-> r.ids, rows |-> r.rows]

\* Leases are issued once, and what is pending is recorded.
Ledger ==
  /\ receipts \in [Calls -> ReceiptRows] /\ table \in [Calls -> ReceiptRows]
  /\ IsFiniteSet(Reloaded)
  /\ pending \in Seq(Calls) /\ IsInjective(pending) /\ \A i : Contains(pending, i) => i \in Reloaded
  /\ leases \in 0 .. MaxLeases /\ opened \in 0 .. leases /\ holder \in {0, leases} /\ starting \in BOOLEAN
  /\ upload = NoUpload \/ (IsRequest(upload) /\ upload.lease <= leases)
  /\ \A r \in late : IsRequest(r) /\ r.step \in InFlight

\* While the lease holds, what a request stored, and in any case what it reported as
\* stored, is in the table; only a lost lease refuses it.
UploadsAnswered ==
  /\ upload.step = "ok" \/ (upload.step = "stored" /\ holder = upload.lease) =>
       \A i \in upload.ids : upload.rows[i].version <= table[i].version
  /\ OnlyLeaseLossRefuses

UsageInv == Ledger /\ Lines /\ UploadsAnswered /\ SettledIsStored
-----------------------------------------------------------------------------
LEMMA LedgerTyped == Ledger => UsageTypeOK
BY DEF Ledger, UsageTypeOK, IsRequest

LEMMA RowTyped ==
  ASSUME NEW row \in ReceiptRows
  PROVE  /\ row.version \in 0 .. MaxVersion /\ row.tokens \in 0 .. MaxTokens
         /\ row.version = 0 => row = Unrecorded
         /\ row.version > 0 => row \in [version : 1 .. MaxVersion, tokens : 0 .. MaxTokens, outcome : Outcomes,
                                        attempt : 1 .. MaxLeases]
BY DEF ReceiptRows, Unrecorded

LEMMA LinesAgree ==
  ASSUME Ledger, Lines, NEW r \in UploadRequests, NEW i \in Calls, i \in r.ids
  PROVE  Agrees(i, r.rows[i]) /\ r.rows[i] \in ReceiptRows
<1>1. r.rows[i] \in RowsOf(i) /\ table[i] \in RowsOf(i)
  BY DEF RowsOf
<1>2. InLine(i, table[i], r.rows[i]) /\ r.rows[i] \in ReceiptRows /\ table[i] \in ReceiptRows
  BY <1>1 DEF Lines
<1>3. r.rows[i].version \in Nat /\ table[i].version \in Nat
  BY <1>2, RowTyped
<1> QED BY <1>2, <1>3 DEF InLine, Agrees

\* A step that makes no row of its own keeps the rows in line.
LEMMA NoNewRows ==
  ASSUME Lines, UNCHANGED receipts, \A i \in Calls : RowsOf(i)' \subseteq RowsOf(i)
  PROVE  Lines'
BY DEF Lines

LEMMA RequestsGone ==
  ASSUME UNCHANGED <<receipts, table>>, UploadRequests' \subseteq UploadRequests \cup {NoUpload}
  PROVE  \A i \in Calls : RowsOf(i)' \subseteq RowsOf(i)
BY DEF RowsOf, NoUpload

\* What the website makes of one request.
LEMMA Handling ==
  ASSUME Ledger, Lines, NEW r \in UploadRequests, r.step \in InFlight, IsRequest(r)
  PROVE  /\ IsRequest(Handled(r)) /\ Handled(r).ids = r.ids /\ Handled(r).rows = r.rows
         /\ Handled(r).lease = r.lease /\ Handled(r).step \in InFlight \cup Finished
         /\ Handled(r).step = "stored" => r.step = "checked"
         /\ Handled(r).step = "ok" => r.step = "stored" /\ Held(r)
         /\ Handled(r).step = "refused" => \/ ~Held(r)
                                           \/ r.step = "stored" /\ \E i \in r.ids : ~Kept(i, r.rows[i])
<1>1. \A i \in r.ids : Agrees(i, r.rows[i])
  BY LinesAgree DEF IsRequest, UploadShape
<1>2. PICK s \in InFlight \cup Finished : Handled(r) = [r EXCEPT !.step = s]
  BY DEF Handled, InFlight, Finished
<1>3. Handled(r) = [step |-> s, lease |-> r.lease, ids |-> r.ids, rows |-> r.rows]
  BY <1>2 DEF IsRequest
<1>4. IsRequest(Handled(r)) /\ Handled(r).ids = r.ids /\ Handled(r).rows = r.rows /\ Handled(r).lease = r.lease
      /\ Handled(r).step = s
  BY <1>2, <1>3 DEF IsRequest, UploadShape
<1>5. CASE r.step = "sent"
  BY <1>1, <1>4, <1>5 DEF Handled, IsRequest
<1>6. CASE r.step = "checked"
  BY <1>4, <1>6 DEF Handled, IsRequest
<1>7. CASE r.step = "stored"
  BY <1>4, <1>7 DEF Handled, IsRequest
<1> QED BY <1>4, <1>5, <1>6, <1>7 DEF InFlight

LEMMA Storing ==
  ASSUME Ledger, Lines, NEW r \in UploadRequests, IsRequest(r)
  PROVE  /\ StoredBy(r) \in [Calls -> ReceiptRows]
         /\ \A i \in Calls :
              \/ StoredBy(r)[i] = table[i]
              \/ /\ i \in r.ids /\ StoredBy(r)[i] = r.rows[i] /\ table[i].version < r.rows[i].version
                 /\ Agrees(i, r.rows[i])
         /\ \A i \in Calls : table[i].version <= StoredBy(r)[i].version
         /\ r.step = "checked" /\ Held(r) => \A i \in r.ids : r.rows[i].version <= StoredBy(r)[i].version
<1>0. table \in [Calls -> ReceiptRows]
  BY DEF Ledger
<1>1. \A i \in Calls : table[i].version \in Nat /\ (i \in r.ids => r.rows[i].version \in Nat /\ r.rows[i] \in ReceiptRows)
  BY <1>0, LinesAgree, RowTyped
<1>2. \A i \in Calls :
              \/ StoredBy(r)[i] = table[i]
              \/ /\ i \in r.ids /\ StoredBy(r)[i] = r.rows[i] /\ table[i].version < r.rows[i].version
                 /\ Agrees(i, r.rows[i])
  BY DEF StoredBy, Upserted, Newer
<1>3. StoredBy(r) = [i \in Calls |-> StoredBy(r)[i]]
  BY <1>0 DEF StoredBy, Upserted
<1>4. StoredBy(r) \in [Calls -> ReceiptRows]
  BY <1>0, <1>1, <1>2, <1>3
<1>5. ASSUME r.step = "checked", Held(r), NEW i \in r.ids PROVE r.rows[i].version <= StoredBy(r)[i].version
  <2>1. i \in Calls
    BY DEF IsRequest, UploadShape
  <2> QED BY <1>1, <1>5, <2>1, LinesAgree DEF StoredBy, Upserted, Newer
<1> QED BY <1>1, <1>2, <1>4, <1>5
-----------------------------------------------------------------------------
LEMMA UsageStart == UsageInit => UsageInv
<1> SUFFICES ASSUME UsageInit PROVE UsageInv
  OBVIOUS
<1>1. Reloaded = {} /\ \A i : ~Contains(pending, i)
  BY DEF UsageInit, Reloaded, Unrecorded, Contains
<1>2. Ledger
  <2>1. /\ receipts \in [Calls -> ReceiptRows] /\ table \in [Calls -> ReceiptRows]
        /\ IsFiniteSet(Reloaded)
    BY <1>1, FS_EmptySet DEF UsageInit, ReceiptRows
  <2>2. pending \in Seq(Calls) /\ IsInjective(pending) /\ \A i : Contains(pending, i) => i \in Reloaded
    BY <1>1 DEF UsageInit, IsInjective
  <2>3. /\ leases \in 0 .. MaxLeases /\ opened \in 0 .. leases /\ holder \in {0, leases}
        /\ upload = NoUpload /\ late = {}
    BY DEF UsageInit
  <2>4. starting \in BOOLEAN
    BY Zenon DEF UsageInit
  <2> QED BY <2>1, <2>2, <2>3, <2>4 DEF Ledger
<1>3. \A i \in Calls : RowsOf(i) = {Unrecorded}
  BY DEF UsageInit, RowsOf, UploadRequests, NoUpload
<1>4. Lines
  BY <1>3 DEF Lines, InLine, UsageInit, ReceiptRows, Unrecorded
<1> QED BY <1>2, <1>4 DEF UsageInv, UploadsAnswered, OnlyLeaseLossRefuses, SettledIsStored, UsageInit, NoUpload

LEMMA LedgerKeeps ==
  ASSUME Ledger, UNCHANGED <<receipts, table>>,
         leases' \in 0 .. MaxLeases, opened' \in 0 .. leases', holder' \in {0, leases'}, starting' \in BOOLEAN,
         \/ upload' = NoUpload
         \/ UNCHANGED upload /\ (upload = NoUpload \/ upload.lease <= leases'),
         \A r \in late' : IsRequest(r) /\ r.step \in InFlight,
         \/ UNCHANGED pending
         \/ /\ pending' \in Seq(Calls) /\ IsInjective(pending')
            /\ \A i : Contains(pending', i) => i \in Reloaded
  PROVE  Ledger'
<1>1. Reloaded' = Reloaded
  BY DEF Reloaded
<1>2. upload' = NoUpload \/ (IsRequest(upload') /\ upload'.lease <= leases')
  BY DEF Ledger
<1>3. pending' \in Seq(Calls) /\ IsInjective(pending') /\ \A i : Contains(pending', i) => i \in Reloaded
  BY DEF Ledger
<1>4. /\ receipts' \in [Calls -> ReceiptRows] /\ table' \in [Calls -> ReceiptRows] /\ IsFiniteSet(Reloaded')
  BY <1>1 DEF Ledger
<1> QED BY <1>1, <1>2, <1>3, <1>4 DEF Ledger

\* The attempts of the task, and requests that are sent or given up: no new rows.
LEMMA UsageQuiet ==
  ASSUME UsageInv, IssueLease \/ RevokeLease \/ OpenLedger \/ CloseLedger \/ GiveUp \/ UNCHANGED usageVars
  PROVE  UsageInv'
<1>0. Ledger /\ Lines /\ UploadsAnswered /\ SettledIsStored /\ UNCHANGED <<receipts, table>> /\ Reloaded' = Reloaded
  BY DEF UsageInv, IssueLease, RevokeLease, OpenLedger, CloseLedger, GiveUp, usageVars, Reloaded
<1>1. UploadRequests' \subseteq UploadRequests \cup {NoUpload}
  BY DEF IssueLease, RevokeLease, OpenLedger, CloseLedger, GiveUp, GivenUp, usageVars, UploadRequests
<1>2. Lines'
  BY <1>0, <1>1, RequestsGone, NoNewRows
<1>3. CASE IssueLease \/ RevokeLease \/ UNCHANGED usageVars
  <2>1. /\ UNCHANGED <<receipts, pending, opened, upload, late, table>> /\ leases \in 0 .. MaxLeases
        /\ leases' \in leases .. MaxLeases /\ holder' \in {0, leases'} /\ starting' \in BOOLEAN
        /\ holder' # holder => holder' = 0 \/ holder' > leases
    <3>1. leases \in 0 .. MaxLeases /\ holder \in {0, leases} /\ starting \in BOOLEAN
      BY <1>0 DEF Ledger
    <3>2. CASE IssueLease
      BY <3>1, <3>2 DEF IssueLease
    <3>3. CASE RevokeLease \/ UNCHANGED usageVars
      BY <3>1, <3>3 DEF RevokeLease, usageVars
    <3> QED BY <1>3, <3>2, <3>3
  <2>2. upload = NoUpload \/ upload.lease \in 1 .. leases
    BY <1>0 DEF Ledger, IsRequest, UploadShape
  <2>3. Ledger'
    <3>1. opened' \in 0 .. leases' /\ (upload = NoUpload \/ upload.lease <= leases')
      BY <1>0, <2>1, <2>2 DEF Ledger
    <3>2. leases' \in 0 .. MaxLeases
      BY <2>1
    <3>3. \A r \in late' : IsRequest(r) /\ r.step \in InFlight
      BY <1>0, <2>1 DEF Ledger
    <3> QED BY <1>0, <2>1, <3>1, <3>2, <3>3, LedgerKeeps
  <2>4. UploadsAnswered'
    BY <1>0, <2>1, <2>2 DEF UploadsAnswered, OnlyLeaseLossRefuses, NoUpload
  <2> QED BY <1>0, <1>2, <2>1, <2>3, <2>4 DEF UsageInv, SettledIsStored, Contains
<1>4. CASE OpenLedger
  <2>1. UNCHANGED <<receipts, upload, late, holder, leases, table>> /\ pending' \in SetToSeqs(Reloaded)
        /\ opened' = leases /\ starting' = FALSE
    BY <1>4 DEF OpenLedger
  <2>2. /\ pending' \in Seq(Reloaded) /\ IsInjective(pending') /\ \A i : Contains(pending', i) <=> i \in Reloaded
    BY <1>0, <2>1, Listing DEF Ledger
  <2>3. pending' \in Seq(Calls)
    BY <2>2 DEF Reloaded
  <2>4. Ledger'
    <3>1. leases' \in 0 .. MaxLeases /\ opened' \in 0 .. leases' /\ holder' \in {0, leases'}
          /\ (upload = NoUpload \/ upload.lease <= leases')
      BY <1>0, <2>1 DEF Ledger
    <3>3. starting' \in BOOLEAN
      BY <2>1, Zenon
    <3>2. \A r \in late' : IsRequest(r) /\ r.step \in InFlight
      BY <1>0, <2>1 DEF Ledger
    <3> QED BY <1>0, <2>1, <2>2, <2>3, <3>1, <3>2, <3>3, LedgerKeeps
  <2>5. UploadsAnswered'
    BY <1>0, <2>1 DEF UploadsAnswered, OnlyLeaseLossRefuses
  <2>6. SettledIsStored'
    BY <2>1, <2>2 DEF SettledIsStored, Reloaded
  <2> QED BY <1>2, <2>4, <2>5, <2>6 DEF UsageInv
<1>5. CASE CloseLedger \/ GiveUp
  <2>1. /\ upload' = NoUpload /\ UNCHANGED <<receipts, holder, leases, starting, table>>
        /\ late' = late \/ (upload.step \in InFlight /\ late' = late \cup {upload})
        /\ \/ opened' = 0 /\ pending' = << >>
           \/ UNCHANGED <<opened, pending>>
    BY <1>5 DEF CloseLedger, GiveUp, GivenUp
  <2>2. upload.step \in InFlight => IsRequest(upload)
    BY <1>0 DEF Ledger, NoUpload, InFlight
  <2>3. /\ pending' \in Seq(Calls) /\ IsInjective(pending') /\ \A i : Contains(pending', i) => i \in Reloaded
    <3>1. CASE pending' = << >>
      BY <3>1 DEF Contains, IsInjective
    <3>2. CASE pending' = pending
      BY <1>0, <3>2 DEF Ledger
    <3> QED BY <2>1, <3>1, <3>2
  <2>4. \A r \in late' : IsRequest(r) /\ r.step \in InFlight
    BY <1>0, <2>1, <2>2 DEF Ledger
  <2>5. opened' \in 0 .. leases'
    BY <1>0, <2>1 DEF Ledger
  <2>6. Ledger'
    <3>1. leases' \in 0 .. MaxLeases /\ holder' \in {0, leases'} /\ starting' \in BOOLEAN
      BY <1>0, <2>1 DEF Ledger
    <3> QED BY <1>0, <2>1, <2>3, <2>4, <2>5, <3>1, LedgerKeeps
  <2>7. UploadsAnswered'
    BY <2>1 DEF UploadsAnswered, OnlyLeaseLossRefuses, NoUpload
  <2>8. SettledIsStored'
    BY <1>0, <2>1 DEF SettledIsStored, Contains
  <2> QED BY <1>2, <2>6, <2>7, <2>8 DEF UsageInv
<1> QED BY <1>3, <1>4, <1>5

\* A saved row is later than every other row of its receipt.
LEMMA UsageSaves ==
  ASSUME UsageInv, NEW i \in Calls, NEW tokens \in 0 .. MaxTokens, NEW outcome \in Outcomes,
         SaveNew(i, tokens, outcome) \/ SaveAgain(i, tokens, outcome)
  PROVE  UsageInv'
<1>0. Ledger /\ Lines /\ UploadsAnswered /\ SettledIsStored /\ receipts[i] \in ReceiptRows
  BY DEF UsageInv, Ledger
<1>1. PICK row : Keeps(i, row) /\ row \in ReceiptRows /\ row.version = receipts[i].version + 1
                 /\ (receipts[i].version > 0 => /\ i \notin Api /\ row.attempt = receipts[i].attempt
                                                /\ receipts[i].tokens <= row.tokens)
  <2>1. CASE SaveNew(i, tokens, outcome)
    <3> DEFINE row == [version |-> 1, tokens |-> tokens, outcome |-> outcome, attempt |-> opened]
    <3>1. opened \in 1 .. MaxLeases
      BY <1>0, <2>1 DEF SaveNew, Ledger
    <3>2. row \in ReceiptRows
      BY <3>1 DEF ReceiptRows
    <3> QED BY <2>1, <3>2 DEF SaveNew, Unrecorded
  <2>2. CASE SaveAgain(i, tokens, outcome)
    <3> DEFINE row == Merged(receipts[i], tokens, outcome)
               old == receipts[i]
    <3>1. old.version \in 1 .. MaxVersion - 1 /\ Keeps(i, row) /\ i \notin Api
      BY <2>2 DEF SaveAgain
    <3>2. old \in [version : 1 .. MaxVersion, tokens : 0 .. MaxTokens, outcome : Outcomes, attempt : 1 .. MaxLeases]
      BY <1>0, <3>1, RowTyped
    <3>3. MergedTokens(old, tokens) \in 0 .. MaxTokens /\ MergedTokens(old, tokens) >= old.tokens
      <4>1. old.tokens \in Nat /\ tokens \in Nat
        BY <3>2
      <4>2. Max({old.tokens, tokens}) \in {old.tokens, tokens} /\ Max({old.tokens, tokens}) >= old.tokens
        BY <4>1, Larger
      <4> QED BY <3>2, <4>2 DEF MergedTokens
    <3>4. row \in [version : 1 .. MaxVersion, tokens : 0 .. MaxTokens, outcome : Outcomes, attempt : 1 .. MaxLeases]
      BY <3>1, <3>2, <3>3 DEF Merged
    <3>5. row.version = old.version + 1 /\ row.attempt = old.attempt /\ row.tokens = MergedTokens(old, tokens)
      BY DEF Merged
    <3>6. row \in ReceiptRows
      BY <3>4 DEF ReceiptRows
    <3> QED BY <3>1, <3>2, <3>3, <3>5, <3>6
  <2> QED BY <2>1, <2>2
<1>2. /\ receipts' = [receipts EXCEPT ![i] = row] /\ pending' = Queued(i)
      /\ UNCHANGED <<opened, upload, late, holder, leases, starting, table>>
  BY <1>1 DEF Keeps
<1>3. receipts' \in [Calls -> ReceiptRows] /\ receipts'[i] = row /\ \A j \in Calls : j # i => receipts'[j] = receipts[j]
  BY <1>0, <1>1, <1>2 DEF Ledger
<1>4. row.version \in Nat /\ row.version > 0 /\ receipts[i].version \in Nat
  BY <1>0, <1>1, RowTyped
<1>5. Reloaded' = Reloaded \cup {i}
  BY <1>3, <1>4 DEF Reloaded
<1>6. /\ pending' \in Seq(Calls) /\ IsInjective(pending') /\ Contains(pending', i)
      /\ \A j : Contains(pending', j) <=> j = i \/ Contains(pending, j)
  <2>0. pending \in Seq(Calls) /\ IsInjective(pending) /\ Len(pending) \in Nat
    BY <1>0 DEF Ledger
  <2>1. CASE Contains(pending, i)
    BY <1>2, <2>0, <2>1 DEF Queued
  <2>2. CASE ~Contains(pending, i)
    <3>1. /\ pending' = Append(pending, i) /\ pending' \in Seq(Calls) /\ Len(pending') = Len(pending) + 1
          /\ \A n \in 1 .. Len(pending) : pending'[n] = pending[n]
          /\ pending'[Len(pending) + 1] = i
      BY <1>2, <2>0, <2>2 DEF Queued
    <3>2. \A n \in 1 .. Len(pending') : n \in 1 .. Len(pending) \/ n = Len(pending) + 1
      BY <2>0, <3>1
    <3>3. \A n \in 1 .. Len(pending) : pending[n] # i
      BY <2>2 DEF Contains
    <3>4. IsInjective(pending')
      BY <2>0, <3>1, <3>2, <3>3 DEF IsInjective
    <3>5. Len(pending) + 1 \in 1 .. Len(pending') /\ \A n \in 1 .. Len(pending) : n \in 1 .. Len(pending')
      BY <2>0, <3>1
    <3> QED BY <3>1, <3>2, <3>4, <3>5 DEF Contains
  <2> QED BY <2>1, <2>2
<1>7. Ledger'
  <2>1. IsFiniteSet(Reloaded')
    BY <1>0, <1>5, FS_AddElement DEF Ledger
  <2> QED BY <1>0, <1>2, <1>3, <1>5, <1>6, <2>1 DEF Ledger, IsRequest, UploadShape
<1>8. Lines'
  <2>1. \A j \in Calls : j # i => RowsOf(j)' = RowsOf(j)
    BY <1>2, <1>3 DEF RowsOf, UploadRequests
  <2>2. RowsOf(i)' \subseteq RowsOf(i) \cup {row}
    BY <1>2, <1>3 DEF RowsOf, UploadRequests
  <2>3. \A a \in RowsOf(i) : a \in ReceiptRows /\ a.version \in Nat /\ a.version < row.version
                             /\ (0 < a.version => i \notin Api /\ a.attempt = row.attempt /\ a.tokens <= row.tokens)
    <3> TAKE a \in RowsOf(i)
    <3>1. a \in ReceiptRows /\ a.version <= receipts[i].version /\ InLine(i, a, receipts[i])
      BY <1>0 DEF Lines, RowsOf
    <3>2. a.version \in Nat /\ a.tokens \in Nat /\ receipts[i].tokens \in Nat /\ row.tokens \in Nat
      BY <1>0, <1>1, <3>1, RowTyped
    <3> QED BY <1>1, <1>4, <3>1, <3>2 DEF InLine
  <2>4. \A a \in RowsOf(i)' : a \in ReceiptRows /\ a.version <= row.version
    BY <1>1, <1>4, <2>2, <2>3
  <2>5. \A a, b \in RowsOf(i)' : InLine(i, a, b)
    <3> SUFFICES ASSUME NEW a \in RowsOf(i)', NEW b \in RowsOf(i)' PROVE InLine(i, a, b)
      OBVIOUS
    <3>1. CASE a = row
      BY <1>4, <2>2, <2>3, <3>1 DEF InLine
    <3>2. CASE a # row /\ b = row
      BY <1>4, <2>2, <2>3, <3>2 DEF InLine
    <3>3. CASE a # row /\ b # row
      BY <1>0, <2>2, <3>3 DEF Lines
    <3> QED BY <3>1, <3>2, <3>3
  <2> QED BY <1>0, <1>3, <2>1, <2>4, <2>5 DEF Lines
<1>9. UploadsAnswered'
  BY <1>0, <1>2 DEF UploadsAnswered, OnlyLeaseLossRefuses
<1>10. SettledIsStored'
  BY <1>0, <1>2, <1>3, <1>6 DEF SettledIsStored
<1> QED BY <1>7, <1>8, <1>9, <1>10 DEF UsageInv

LEMMA UsageSend ==
  ASSUME UsageInv, Send
  PROVE  UsageInv'
<1>0. Ledger /\ Lines /\ SettledIsStored
  BY DEF UsageInv
<1> DEFINE first == SubSeq(pending, 1, Min({BatchSize, Len(pending)}))
           ids == ToSet(first)
<1>1. /\ upload' = [step |-> "sent", lease |-> opened, ids |-> ids, rows |-> [i \in ids |-> receipts[i]]]
      /\ UNCHANGED <<receipts, pending, opened, late, holder, leases, starting, table>>
      /\ opened # 0 /\ pending # << >>
  BY DEF Send
<1>2. ids \subseteq Calls /\ ids # {}
  <2>1. pending \in Seq(Calls) /\ Len(pending) \in Nat \ {0}
    BY <1>0, <1>1 DEF Ledger
  <2>2. Min({BatchSize, Len(pending)}) \in 1 .. Len(pending)
    BY <2>1, Smaller
  <2> DEFINE n == Min({BatchSize, Len(pending)})
  <2> HIDE DEF n
  <2>3. SubSeq(pending, 1, n) \in Seq(Calls) /\ Len(SubSeq(pending, 1, n)) = n /\ n \in 1 .. Len(pending)
    <3>1. n \in 1 .. Len(pending)
      BY <2>2 DEF n
    <3> QED BY <2>1, <3>1
  <2>4. DOMAIN SubSeq(pending, 1, n) = 1 .. n /\ \A m \in 1 .. n : SubSeq(pending, 1, n)[m] \in Calls
    BY <2>1, <2>3
  <2>5. first = SubSeq(pending, 1, n)
    BY DEF n
  <2>6. 1 \in 1 .. n
    BY <2>1, <2>3
  <2> QED BY <2>4, <2>5, <2>6 DEF ToSet
<1> HIDE DEF first, ids
<1>3. IsRequest(upload') /\ upload'.lease <= leases'
  <2>1. opened \in 1 .. MaxLeases /\ opened <= leases
    BY <1>0, <1>1 DEF Ledger
  <2>2. [i \in ids |-> receipts[i]] \in [ids -> ReceiptRows]
    BY <1>0, <1>2 DEF Ledger
  <2> QED BY <1>1, <1>2, <2>1, <2>2 DEF IsRequest, UploadShape, InFlight, Finished
<1>4. Ledger'
  <2>1. Reloaded' = Reloaded
    BY <1>1 DEF Reloaded
  <2>2. pending' \in Seq(Calls) /\ IsInjective(pending') /\ \A i : Contains(pending', i) => i \in Reloaded
    BY <1>0, <1>1 DEF Ledger
  <2>3. \A r \in late' : IsRequest(r) /\ r.step \in InFlight
    BY <1>0, <1>1 DEF Ledger
  <2> QED BY <1>0, <1>1, <1>3, <2>1, <2>2, <2>3 DEF Ledger
<1>5. ASSUME NEW i \in Calls PROVE RowsOf(i)' \subseteq RowsOf(i)
  BY <1>1 DEF RowsOf, UploadRequests
<1>6. Lines'
  BY <1>0, <1>1, <1>5, NoNewRows
<1>7. UploadsAnswered'
  BY <1>1 DEF UploadsAnswered, OnlyLeaseLossRefuses
<1>8. SettledIsStored'
  BY <1>0, <1>1 DEF SettledIsStored
<1> QED BY <1>4, <1>6, <1>7, <1>8 DEF UsageInv

\* What is acknowledged is stored as it is in the ledger.
LEMMA UsageReceive ==
  ASSUME UsageInv, Receive
  PROVE  UsageInv'
<1>0. Ledger /\ Lines /\ UploadsAnswered /\ SettledIsStored
  BY DEF UsageInv
<1>1. upload' = NoUpload /\ UNCHANGED <<receipts, opened, late, holder, leases, starting, table>>
  BY DEF Receive
<1> DEFINE rest == {i \in Reloaded : Contains(pending, i) /\ i \notin Acknowledged}
<1>2. /\ pending' \in Seq(Calls) /\ IsInjective(pending') /\ \A i : Contains(pending', i) => i \in Reloaded
      /\ \A i : Contains(pending, i) => Contains(pending', i) \/ (upload.step = "ok" /\ i \in Acknowledged)
  <2>1. CASE upload.step = "ok"
    <3>1. pending \in Seq(Calls) /\ \A i : i \in ToSet(pending) <=> Contains(pending, i)
      BY <1>0 DEF Ledger, ToSet, Contains
    <3>2. ToSet(pending) \ Acknowledged = rest
      BY <1>0, <3>1 DEF Ledger
    <3>3. rest \in SUBSET Reloaded /\ IsFiniteSet(Reloaded)
      BY <1>0 DEF Ledger
    <3>4. IsFiniteSet(rest)
      BY <3>3, FS_Subset
    <3>5. pending' \in SetToSeqs(rest)
      BY <2>1, <3>2 DEF Receive
    <3>6. pending' \in Seq(rest) /\ IsInjective(pending') /\ \A i : Contains(pending', i) <=> i \in rest
      BY <3>4, <3>5, Listing
    <3>7. pending' \in Seq(Calls)
      BY <3>6 DEF Reloaded
    <3>8. \A i : Contains(pending, i) => Contains(pending', i) \/ i \in Acknowledged
      BY <1>0, <3>6 DEF Ledger
    <3> QED BY <2>1, <3>6, <3>7, <3>8
  <2>2. CASE upload.step # "ok"
    BY <1>0, <2>2 DEF Receive, Ledger
  <2> QED BY <2>1, <2>2
<1>3. Ledger'
  <2>1. leases' \in 0 .. MaxLeases /\ opened' \in 0 .. leases' /\ holder' \in {0, leases'}
        /\ \A r \in late' : IsRequest(r) /\ r.step \in InFlight
    BY <1>0, <1>1 DEF Ledger
  <2>2. starting' \in BOOLEAN
    BY <1>0, <1>1 DEF Ledger
  <2> QED BY <1>0, <1>1, <1>2, <2>1, <2>2, LedgerKeeps
<1>4. Lines'
  <2>1. UploadRequests' \subseteq UploadRequests \cup {NoUpload}
    BY <1>1 DEF UploadRequests
  <2> QED BY <1>0, <1>1, <2>1, RequestsGone, NoNewRows
<1>5. UploadsAnswered'
  BY <1>1 DEF UploadsAnswered, OnlyLeaseLossRefuses, NoUpload
<1>6. SettledIsStored'
  <2> SUFFICES ASSUME opened # 0, NEW i \in Calls, receipts[i].version > 0, ~Contains(pending', i)
               PROVE  table[i] = receipts[i]
    BY <1>1 DEF SettledIsStored
  <2>1. CASE ~Contains(pending, i)
    BY <1>0, <2>1 DEF SettledIsStored
  <2>2. CASE Contains(pending, i)
    <3>1. upload.step = "ok" /\ i \in upload.ids /\ receipts[i] = upload.rows[i]
      BY <1>2, <2>2 DEF Acknowledged
    <3>2. receipts[i].version <= table[i].version
      BY <1>0, <3>1 DEF UploadsAnswered
    <3>3. /\ table[i] \in ReceiptRows /\ receipts[i] \in ReceiptRows /\ table[i].version <= receipts[i].version
          /\ InLine(i, table[i], receipts[i])
      BY <1>0 DEF Lines, RowsOf
    <3>4. table[i].version = receipts[i].version
      BY <3>2, <3>3, RowTyped
    <3> QED BY <3>3, <3>4 DEF InLine
  <2> QED BY <2>1, <2>2
<1> QED BY <1>3, <1>4, <1>5, <1>6 DEF UsageInv

\* A row that the table takes is later than the one it had; the latest one stays.
LEMMA StoredRows ==
  ASSUME UsageInv, NEW r \in UploadRequests, IsRequest(r), table' = StoredBy(r), UNCHANGED <<receipts, pending, opened>>,
         \A x \in UploadRequests' : \E y \in UploadRequests : x.ids = y.ids /\ x.rows = y.rows
  PROVE  Lines' /\ SettledIsStored'
<1>0. Ledger /\ Lines /\ SettledIsStored
  BY DEF UsageInv
<1>1. \A i \in Calls :
        \/ table'[i] = table[i]
        \/ i \in r.ids /\ table'[i] = r.rows[i] /\ table[i].version < r.rows[i].version
  BY <1>0, Storing
<1>2. ASSUME NEW i \in Calls PROVE RowsOf(i)' \subseteq RowsOf(i)
  <2>1. table'[i] \in RowsOf(i) /\ receipts'[i] \in RowsOf(i)
    BY <1>1 DEF RowsOf
  <2>2. ASSUME NEW x \in UploadRequests', i \in x.ids PROVE x.rows[i] \in RowsOf(i)
    BY <2>2 DEF RowsOf
  <2> QED BY <2>1, <2>2 DEF RowsOf
<1>3. Lines'
  BY <1>0, <1>2, NoNewRows
<1>4. SettledIsStored'
  <2> SUFFICES ASSUME opened # 0, NEW i \in Calls, receipts[i].version > 0, ~Contains(pending, i)
               PROVE  table'[i] = receipts[i]
    BY DEF SettledIsStored
  <2>1. table[i] = receipts[i]
    BY <1>0 DEF SettledIsStored
  <2>2. ASSUME i \in r.ids PROVE r.rows[i].version <= receipts[i].version /\ r.rows[i] \in ReceiptRows
    BY <1>0, <2>2 DEF Lines, RowsOf
  <2>3. receipts[i] \in ReceiptRows
    BY <1>0 DEF Ledger
  <2>4. ~(i \in r.ids /\ receipts[i].version < r.rows[i].version)
    BY <2>2, <2>3, RowTyped
  <2> QED BY <1>1, <2>1, <2>4
<1> QED BY <1>3, <1>4

LEMMA UsageHandle ==
  ASSUME UsageInv, (\E step \in InFlight : HandleUpload(step)) \/ (\E r \in late : HandleLate(r))
  PROVE  UsageInv'
<1>0. Ledger /\ Lines /\ UploadsAnswered /\ SettledIsStored
  BY DEF UsageInv
<1>1. PICK r \in UploadRequests :
        /\ IsRequest(r) /\ r.step \in InFlight /\ table' = StoredBy(r)
        /\ UNCHANGED <<receipts, pending, opened, holder, leases, starting>>
        /\ \/ r = upload /\ upload' = Handled(upload) /\ UNCHANGED late
           \/ /\ r \in late /\ UNCHANGED upload
              /\ late' = (late \ {r}) \cup {h \in {Handled(r)} : h.step \in InFlight}
  <2>1. ASSUME NEW step \in InFlight, HandleUpload(step) PROVE IsRequest(upload)
    BY <1>0, <2>1 DEF HandleUpload, Ledger, NoUpload, InFlight
  <2>2. \A r \in late : IsRequest(r) /\ r.step \in InFlight
    BY <1>0 DEF Ledger
  <2> QED BY <2>1, <2>2 DEF HandleUpload, HandleLate, UploadRequests
<1>2. /\ IsRequest(Handled(r)) /\ Handled(r).ids = r.ids /\ Handled(r).rows = r.rows
      /\ Handled(r).lease = r.lease
  BY <1>0, <1>1, Handling
<1>3. Lines' /\ SettledIsStored'
  <2>1. \A x \in UploadRequests' : \E y \in UploadRequests : x.ids = y.ids /\ x.rows = y.rows
    BY <1>1, <1>2 DEF UploadRequests
  <2> QED BY <1>1, <2>1, StoredRows
<1>4. Ledger'
  <2>1. table' \in [Calls -> ReceiptRows]
    BY <1>0, <1>1, Storing
  <2>2. upload' = NoUpload \/ (IsRequest(upload') /\ upload'.lease <= leases')
    BY <1>0, <1>1, <1>2 DEF Ledger, NoUpload, InFlight
  <2>3. \A x \in late' : IsRequest(x) /\ x.step \in InFlight
    BY <1>0, <1>1, <1>2 DEF Ledger
  <2>4. Reloaded' = Reloaded /\ receipts' \in [Calls -> ReceiptRows]
    BY <1>0, <1>1 DEF Reloaded, Ledger
  <2>5. pending' \in Seq(Calls) /\ IsInjective(pending') /\ \A i : Contains(pending', i) => i \in Reloaded
    BY <1>0, <1>1 DEF Ledger
  <2> QED BY <1>0, <1>1, <2>1, <2>2, <2>3, <2>4, <2>5 DEF Ledger
<1>5. \A i \in Calls : table[i].version <= table'[i].version
  BY <1>0, <1>1, Storing
<1>6. UploadsAnswered'
  <2>1. CASE r = upload /\ upload' = Handled(upload)
    <3>1. ASSUME upload'.step = "ok" \/ (upload'.step = "stored" /\ holder' = upload'.lease), NEW i \in upload'.ids
          PROVE  upload'.rows[i].version <= table'[i].version
      <4>0. i \in upload.ids /\ i \in Calls /\ upload'.rows = upload.rows /\ upload'.lease = upload.lease
        BY <1>1, <1>2, <2>1, <3>1 DEF IsRequest, UploadShape
      <4>1. CASE upload'.step = "ok"
        <5>1. upload.step = "stored" /\ holder = upload.lease
          BY <1>0, <1>1, <2>1, <4>1, Handling DEF Held
        <5>2. table' = table
          BY <1>1, <2>1, <5>1 DEF StoredBy
        <5> QED BY <1>0, <4>0, <5>1, <5>2 DEF UploadsAnswered
      <4>2. CASE upload'.step = "stored" /\ holder' = upload'.lease
        <5>1. upload.step = "checked" /\ Held(upload)
          BY <1>0, <1>1, <2>1, <4>0, <4>2, Handling DEF Held
        <5> QED BY <1>0, <1>1, <2>1, <4>0, <5>1, Storing
      <4> QED BY <3>1, <4>1, <4>2
    <3>2. ASSUME upload'.step = "refused" PROVE holder' # upload'.lease
      <4>1. \/ ~Held(upload)
            \/ upload.step = "stored" /\ \E i \in upload.ids : ~Kept(i, upload.rows[i])
        BY <1>0, <1>1, <2>1, <3>2, Handling
      <4>2. ASSUME upload.step = "stored", holder = upload.lease, NEW i \in upload.ids PROVE Kept(i, upload.rows[i])
        <5>0. i \in Calls
          BY <1>1, <2>1 DEF IsRequest, UploadShape
        <5>1. upload.rows[i].version <= table[i].version
          BY <1>0, <4>2 DEF UploadsAnswered
        <5>2. /\ InLine(i, table[i], upload.rows[i]) /\ table[i] \in ReceiptRows /\ upload.rows[i] \in ReceiptRows
          BY <1>0, <5>0 DEF Lines, RowsOf, UploadRequests
        <5> QED BY <5>1, <5>2, RowTyped DEF InLine, Kept
      <4> QED BY <1>1, <1>2, <2>1, <4>1, <4>2 DEF Held
    <3> QED BY <3>1, <3>2 DEF UploadsAnswered, OnlyLeaseLossRefuses
  <2>2. CASE UNCHANGED upload
    <3>1. ASSUME upload.step = "ok" \/ (upload.step = "stored" /\ holder = upload.lease), NEW i \in upload.ids
          PROVE  upload.rows[i].version <= table'[i].version
      <4>1. upload.rows[i].version <= table[i].version /\ i \in Calls
        BY <1>0, <3>1 DEF UploadsAnswered, Ledger, IsRequest, UploadShape, NoUpload
      <4>2. upload.rows[i] \in ReceiptRows /\ table[i] \in ReceiptRows /\ table'[i] \in ReceiptRows
        BY <1>0, <1>4, <3>1, <4>1 DEF Lines, RowsOf, UploadRequests, Ledger
      <4> QED BY <1>5, <4>1, <4>2, RowTyped
    <3> QED BY <1>0, <1>1, <2>2, <3>1 DEF UploadsAnswered, OnlyLeaseLossRefuses
  <2> QED BY <1>1, <2>1, <2>2
<1> QED BY <1>3, <1>4, <1>6 DEF UsageInv
-----------------------------------------------------------------------------
LEMMA UsageSteps == UsageInv /\ [UsageNext]_usageVars => UsageInv'
BY UsageQuiet, UsageSaves, UsageSend, UsageReceive, UsageHandle DEF UsageNext, Saves

\* The rows of one receipt, in memory, on the way and in the table, are versions of
\* one line; requests carry leases that were issued; what was stored stays.
THEOREM UsageHolds == UsageSpec => []UsageInv
BY UsageStart, UsageSteps, PTL DEF UsageSpec

\* What the variables of the usage receipts hold, for any calls, batch size and
\* number of leases.
THEOREM UsageTyped == UsageSpec => []UsageTypeOK
<1>1. UsageInv => UsageTypeOK
  BY LedgerTyped DEF UsageInv
<1> QED BY UsageHolds, <1>1, PTL

\* The website refuses an upload only for its lease (usage.ts, storeUsage): no row of
\* the ledger ever disagrees with one it has stored, in whatever order they arrive.
THEOREM LedgerNeverConflicts == UsageSpec => []OnlyLeaseLossRefuses
<1>1. UsageInv => OnlyLeaseLossRefuses
  BY DEF UsageInv, UploadsAnswered
<1> QED BY UsageHolds, <1>1, PTL

\* A receipt the ledger takes for settled is in the website's table at its version
\* (usage_ledger.py, flush), although answers are lost and uploads come late.
THEOREM ReceiptsAreKept == UsageSpec => []SettledIsStored
<1>1. UsageInv => SettledIsStored
  BY DEF UsageInv
<1> QED BY UsageHolds, <1>1, PTL

\* The counts of a call never go back (the guard of the upsert in usage.ts).
THEOREM CountsGrow == UsageSpec => CountNeverRecedes
<1> DEFINE Grown == \A i \in Calls : table[i].version > 0 =>
              /\ table'[i].version >= table[i].version /\ table'[i].tokens >= table[i].tokens
              /\ table'[i].attempt = table[i].attempt
<1>1. ASSUME UsageInv, [UsageNext]_usageVars PROVE [Grown]_usageVars
  <2>0. Ledger /\ Lines /\ \A i \in Calls : table[i] \in ReceiptRows
    BY <1>1 DEF UsageInv, Ledger
  <2>1. ASSUME UNCHANGED table PROVE Grown
    BY <2>0, <2>1, RowTyped
  <2>2. ASSUME NEW r \in UploadRequests, IsRequest(r), table' = StoredBy(r) PROVE Grown
    <3> SUFFICES ASSUME NEW i \in Calls, table[i].version > 0
                 PROVE  /\ table'[i].version >= table[i].version /\ table'[i].tokens >= table[i].tokens
                        /\ table'[i].attempt = table[i].attempt
      OBVIOUS
    <3>1. \/ table'[i] = table[i]
          \/ i \in r.ids /\ table'[i] = r.rows[i] /\ table[i].version < r.rows[i].version /\ Agrees(i, r.rows[i])
      BY <2>0, <2>2, Storing
    <3>2. i \in r.ids => r.rows[i] \in ReceiptRows
      BY <2>0, LinesAgree
    <3> QED BY <2>0, <3>1, <3>2, RowTyped DEF Agrees
  <2>3. \/ UNCHANGED table
        \/ \E r \in UploadRequests : IsRequest(r) /\ table' = StoredBy(r)
    <3>1. ASSUME NEW step \in InFlight, HandleUpload(step) PROVE IsRequest(upload)
      BY <2>0, <3>1 DEF HandleUpload, Ledger, NoUpload, InFlight
    <3>2. \A r \in late : IsRequest(r)
      BY <2>0 DEF Ledger
    <3> QED BY <1>1, <3>1, <3>2 DEF UsageNext, usageVars, UploadRequests, IssueLease, RevokeLease, OpenLedger, CloseLedger,
              Saves, SaveNew, SaveAgain, Keeps, Send, Receive, GiveUp, HandleUpload, HandleLate
  <2> QED BY <2>1, <2>2, <2>3
<1> QED BY UsageHolds, <1>1, PTL DEF UsageSpec, CountNeverRecedes

HIDE UsageAssumption DEF UsageAssumption
-----------------------------------------------------------------------------
(***************************************************************************)
(* Reviews                                                                 *)
(***************************************************************************)

USE ReviewAssumption DEF ReviewAssumption

Attempt == [context : Contexts, entries : Seq(Entries)]
Passes  == [step : PassSteps, dir : Nat, number : Nat, terminal : Terminals, answer : Answers,
            formatted : BOOLEAN]

Committed(attempt) == \E i \in DOMAIN attempt.entries : attempt.entries[i].status = "validated"

\* The ledger: what is committed is at the end of its attempt and was given, and there
\* is at most one such attempt of each context.
LedgerOK(ledger, verdicts) ==
  /\ ledger \in Seq(Attempt) /\ Len(ledger) <= MaxReviews
  /\ \A d \in 1 .. Len(ledger) : \A i \in DOMAIN ledger[d].entries :
       ledger[d].entries[i].status = "validated" =>
         /\ i = Len(ledger[d].entries)
         /\ [context |-> ledger[d].context, verdict |-> ledger[d].entries[i].report] \in verdicts
  /\ \A d, e \in 1 .. Len(ledger) :
       ledger[d].context = ledger[e].context /\ Committed(ledger[d]) /\ Committed(ledger[e]) => d = e

Open == InTurn \cup Raised \cup {"published"}
Judged(r) == [context |-> ContextOf(r), verdict |-> work[r].answer] \in judged

\* A role at work: its attempt is of its context, and nothing is committed in that
\* context; what it returns, or may commit, was given.
RoleOK(r) ==
  /\ work[r].step # "waiting" =>
       frozen # 0 /\ (r = "content-evidence" => work["content-first"].step = "returned")
  /\ work[r].step \in Open =>
       /\ work[r].dir \in Dirs /\ attempts[work[r].dir].context = ContextOf(r)
       /\ \A d \in Dirs : attempts[d].context = ContextOf(r) => ~Committed(attempts[d])
  /\ work[r].step = "returned" => Judged(r)
  /\ work[r].step = "published" => work[r].terminal = "completed"
  /\ work[r].step \in {"answered", "published"} /\ work[r].terminal = "completed" => Judged(r)

ReviewsInv ==
  /\ candidate \in 1 .. MaxCandidates /\ frozen \in 0 .. candidate
  /\ work \in [Roles -> Passes] /\ \A r \in Roles : work[r].dir <= Len(attempts)
  /\ judged \subseteq [context : Contexts, verdict : Verdicts]
  /\ reviewed \subseteq [candidate : 1 .. MaxCandidates, reports : [Roles -> Verdicts]]
  /\ LedgerOK(attempts, judged)
  /\ \A r \in Roles : RoleOK(r)
  /\ \A x \in reviewed : \A r \in Roles :
       [context |-> [role |-> r, candidate |-> x.candidate,
                     first |-> IF r = "content-evidence" THEN x.reports["content-first"] ELSE "none"],
        verdict |-> x.reports[r]] \in judged

\* When no append is torn: the entries are numbered without gap or repetition, and an
\* attempt in memory has the number of its next entry.
Whole(entries) == \A i \in DOMAIN entries : entries[i].number = i - 1

ChainsInv ==
  /\ \A d \in 1 .. Len(attempts) : Whole(attempts[d].entries)
  /\ \A r \in Roles : work[r].step \in Open => Len(attempts[work[r].dir].entries) = work[r].number
-----------------------------------------------------------------------------
LEMMA AttemptsTyped ==
  ASSUME NEW A \in Seq(Attempt)
  PROVE  /\ Len(A) \in Nat /\ DOMAIN A = 1 .. Len(A)
         /\ \A d \in 1 .. Len(A) :
              /\ A[d] \in Attempt /\ A[d].context \in Contexts /\ A[d].entries \in Seq(Entries)
              /\ Len(A[d].entries) \in Nat /\ DOMAIN A[d].entries = 1 .. Len(A[d].entries)
<1>1. Len(A) \in Nat /\ DOMAIN A = 1 .. Len(A) /\ \A d \in 1 .. Len(A) : A[d] \in Attempt
  OBVIOUS
<1>2. \A d \in 1 .. Len(A) : A[d].context \in Contexts /\ A[d].entries \in Seq(Entries)
  BY <1>1 DEF Attempt
<1>3. \A S \in Seq(Entries) : Len(S) \in Nat /\ DOMAIN S = 1 .. Len(S)
  OBVIOUS
<1> QED BY <1>1, <1>2, <1>3

\* The ledger in any state of the reviews.
LEMMA AttemptsInOrder ==
  ASSUME LedgerOK(attempts, judged)
  PROVE  /\ attempts \in Seq(Attempt) /\ Len(attempts) \in Nat /\ Dirs = 1 .. Len(attempts)
         /\ \A d \in 1 .. Len(attempts) :
              /\ attempts[d] \in Attempt /\ attempts[d].context \in Contexts /\ attempts[d].entries \in Seq(Entries)
              /\ Len(attempts[d].entries) \in Nat /\ DOMAIN attempts[d].entries = 1 .. Len(attempts[d].entries)
<1>1. attempts \in Seq(Attempt)
  BY DEF LedgerOK
<1>2. Len(attempts) \in Nat /\ DOMAIN attempts = 1 .. Len(attempts)
  BY <1>1
<1>3. Dirs = 1 .. Len(attempts)
  BY <1>2, Zenon DEF Dirs
<1> QED BY <1>1, <1>2, <1>3, AttemptsTyped

LEMMA FirstEntry ==
  /\ Prepared \in Seq(Entries) /\ << >> \in Seq(Entries) /\ Len(Prepared) = 1
  /\ Whole(Prepared) /\ Whole(<< >>)
  /\ \A i \in DOMAIN Prepared : Prepared[i].status = "pending"
<1>1. Entry(0, "pending", "none") \in Entries
  BY DEF Entry, Entries, Answers
<1>2. Prepared \in Seq(Entries) /\ Len(Prepared) = 1 /\ DOMAIN Prepared = {1} /\ Prepared[1] = Entry(0, "pending", "none")
  BY <1>1 DEF Prepared
<1> QED BY <1>2 DEF Whole, Entry

LEMMA Validations ==
  ASSUME LedgerOK(attempts, judged), NEW d \in Dirs
  PROVE  /\ Validated(d) <=> Committed(attempts[d])
         /\ Validated(d) => /\ LastEntry(d).status = "validated"
                            /\ [context |-> attempts[d].context, verdict |-> LastEntry(d).report] \in judged
<1>1. /\ d \in 1 .. Len(attempts) /\ attempts[d].entries \in Seq(Entries)
  BY AttemptsInOrder
<1>2. DOMAIN attempts[d].entries = 1 .. Len(attempts[d].entries) /\ Len(attempts[d].entries) \in Nat
  BY <1>1, AttemptsInOrder
<1>3. attempts[d].entries # << >> <=> Len(attempts[d].entries) \in DOMAIN attempts[d].entries
  BY <1>1, <1>2
<1>4. Validated(d) => Committed(attempts[d])
  BY <1>3 DEF Validated, LastEntry, Committed
<1>5. Committed(attempts[d]) => Validated(d)
  BY <1>1, <1>3 DEF Validated, LastEntry, Committed, LedgerOK
<1>6. Validated(d) => [context |-> attempts[d].context, verdict |-> LastEntry(d).report] \in judged
  BY <1>1, <1>3 DEF Validated, LastEntry, LedgerOK
<1> QED BY <1>4, <1>5, <1>6 DEF Validated

\* A further entry of an attempt of a context in which nothing is committed ...
Extends(A, J, d, e, B) ==
  /\ LedgerOK(A, J) /\ d \in 1 .. Len(A) /\ e \in Entries
  /\ e.status = "validated" => [context |-> A[d].context, verdict |-> e.report] \in J
  /\ \A o \in 1 .. Len(A) : A[o].context = A[d].context => ~Committed(A[o])
  /\ B = [A EXCEPT ![d].entries = Append(@, e)]

LEMMA Extension ==
  ASSUME NEW A, NEW J, NEW d, NEW e, NEW B, Extends(A, J, d, e, B)
  PROVE  /\ LedgerOK(B, J) /\ Len(B) = Len(A)
         /\ \A o \in 1 .. Len(A) : B[o].context = A[o].context /\ (o # d => B[o] = A[o])
         /\ B[d].entries = Append(A[d].entries, e)
         /\ Committed(B[d]) <=> e.status = "validated"
<1> USE DEF Extends
<1>1. /\ A \in Seq(Attempt) /\ Len(A) \in Nat /\ DOMAIN A = 1 .. Len(A)
      /\ \A o \in 1 .. Len(A) : A[o] \in Attempt
  BY DEF LedgerOK
<1> DEFINE S == A[d].entries
           T == Append(S, e)
<1>2. S \in Seq(Entries) /\ A[d].context \in Contexts
  BY <1>1 DEF Attempt
<1>3. /\ T \in Seq(Entries) /\ Len(T) = Len(S) + 1 /\ Len(S) \in Nat /\ DOMAIN T = 1 .. Len(S) + 1
      /\ DOMAIN S = 1 .. Len(S) /\ T[Len(T)] = e /\ \A i \in 1 .. Len(S) : T[i] = S[i]
  BY <1>2
<1>4. /\ DOMAIN B = 1 .. Len(A) /\ B[d] = [context |-> A[d].context, entries |-> T]
      /\ \A o \in 1 .. Len(A) : o # d => B[o] = A[o]
  BY <1>1 DEF Attempt
<1>5. \A i \in DOMAIN S : S[i].status # "validated"
  BY DEF Committed
<1>0. T = Append(A[d].entries, e)
  OBVIOUS
<1> HIDE DEF S, T
<1>6. B \in Seq(Attempt) /\ Len(B) = Len(A)
  BY <1>1, <1>2, <1>3, <1>4 DEF Attempt
<1>7. ASSUME NEW i \in DOMAIN T, T[i].status = "validated" PROVE i = Len(T) /\ T[i] = e
  <2>1. CASE i \in 1 .. Len(S)
    <3>1. T[i] = S[i] /\ S[i].status # "validated"
      BY <1>3, <1>5, <2>1
    <3> QED BY <1>7, <3>1
  <2>2. CASE i \notin 1 .. Len(S)
    <3>1. i = Len(T)
      BY <1>3, <2>2
    <3> QED BY <1>3, <3>1
  <2> QED BY <2>1, <2>2
<1>8. Committed(B[d]) <=> e.status = "validated"
  <2>1. Len(T) \in DOMAIN T
    BY <1>3
  <2> QED BY <1>3, <1>4, <1>7, <2>1 DEF Committed
<1>9. \A o \in 1 .. Len(A) : B[o].context = A[o].context
  BY <1>4
<1>10. \A o, p \in 1 .. Len(B) : B[o].context = B[p].context /\ Committed(B[o]) /\ Committed(B[p]) => o = p
  BY <1>4, <1>6, <1>9 DEF LedgerOK
<1>11. ASSUME NEW o \in 1 .. Len(B), NEW i \in DOMAIN B[o].entries, B[o].entries[i].status = "validated"
       PROVE  /\ i = Len(B[o].entries)
              /\ [context |-> B[o].context, verdict |-> B[o].entries[i].report] \in J
  <2>1. CASE o = d
    BY <1>4, <1>7, <1>11, <2>1
  <2>2. CASE o # d
    BY <1>4, <1>6, <1>11, <2>2 DEF LedgerOK
  <2> QED BY <2>1, <2>2
<1> QED BY <1>0, <1>4, <1>6, <1>8, <1>9, <1>10, <1>11 DEF LedgerOK

\* ... and another directory leave the ledger in order.
Opens(A, J, c, S, B) ==
  /\ LedgerOK(A, J) /\ Len(A) < MaxReviews /\ c \in Contexts
  /\ S = << >> \/ S = Prepared
  /\ B = Append(A, [context |-> c, entries |-> S])

LEMMA Opening ==
  ASSUME NEW A, NEW J, NEW c, NEW S, NEW B, Opens(A, J, c, S, B)
  PROVE  /\ LedgerOK(B, J) /\ Len(B) = Len(A) + 1
         /\ \A o \in 1 .. Len(A) : B[o] = A[o]
         /\ B[Len(A) + 1] = [context |-> c, entries |-> S] /\ ~Committed(B[Len(A) + 1])
<1> USE DEF Opens
<1>1. /\ A \in Seq(Attempt) /\ Len(A) \in Nat
      /\ [context |-> c, entries |-> S] \in Attempt
  <2>1. A \in Seq(Attempt)
    BY DEF LedgerOK
  <2>2. S \in Seq(Entries)
    BY FirstEntry
  <2> QED BY <2>1, <2>2, AttemptsTyped DEF Attempt
<1>2. /\ B \in Seq(Attempt) /\ Len(B) = Len(A) + 1
      /\ \A o \in 1 .. Len(A) : B[o] = A[o]
      /\ B[Len(A) + 1] = [context |-> c, entries |-> S]
  BY <1>1
<1>3. \A i \in DOMAIN S : S[i].status # "validated"
  BY FirstEntry
<1>4. ~Committed(B[Len(A) + 1])
  BY <1>2, <1>3 DEF Committed
<1>5. \A o \in 1 .. Len(B) : o \in 1 .. Len(A) \/ o = Len(A) + 1
  BY <1>1, <1>2
<1>7. \A o, p \in 1 .. Len(B) : B[o].context = B[p].context /\ Committed(B[o]) /\ Committed(B[p]) => o = p
  BY <1>2, <1>4, <1>5 DEF LedgerOK
<1>8. ASSUME NEW o \in 1 .. Len(B), NEW i \in DOMAIN B[o].entries, B[o].entries[i].status = "validated"
      PROVE  /\ i = Len(B[o].entries)
             /\ [context |-> B[o].context, verdict |-> B[o].entries[i].report] \in J
  <2>1. CASE o \in 1 .. Len(A)
    BY <1>2, <1>8, <2>1 DEF LedgerOK
  <2>2. CASE o = Len(A) + 1
    BY <1>2, <1>3, <1>8, <2>2
  <2> QED BY <1>5, <2>1, <2>2
<1>9. Len(B) <= MaxReviews
  BY <1>1, <1>2
<1> QED BY <1>2, <1>4, <1>7, <1>8, <1>9 DEF LedgerOK
-----------------------------------------------------------------------------
LEMMA ReviewsTyped == ReviewsInv => ReviewsTypeOK
<1> SUFFICES ASSUME ReviewsInv PROVE ReviewsTypeOK
  OBVIOUS
<1>1. attempts \in Seq(Attempt) /\ Len(attempts) \in Nat /\ Dirs = 1 .. Len(attempts)
  BY DEF ReviewsInv, LedgerOK, Dirs
<1>2. \A d \in Dirs : attempts[d] \in Attempt
  BY <1>1
<1>3. \A d \in Dirs : attempts[d].context \in Contexts /\ attempts[d].entries \in Seq(Entries)
  BY <1>2 DEF Attempt
<1>4. work \in [Roles -> [step : PassSteps, dir : 0 .. Len(attempts), number : Nat, terminal : Terminals,
                         answer : Answers, formatted : BOOLEAN]]
  BY <1>1 DEF ReviewsInv, Passes
<1> QED BY <1>1, <1>3, <1>4 DEF ReviewsInv, LedgerOK, ReviewsTypeOK

LEMMA ContextTyped ==
  ASSUME ReviewsInv, frozen # 0, NEW r \in Roles
  PROVE  ContextOf(r) \in Contexts /\ ContextOf(r).role = r
<1>1. frozen \in 1 .. MaxCandidates /\ work["content-first"].answer \in Answers
  BY DEF ReviewsInv, Roles, Passes
<1> QED BY <1>1 DEF ContextOf, Contexts, Answers

\* The step of one role changes its own passes and its own part of the ledger.
Grows(r, ledger) ==
  /\ Len(attempts) <= Len(ledger)
  /\ \A d \in 1 .. Len(ledger) :
       \/ d \in 1 .. Len(attempts) /\ ledger[d] = attempts[d]
       \/ ledger[d].context.role = r /\ (d \in 1 .. Len(attempts) => attempts[d].context.role = r)

LEMMA ContextStays ==
  ASSUME ReviewsInv, NEW r \in Roles, work[r].step # "returned",
         NEW x, work' = [work EXCEPT ![r] = x], frozen' = frozen,
         NEW q \in Roles, q = r \/ work[q].step # "waiting"
  PROVE  ContextOf(q)' = ContextOf(q)
<1>1. q = "content-evidence" => r # "content-first"
  BY DEF ReviewsInv, RoleOK
<1> QED BY <1>1 DEF ContextOf, ReviewsInv, Roles

LEMMA RoleSteps ==
  ASSUME ReviewsInv, NEW r \in Roles, work[r].step # "returned", frozen # 0,
         NEW x \in Passes, work' = [work EXCEPT ![r] = x], x.dir <= Len(attempts'),
         UNCHANGED <<candidate, frozen, reviewed>>,
         judged \subseteq judged', judged' \subseteq [context : Contexts, verdict : Verdicts],
         LedgerOK(attempts', judged'), Grows(r, attempts'), RoleOK(r)'
  PROVE  ReviewsInv'
<1>1. /\ work' \in [Roles -> Passes] /\ work'[r] = x
      /\ \A q \in Roles : q # r => work'[q] = work[q]
  BY DEF ReviewsInv
<1>2. Len(attempts) \in Nat /\ Len(attempts') \in Nat
  BY DEF ReviewsInv, LedgerOK
<1>3. \A q \in Roles : work'[q].dir <= Len(attempts')
  BY <1>1, <1>2 DEF ReviewsInv, Grows, Passes
<1>4. ASSUME NEW q \in Roles PROVE RoleOK(q)'
  <2>1. CASE q = r
    BY <2>1
  <2>2. CASE q # r /\ work[q].step = "waiting"
    BY <1>1, <2>2 DEF RoleOK, Open, InTurn, Raised
  <2>3. CASE q # r /\ work[q].step # "waiting"
    <3>1. ContextOf(q)' = ContextOf(q) /\ ContextOf(q).role = q /\ work'[q] = work[q]
      BY <1>1, <2>3, ContextStays, ContextTyped
    <3>2. Judged(q) => Judged(q)'
      BY <3>1 DEF Judged
    <3>3. q = "content-evidence" => work'["content-first"].step = "returned"
      BY <1>1, <2>3 DEF ReviewsInv, RoleOK, Roles
    <3>4. Dirs = 1 .. Len(attempts) /\ Dirs' = 1 .. Len(attempts')
      BY DEF ReviewsInv, LedgerOK, Dirs
    <3>5. \A d \in Dirs' : attempts'[d].context = ContextOf(q) => d \in Dirs /\ attempts'[d] = attempts[d]
      BY <2>3, <3>1, <3>4 DEF Grows
    <3>6. \A d \in Dirs : attempts[d].context = ContextOf(q) => d \in Dirs' /\ attempts'[d] = attempts[d]
      BY <1>2, <2>3, <3>1, <3>4 DEF Grows
    <3>7. ASSUME work[q].step \in Open
          PROVE  /\ work'[q].dir \in Dirs' /\ attempts'[work'[q].dir].context = ContextOf(q)'
                 /\ \A d \in Dirs' : attempts'[d].context = ContextOf(q)' => ~Committed(attempts'[d])
      <4>1. /\ work[q].dir \in Dirs /\ attempts[work[q].dir].context = ContextOf(q)
            /\ \A d \in Dirs : attempts[d].context = ContextOf(q) => ~Committed(attempts[d])
        BY <3>7 DEF ReviewsInv, RoleOK
      <4> QED BY <3>1, <3>5, <3>6, <4>1
    <3>8. RoleOK(q)
      BY DEF ReviewsInv
    <3> QED BY <2>3, <3>1, <3>2, <3>3, <3>7, <3>8 DEF RoleOK
  <2> QED BY <2>1, <2>2, <2>3
<1>5. \A y \in reviewed' : \A q \in Roles :
       [context |-> [role |-> q, candidate |-> y.candidate,
                     first |-> IF q = "content-evidence" THEN y.reports["content-first"] ELSE "none"],
        verdict |-> y.reports[q]] \in judged'
  BY DEF ReviewsInv
<1>6. /\ candidate' \in 1 .. MaxCandidates /\ frozen' \in 0 .. candidate'
      /\ reviewed' \subseteq [candidate : 1 .. MaxCandidates, reports : [Roles -> Verdicts]]
  BY DEF ReviewsInv
<1> QED BY <1>1, <1>3, <1>4, <1>5, <1>6 DEF ReviewsInv

\* Steps that leave the ledger alone and open no attempt.
LEMMA QuietRoleSteps ==
  ASSUME ReviewsInv, NEW r \in Roles, work[r].step # "returned", frozen # 0,
         NEW x \in Passes, work' = [work EXCEPT ![r] = x], x.dir <= Len(attempts),
         UNCHANGED <<attempts, candidate, frozen, judged, reviewed>>, RoleOK(r)'
  PROVE  ReviewsInv'
<1>1. LedgerOK(attempts', judged') /\ judged' \subseteq [context : Contexts, verdict : Verdicts]
  BY DEF ReviewsInv
<1>2. Grows(r, attempts')
  BY DEF Grows, ReviewsInv, LedgerOK
<1> QED BY <1>1, <1>2, RoleSteps

\* What an attempt in memory says of its directory.
LEMMA OpenRole ==
  ASSUME ReviewsInv, NEW r \in Roles, work[r].step \in Open
  PROVE  /\ frozen # 0 /\ work[r].step # "returned" /\ work[r] \in Passes
         /\ ContextOf(r) \in Contexts /\ ContextOf(r).role = r
         /\ work[r].dir \in 1 .. Len(attempts) /\ attempts[work[r].dir].context = ContextOf(r)
         /\ \A d \in 1 .. Len(attempts) : attempts[d].context = ContextOf(r) => ~Committed(attempts[d])
         /\ r = "content-evidence" => work["content-first"].step = "returned"
<1>1. work[r].step \notin {"waiting", "returned"} /\ RoleOK(r) /\ Dirs = 1 .. Len(attempts) /\ work[r] \in Passes
  BY DEF Open, InTurn, Raised, ReviewsInv, LedgerOK, Dirs
<1>2. frozen # 0
  BY <1>1 DEF RoleOK
<1> QED BY <1>1, <1>2, ContextTyped DEF RoleOK

\* An open attempt that gets one more entry, before its report is committed.
LEMMA Entering ==
  ASSUME ReviewsInv, NEW r \in Roles, work[r].step \in Open,
         NEW e \in Entries, e.status # "validated",
         NEW A, A = Appended(work[r].dir, e)
  PROVE  /\ Grows(r, A) /\ LedgerOK(A, judged) /\ Len(A) = Len(attempts)
         /\ work[r].dir \in 1 .. Len(A) /\ A[work[r].dir].context = ContextOf(r)
         /\ \A d \in 1 .. Len(A) : A[d].context = ContextOf(r) => ~Committed(A[d])
<1> DEFINE d == work[r].dir
<1>1. LedgerOK(attempts, judged) /\ Len(attempts) \in Nat
  BY AttemptsInOrder DEF ReviewsInv
<1>2. /\ d \in 1 .. Len(attempts) /\ attempts[d].context = ContextOf(r) /\ ContextOf(r).role = r
      /\ \A o \in 1 .. Len(attempts) : attempts[o].context = attempts[d].context => ~Committed(attempts[o])
  BY OpenRole
<1>3. A = [attempts EXCEPT ![d].entries = Append(@, e)]
  BY DEF Appended
<1>0. d = work[r].dir
  BY DEF d
<1> HIDE DEF d
<1>4. /\ LedgerOK(A, judged) /\ Len(A) = Len(attempts)
      /\ \A o \in 1 .. Len(attempts) : A[o].context = attempts[o].context /\ (o # d => A[o] = attempts[o])
      /\ ~Committed(A[d])
  <2>1. Extends(attempts, judged, d, e, A)
    BY <1>1, <1>2, <1>3 DEF Extends
  <2> QED BY <2>1, Extension
<1>5. Grows(r, A)
  BY <1>1, <1>2, <1>4 DEF Grows
<1>6. \A o \in 1 .. Len(A) : A[o].context = ContextOf(r) => ~Committed(A[o])
  BY <1>2, <1>4
<1> QED BY <1>0, <1>2, <1>4, <1>5, <1>6
-----------------------------------------------------------------------------
LEMMA StartedRole ==
  ASSUME ReviewsInv, NEW r \in Roles, CanStart(r)
  PROVE  /\ frozen # 0 /\ work[r].step = "waiting" /\ ContextOf(r) \in Contexts /\ ContextOf(r).role = r
         /\ r = "content-evidence" => work["content-first"].step = "returned"
BY ContextTyped DEF CanStart

LEMMA WaitingTyped == Waiting \in Passes
BY DEF Waiting, Passes, PassSteps, Terminals, Answers

\* A pass that ended.
LEMMA EndedTyped ==
  LET f == [Waiting EXCEPT !.step = "failed"] IN
  /\ f \in Passes /\ f.step = "failed" /\ f.dir = 0
  /\ \A a \in Answers : LET x == [Waiting EXCEPT !.step = "returned", !.answer = a] IN
       x \in Passes /\ x.step = "returned" /\ x.answer = a /\ x.dir = 0
BY DEF Waiting, Passes, PassSteps, Terminals, Answers

\* A pass that differs in one field.
LEMMA NumberUpdated ==
  ASSUME NEW p \in Passes, NEW n \in Nat
  PROVE  LET x == [p EXCEPT !.number = n] IN
         /\ x \in Passes /\ x.step = p.step /\ x.dir = p.dir /\ x.number = n
         /\ x.terminal = p.terminal /\ x.answer = p.answer
BY DEF Passes

LEMMA TerminalUpdated ==
  ASSUME NEW p \in Passes, NEW t \in Terminals
  PROVE  LET x == [p EXCEPT !.terminal = t] IN
         /\ x \in Passes /\ x.step = p.step /\ x.dir = p.dir /\ x.number = p.number
         /\ x.terminal = t /\ x.answer = p.answer
BY DEF Passes

LEMMA AnswerUpdated ==
  ASSUME NEW p \in Passes, NEW a \in Answers
  PROVE  LET x == [p EXCEPT !.answer = a] IN
         /\ x \in Passes /\ x.step = p.step /\ x.dir = p.dir /\ x.number = p.number
         /\ x.terminal = p.terminal /\ x.answer = a
BY DEF Passes

LEMMA StepUpdated ==
  ASSUME NEW p \in Passes, NEW w \in PassSteps
  PROVE  LET x == [p EXCEPT !.step = w] IN
         /\ x \in Passes /\ x.step = w /\ x.dir = p.dir /\ x.number = p.number
         /\ x.terminal = p.terminal /\ x.answer = p.answer
BY DEF Passes

\* The pass of a role in a new attempt.
LEMMA Updates ==
  ASSUME NEW p \in Passes
  PROVE  /\ \A s \in PassSteps : LET x == [p EXCEPT !.step = s] IN
              /\ x \in Passes /\ x.step = s /\ x.dir = p.dir /\ x.number = p.number
              /\ x.terminal = p.terminal /\ x.answer = p.answer
         /\ \A n \in Nat : LET x == [p EXCEPT !.number = n] IN
              /\ x \in Passes /\ x.step = p.step /\ x.dir = p.dir /\ x.number = n
              /\ x.terminal = p.terminal /\ x.answer = p.answer
         /\ \A n \in Nat : LET x == [p EXCEPT !.dir = n] IN
              /\ x \in Passes /\ x.step = p.step /\ x.dir = n /\ x.number = p.number
              /\ x.terminal = p.terminal /\ x.answer = p.answer
         /\ \A t \in Terminals : LET x == [p EXCEPT !.terminal = t] IN
              /\ x \in Passes /\ x.step = p.step /\ x.dir = p.dir /\ x.number = p.number
              /\ x.terminal = t /\ x.answer = p.answer
         /\ \A a \in Answers : LET x == [p EXCEPT !.answer = a] IN
              /\ x \in Passes /\ x.step = p.step /\ x.dir = p.dir /\ x.number = p.number
              /\ x.terminal = p.terminal /\ x.answer = a
         /\ LET x == [p EXCEPT !.formatted = TRUE] IN
              /\ x \in Passes /\ x.step = p.step /\ x.dir = p.dir /\ x.number = p.number
              /\ x.terminal = p.terminal /\ x.answer = p.answer
BY DEF Passes

LEMMA WaitingUpdated ==
  ASSUME NEW d \in Nat
  PROVE  LET x == [Waiting EXCEPT !.step = "prepared", !.dir = d, !.number = 1]
             y == [Waiting EXCEPT !.step = "prepared", !.dir = d, !.number = 1, !.formatted = TRUE]
         IN  /\ x \in Passes /\ x.step = "prepared" /\ x.dir = d /\ x.number = 1
             /\ y \in Passes /\ y.step = "prepared" /\ y.dir = d /\ y.number = 1
<1> DEFINE a == [Waiting EXCEPT !.step = "prepared"]
           b == [a EXCEPT !.dir = d]
           x == [b EXCEPT !.number = 1]
           y == [x EXCEPT !.formatted = TRUE]
<1>1. "prepared" \in PassSteps
  BY DEF PassSteps, InTurn, Raised
<1>2. a \in Passes /\ a.step = "prepared"
  BY <1>1, WaitingTyped, Updates
<1> HIDE DEF a
<1>3. b \in Passes /\ b.step = "prepared" /\ b.dir = d
  BY <1>2, Updates
<1> HIDE DEF b
<1>4. x \in Passes /\ x.step = "prepared" /\ x.dir = d /\ x.number = 1
  BY <1>3, Updates
<1> HIDE DEF x
<1>5. y \in Passes /\ y.step = "prepared" /\ y.dir = d /\ y.number = 1
  BY <1>4, Updates
<1> QED BY <1>4, <1>5, Zenon DEF a, b, x, y

LEMMA RoundSteps ==
  ASSUME ReviewsInv, Freeze \/ Change \/ CutShort \/ Conclude \/ UNCHANGED reviewVars
  PROVE  ReviewsInv'
<1>1. CASE Change \/ UNCHANGED reviewVars
  <2>1. UNCHANGED <<attempts, frozen, work, judged, reviewed>> /\ candidate' \in 1 .. MaxCandidates /\ candidate <= candidate'
    BY <1>1 DEF Change, reviewVars, ReviewsInv
  <2>2. frozen' \in 0 .. candidate'
    BY <2>1 DEF ReviewsInv
  <2>3. \A r \in Roles : RoleOK(r)'
    BY <2>1 DEF ReviewsInv, RoleOK, Judged, ContextOf, Dirs
  <2> QED BY <2>1, <2>2, <2>3 DEF ReviewsInv
<1>2. CASE Freeze \/ CutShort \/ Conclude
  <2>1. /\ work' = [r \in Roles |-> Waiting] /\ UNCHANGED <<attempts, candidate, judged>>
        /\ frozen' \in 0 .. candidate
    BY <1>2 DEF Freeze, CutShort, Conclude, ReviewsInv
  <2>2. work' \in [Roles -> Passes] /\ \A r \in Roles : work'[r].dir <= Len(attempts')
    BY <2>1, WaitingTyped DEF Waiting, ReviewsInv, LedgerOK
  <2>3. ASSUME NEW r \in Roles PROVE RoleOK(r)'
    BY <2>1 DEF RoleOK, Waiting, Open, InTurn, Raised
  <2>4. \A x \in reviewed' \ reviewed :
          /\ x \in [candidate : 1 .. MaxCandidates, reports : [Roles -> Verdicts]]
          /\ \A r \in Roles :
               [context |-> [role |-> r, candidate |-> x.candidate,
                  first |-> IF r = "content-evidence" THEN x.reports["content-first"] ELSE "none"],
                verdict |-> x.reports[r]] \in judged
    <3>1. CASE ~Conclude
      BY <1>2, <3>1 DEF Freeze, CutShort
    <3>2. CASE Conclude
      <4> DEFINE x == [candidate |-> frozen, reports |-> [r \in Roles |-> work[r].answer]]
      <4>1. reviewed' = reviewed \cup {x} /\ frozen \in 1 .. MaxCandidates
        BY <3>2 DEF Conclude, ReviewsInv
      <4>2. \A r \in Roles : Judged(r)
        BY <3>2 DEF Conclude, ReviewsInv, RoleOK
      <4>3. \A r \in Roles : work[r].answer \in Verdicts
        BY <4>2 DEF Judged, ReviewsInv
      <4>4. x \in [candidate : 1 .. MaxCandidates, reports : [Roles -> Verdicts]]
        BY <4>1, <4>3
      <4>5. \A r \in Roles :
               [context |-> [role |-> r, candidate |-> x.candidate,
                  first |-> IF r = "content-evidence" THEN x.reports["content-first"] ELSE "none"],
                verdict |-> x.reports[r]] \in judged
        BY <4>2 DEF Judged, ContextOf, Roles
      <4> QED BY <4>1, <4>4, <4>5
    <3> QED BY <3>1, <3>2
  <2> QED BY <2>1, <2>2, <2>3, <2>4 DEF ReviewsInv
<1> QED BY <1>1, <1>2

LEMMA ReuseSteps ==
  ASSUME ReviewsInv, NEW r \in Roles, Reuse(r)
  PROVE  ReviewsInv'
<1>0. CanStart(r) /\ UNCHANGED <<attempts, candidate, frozen, judged, reviewed>>
  BY DEF Reuse
<1>1. PICK d \in Found(r) : Returns(r, LastEntry(d).report)
  BY DEF Reuse
<1>2. d \in Dirs /\ attempts[d].context = ContextOf(r) /\ Validated(d) /\ LedgerOK(attempts, judged)
  BY DEF Found, InContext, ReviewsInv
<1>4. [context |-> ContextOf(r), verdict |-> LastEntry(d).report] \in judged
  BY <1>2, Validations
<1>5. LastEntry(d).report \in Answers
  BY <1>4 DEF ReviewsInv, Answers
<1> DEFINE x == [Waiting EXCEPT !.step = "returned", !.answer = LastEntry(d).report]
<1>6. x \in Passes /\ x.step = "returned" /\ x.answer = LastEntry(d).report /\ x.dir = 0
  BY <1>5, EndedTyped
<1>7. work' = [work EXCEPT ![r] = x] /\ work[r].step # "returned" /\ frozen # 0
  BY <1>0, <1>1, StartedRole DEF Returns
<1> HIDE DEF x
<1>8. ContextOf(r)' = ContextOf(r)
  BY <1>0, <1>7, ContextStays
<1>9. work'[r] = x /\ (r = "content-evidence" => work'["content-first"].step = "returned")
  BY <1>0, <1>7, StartedRole DEF ReviewsInv, Roles
<1>10. RoleOK(r)'
  BY <1>0, <1>4, <1>6, <1>7, <1>8, <1>9 DEF RoleOK, Judged, Open, InTurn, Raised
<1>11. x.dir <= Len(attempts)
  BY <1>6 DEF ReviewsInv, LedgerOK
<1> QED BY <1>0, <1>6, <1>7, <1>10, <1>11, QuietRoleSteps

\* The open attempt of a role gets an entry, and goes on or fails.
Enters(r, e, x) ==
  /\ work[r].step \in Open
  /\ e \in Entries /\ e.status # "validated"
  /\ attempts' = Appended(work[r].dir, e) /\ UNCHANGED <<candidate, frozen, reviewed>>
  /\ x \in Passes /\ work' = [work EXCEPT ![r] = x]
  /\ (x.step = "failed" /\ x.dir = 0) \/ (x.step \in InTurn \cup Raised /\ x.dir = work[r].dir)
  /\ judged \subseteq judged' /\ judged' \subseteq [context : Contexts, verdict : Verdicts]
  /\ x.step = "answered" /\ x.terminal = "completed" =>
       [context |-> ContextOf(r), verdict |-> x.answer] \in judged'

LEMMA EntrySteps ==
  ASSUME ReviewsInv, NEW r \in Roles, NEW e, NEW x, Enters(r, e, x)
  PROVE  ReviewsInv'
<1> USE DEF Enters
<1>1. /\ Grows(r, attempts') /\ LedgerOK(attempts', judged) /\ Len(attempts') = Len(attempts)
      /\ work[r].dir \in 1 .. Len(attempts') /\ attempts'[work[r].dir].context = ContextOf(r)
      /\ \A d \in 1 .. Len(attempts') : attempts'[d].context = ContextOf(r) => ~Committed(attempts'[d])
  BY Entering
<1>2. LedgerOK(attempts', judged')
  BY <1>1 DEF LedgerOK
<1>3. Dirs' = 1 .. Len(attempts') /\ Len(attempts') \in Nat
  <2>1. attempts' \in Seq(Attempt)
    BY <1>1 DEF LedgerOK
  <2>2. DOMAIN attempts' = 1 .. Len(attempts') /\ Len(attempts') \in Nat
    BY <2>1
  <2> QED BY <2>2, Zenon DEF Dirs
<1>4. /\ frozen # 0 /\ work[r].step # "returned"
      /\ r = "content-evidence" => work["content-first"].step = "returned"
  BY OpenRole
<1>5. ContextOf(r)' = ContextOf(r)
  BY <1>4, ContextStays
<1>6. work'[r] = x /\ (r = "content-evidence" => work'["content-first"].step = "returned")
  BY <1>4 DEF ReviewsInv, Roles
<1>7. x.step \notin {"waiting", "returned", "published"} /\ (x.step \in Open => x.dir = work[r].dir)
  BY DEF Open, InTurn, Raised
<1>8. RoleOK(r)'
  BY <1>1, <1>3, <1>4, <1>5, <1>6, <1>7 DEF RoleOK, Judged
<1>9. x.dir <= Len(attempts')
  <2>1. x.dir = 0 \/ x.dir = work[r].dir
    OBVIOUS
  <2> QED BY <1>1, <1>3, <2>1
<1> QED BY <1>1, <1>2, <1>4, <1>8, <1>9, RoleSteps

LEMMA OpeningSteps ==
  ASSUME ReviewsInv, NEW r \in Roles, work[r].step # "returned", frozen # 0,
         r = "content-evidence" => work["content-first"].step = "returned",
         UNCHANGED <<candidate, frozen, judged, reviewed>>,
         NEW A, LedgerOK(A, judged), Grows(r, A), Len(A) = Len(attempts), Len(attempts) < MaxReviews,
         NEW S, S = << >> \/ S = Prepared, attempts' = Append(A, [context |-> ContextOf(r), entries |-> S]),
         NEW x \in Passes, work' = [work EXCEPT ![r] = x],
         \/ x.step = "failed" /\ x.dir = 0
         \/ /\ x.step \in {"prepared", "raised"}
            /\ x.dir = Len(A) + 1 \/ (x.dir \in 1 .. Len(A) /\ A[x.dir].context = ContextOf(r))
            /\ \A d \in 1 .. Len(A) : A[d].context = ContextOf(r) => ~Committed(A[d])
  PROVE  ReviewsInv'
<1>0. ContextOf(r) \in Contexts /\ ContextOf(r).role = r
  BY ContextTyped
<1>1. Opens(A, judged, ContextOf(r), S, attempts')
  BY <1>0 DEF Opens
<1>2. /\ LedgerOK(attempts', judged) /\ Len(attempts') = Len(A) + 1
      /\ \A o \in 1 .. Len(A) : attempts'[o] = A[o]
      /\ attempts'[Len(A) + 1] = [context |-> ContextOf(r), entries |-> S] /\ ~Committed(attempts'[Len(A) + 1])
  <2> DEFINE c == ContextOf(r)
  <2>1. PICK B : B = attempts'
    OBVIOUS
  <2>2. Opens(A, judged, c, S, B)
    BY <1>1, <2>1
  <2> HIDE DEF c
  <2>3. /\ LedgerOK(B, judged) /\ Len(B) = Len(A) + 1
        /\ \A o \in 1 .. Len(A) : B[o] = A[o]
        /\ B[Len(A) + 1] = [context |-> c, entries |-> S] /\ ~Committed(B[Len(A) + 1])
    BY <2>2, Opening
  <2> QED BY <2>1, <2>3 DEF c
<1>3. Len(attempts) \in Nat /\ Dirs' = 1 .. Len(attempts')
  BY <1>2 DEF ReviewsInv, LedgerOK, Dirs
<1>4. \A d \in 1 .. Len(attempts') : d \in 1 .. Len(A) \/ d = Len(A) + 1
  BY <1>2, <1>3
<1>5. Grows(r, attempts')
  BY <1>0, <1>2, <1>3, <1>4 DEF Grows
<1>6. ContextOf(r)' = ContextOf(r) /\ work'[r] = x /\ (r = "content-evidence" => work'["content-first"].step = "returned")
  BY ContextStays DEF ReviewsInv, Roles
<1>7. ASSUME x.step # "failed"
      PROVE  /\ x.dir \in Dirs' /\ attempts'[x.dir].context = ContextOf(r)
             /\ \A d \in Dirs' : attempts'[d].context = ContextOf(r) => ~Committed(attempts'[d])
  BY <1>2, <1>3, <1>4, <1>7
<1>8. RoleOK(r)'
  <2>1. /\ x.step \in Open => x.step # "failed"
        /\ x.step \notin {"waiting", "returned", "published", "answered"}
    BY DEF Open, InTurn, Raised
  <2>2. frozen' # 0
    OBVIOUS
  <2> QED BY <1>6, <1>7, <2>1, <2>2 DEF RoleOK
<1>9. x.dir <= Len(attempts') /\ judged' \subseteq [context : Contexts, verdict : Verdicts] /\ LedgerOK(attempts', judged')
  BY <1>2, <1>3 DEF ReviewsInv
<1> QED BY <1>5, <1>8, <1>9, RoleSteps
-----------------------------------------------------------------------------
LEMMA BeginSteps ==
  ASSUME ReviewsInv, NEW r \in Roles, Begin(r)
  PROVE  ReviewsInv'
<1>1. /\ CanStart(r) /\ Found(r) = {} /\ Len(attempts) < MaxReviews
      /\ UNCHANGED <<candidate, frozen, judged, reviewed>>
  BY DEF Begin
<1>2. LedgerOK(attempts, judged) /\ Dirs = 1 .. Len(attempts) /\ Len(attempts) \in Nat
  BY AttemptsInOrder DEF ReviewsInv
<1>3. Grows(r, attempts)
  BY <1>2 DEF Grows
<1>4. \A d \in 1 .. Len(attempts) : attempts[d].context = ContextOf(r) => ~Committed(attempts[d])
  BY <1>1, <1>2, Validations DEF Found, InContext
<1>5. work[r] \in Passes /\ work[r].dir <= Len(attempts)
  BY DEF ReviewsInv
<1>6. CASE /\ attempts' = Append(attempts, NewAttempt(r, Prepared))
           /\ work' = [work EXCEPT ![r] = [Waiting EXCEPT !.step = "prepared", !.dir = Len(attempts) + 1, !.number = 1]]
  <2> DEFINE x == [Waiting EXCEPT !.step = "prepared", !.dir = Len(attempts) + 1, !.number = 1]
  <2>1. x \in Passes /\ x.step = "prepared" /\ x.dir = Len(attempts) + 1
    <3>1. Len(attempts) + 1 \in Nat
      BY <1>2
    <3> QED BY <3>1, WaitingUpdated
  <2>2. work' = [work EXCEPT ![r] = x]
    BY <1>6
  <2>3. attempts' = Append(attempts, [context |-> ContextOf(r), entries |-> Prepared])
    BY <1>6 DEF NewAttempt
  <2> HIDE DEF x
  <2> QED BY <1>1, <1>2, <1>3, <1>4, <2>1, <2>2, <2>3, StartedRole, OpeningSteps
<1>7. CASE (\E entries \in {<< >>, Prepared} : attempts' = Append(attempts, NewAttempt(r, entries))) /\ Fails(r)
  <2> DEFINE x == [Waiting EXCEPT !.step = "failed"]
  <2>1. x \in Passes /\ x.step = "failed" /\ x.dir = 0
    BY EndedTyped
  <2>2. work' = [work EXCEPT ![r] = x]
    BY <1>7 DEF Fails
  <2>3. PICK S \in {<< >>, Prepared} : attempts' = Append(attempts, [context |-> ContextOf(r), entries |-> S])
    BY <1>7 DEF NewAttempt
  <2> HIDE DEF x
  <2>4. S = << >> \/ S = Prepared
    OBVIOUS
  <2> QED BY <1>1, <1>2, <1>3, <2>1, <2>2, <2>3, <2>4, StartedRole, OpeningSteps
<1> QED BY <1>6, <1>7 DEF Begin

\* A pass that fails without leaving an entry.
LEMMA FailingSteps ==
  ASSUME ReviewsInv, NEW r \in Roles, CanStart(r) \/ work[r].step \in Open,
         Fails(r), UNCHANGED <<attempts, candidate, frozen, judged, reviewed>>
  PROVE  ReviewsInv'
<1> DEFINE x == [Waiting EXCEPT !.step = "failed"]
<1>1. x \in Passes /\ x.step = "failed" /\ x.dir = 0
  BY EndedTyped
<1>2. work' = [work EXCEPT ![r] = x]
  BY DEF Fails
<1> HIDE DEF x
<1>3. /\ frozen # 0 /\ work[r].step # "returned"
      /\ r = "content-evidence" => work["content-first"].step = "returned"
  BY StartedRole, OpenRole
<1>4. work'[r] = x /\ (r = "content-evidence" => work'["content-first"].step = "returned")
  BY <1>2, <1>3 DEF ReviewsInv, Roles
<1>5. RoleOK(r)'
  BY <1>1, <1>3, <1>4 DEF RoleOK, Open, InTurn, Raised
<1>6. x.dir <= Len(attempts)
  BY <1>1 DEF ReviewsInv, LedgerOK
<1> QED BY <1>1, <1>2, <1>3, <1>5, <1>6, QuietRoleSteps

\* Passes whose answer is garbled or published, or which are about to fail.
LEMMA TurnSteps ==
  ASSUME ReviewsInv, NEW r \in Roles, Garble(r) \/ PublishReport(r) \/ Raise(r)
  PROVE  ReviewsInv'
<1>1. PICK s \in {"raised", "invalid", "published"} :
        /\ Step(r, s) /\ UNCHANGED <<attempts, candidate, frozen, judged, reviewed>>
        /\ work[r].step \in Open
        /\ s = "published" => work[r].step = "answered" /\ work[r].terminal = "completed"
  BY DEF Garble, PublishReport, Raise, MayCommit, Open, InTurn, Raised
<1>2. work[r] \in Passes /\ work[r].dir <= Len(attempts) /\ RoleOK(r)
  BY DEF ReviewsInv
<1>3. /\ frozen # 0 /\ work[r].step # "returned"
      /\ r = "content-evidence" => work["content-first"].step = "returned"
  BY <1>1, OpenRole
<1> DEFINE x == [work[r] EXCEPT !.step = s]
<1>4. /\ x \in Passes /\ x.step = s /\ x.dir = work[r].dir
      /\ x.answer = work[r].answer /\ x.terminal = work[r].terminal
  BY <1>2 DEF Passes, PassSteps, InTurn, Raised
<1>5. work' = [work EXCEPT ![r] = x]
  BY <1>1 DEF Step
<1> HIDE DEF x
<1>6. ContextOf(r)' = ContextOf(r) /\ work'[r] = x /\ (r = "content-evidence" => work'["content-first"].step = "returned")
  BY <1>1, <1>3, <1>5, ContextStays DEF ReviewsInv, Roles
<1>7. Dirs' = Dirs
  BY <1>1 DEF Dirs
<1>8. RoleOK(r)'
  <2>1. s = "published" => Judged(r)
    BY <1>1, <1>2 DEF RoleOK
  <2> QED BY <1>1, <1>2, <1>3, <1>4, <1>6, <1>7, <2>1 DEF RoleOK, Judged
<1> QED BY <1>1, <1>2, <1>3, <1>4, <1>5, <1>8, QuietRoleSteps

LEMMA AskSteps ==
  ASSUME ReviewsInv, NEW r \in Roles, Ask(r) \/ TornAppend(r)
  PROVE  ReviewsInv'
<1>1. work[r].step \in Open /\ work[r] \in Passes /\ UNCHANGED <<candidate, frozen, judged, reviewed>>
  BY DEF Ask, TornAppend, Open, InTurn, Raised, ReviewsInv
<1>2. CASE Ask(r)
  <2> DEFINE e == Entry(work[r].number, "running", "none")
             x == [work[r] EXCEPT !.step = "bound", !.number = @ + 1, !.terminal = "inProgress"]
  <2>1. e \in Entries /\ e.status # "validated"
    BY <1>1 DEF Entry, Entries, Passes, Answers
  <2>2. x \in Passes /\ x.dir = work[r].dir /\ x.step = "bound" /\ x.number = work[r].number + 1
    <3> DEFINE a == [work[r] EXCEPT !.step = "bound"]
               b == [a EXCEPT !.number = work[r].number + 1]
               c == [b EXCEPT !.terminal = "inProgress"]
    <3>1. "bound" \in PassSteps /\ "inProgress" \in Terminals /\ work[r].number + 1 \in Nat
      BY <1>1 DEF Passes, PassSteps, InTurn, Raised, Terminals
    <3>2. a \in Passes /\ a.step = "bound" /\ a.dir = work[r].dir
      BY <1>1, <3>1, Updates
    <3> HIDE DEF a
    <3>3. b \in Passes /\ b.step = "bound" /\ b.dir = work[r].dir /\ b.number = work[r].number + 1
      BY <3>1, <3>2, Updates
    <3> HIDE DEF b
    <3>4. c \in Passes /\ c.step = "bound" /\ c.dir = work[r].dir /\ c.number = work[r].number + 1
      BY <3>1, <3>3, Updates
    <3> HIDE DEF c
    <3> QED BY <3>4, Zenon DEF a, b, c
  <2>3. attempts' = Appended(work[r].dir, e) /\ work' = [work EXCEPT ![r] = x]
    BY <1>2 DEF Ask, ReviewsInv
  <2> HIDE DEF e, x
  <2>4. judged \subseteq judged' /\ judged' \subseteq [context : Contexts, verdict : Verdicts]
    BY <1>1 DEF ReviewsInv
  <2>5. Enters(r, e, x)
    BY <1>1, <2>1, <2>2, <2>3, <2>4 DEF InTurn, Raised, Enters
  <2> QED BY <2>5, EntrySteps
<1>3. CASE TornAppend(r)
  <2> DEFINE e == Entry(work[r].number, "pending", "none")
             x == [work[r] EXCEPT !.step = IF work[r].step = "raised" THEN "leaving" ELSE "raised"]
  <2>1. e \in Entries /\ e.status # "validated"
    BY <1>1 DEF Entry, Entries, Passes, Answers
  <2>2. x \in Passes /\ x.dir = work[r].dir /\ x.step \in Raised
    BY <1>1 DEF Passes, PassSteps, Raised
  <2>3. attempts' = Appended(work[r].dir, e) /\ work' = [work EXCEPT ![r] = x]
    BY <1>3 DEF TornAppend, Step
  <2> HIDE DEF e, x
  <2>4. judged \subseteq judged' /\ judged' \subseteq [context : Contexts, verdict : Verdicts]
    BY <1>1 DEF ReviewsInv
  <2>5. Enters(r, e, x)
    <3>1. x.step # "answered"
      BY <2>2 DEF Raised
    <3> QED BY <1>1, <2>1, <2>2, <2>3, <2>4, <3>1 DEF Enters
  <2> QED BY <2>5, EntrySteps
<1> QED BY <1>2, <1>3

LEMMA LeavingSteps ==
  ASSUME ReviewsInv, NEW r \in Roles, LeavePending(r)
  PROVE  ReviewsInv'
<1>1. /\ work[r].step \in Open /\ work[r] \in Passes /\ UNCHANGED <<candidate, frozen, judged, reviewed>>
      /\ Fails(r)
  BY DEF LeavePending, Open, ReviewsInv
<1> DEFINE e == Entry(work[r].number, "pending", "none")
<1>2. CASE UNCHANGED attempts
  BY <1>1, <1>2, FailingSteps
<1>3. CASE attempts' = Appended(work[r].dir, e)
  <2> DEFINE x == [Waiting EXCEPT !.step = "failed"]
  <2>1. e \in Entries /\ e.status # "validated"
    BY <1>1 DEF Entry, Entries, Passes, Answers
  <2>2. x \in Passes /\ x.dir = 0 /\ x.step = "failed"
    BY EndedTyped
  <2>3. work' = [work EXCEPT ![r] = x]
    BY <1>1 DEF Fails
  <2> HIDE DEF e, x
  <2>4. judged \subseteq judged' /\ judged' \subseteq [context : Contexts, verdict : Verdicts]
    BY <1>1 DEF ReviewsInv
  <2>5. Enters(r, e, x)
    BY <1>1, <1>3, <2>1, <2>2, <2>3, <2>4 DEF Enters
  <2> QED BY <2>5, EntrySteps
<1> QED BY <1>2, <1>3 DEF LeavePending

LEMMA TurnEndSteps ==
  ASSUME ReviewsInv, NEW r \in Roles, NEW terminal \in {"completed", "interrupted"}, NEW answer \in Answers,
         TurnEnds(r, terminal, answer)
  PROVE  ReviewsInv'
<1>1. /\ work[r].step \in Open /\ work[r] \in Passes /\ UNCHANGED <<candidate, frozen, reviewed>>
      /\ ContextOf(r) \in Contexts
  BY OpenRole DEF TurnEnds, Open, InTurn, Raised, ReviewsInv
<1> DEFINE e == Entry(work[r].number, "running", "none")
           x == [work[r] EXCEPT !.number = @ + 1, !.terminal = terminal, !.answer = answer,
                   !.step = IF WellFormed(answer) THEN "answered" ELSE "invalid"]
<1>2. e \in Entries /\ e.status # "validated"
  BY <1>1 DEF Entry, Entries, Passes, Answers
<1>3. /\ x \in Passes /\ x.dir = work[r].dir /\ x.step \in InTurn /\ x.number = work[r].number + 1
      /\ x.answer = answer /\ x.terminal = terminal /\ (x.step = "answered" => answer \in Verdicts)
  <2> DEFINE s == IF WellFormed(answer) THEN "answered" ELSE "invalid"
           a == [work[r] EXCEPT !.number = work[r].number + 1]
           b == [a EXCEPT !.terminal = terminal]
           c == [b EXCEPT !.answer = answer]
           z == [c EXCEPT !.step = s]
  <2>1. /\ s \in PassSteps /\ s \in InTurn /\ (s = "answered" => answer \in Verdicts)
        /\ terminal \in Terminals /\ work[r].number + 1 \in Nat
    BY <1>1 DEF Passes, PassSteps, InTurn, Raised, Terminals, WellFormed
  <2>2. a \in Passes /\ a.dir = work[r].dir /\ a.number = work[r].number + 1
    BY <1>1, <2>1, NumberUpdated
  <2> HIDE DEF a
  <2>3. b \in Passes /\ b.dir = work[r].dir /\ b.number = work[r].number + 1 /\ b.terminal = terminal
    BY <2>1, <2>2, TerminalUpdated
  <2> HIDE DEF b
  <2>4. c \in Passes /\ c.dir = work[r].dir /\ c.number = work[r].number + 1 /\ c.terminal = terminal /\ c.answer = answer
    BY <2>1, <2>3, AnswerUpdated
  <2> HIDE DEF c, s
  <2>5. /\ z \in Passes /\ z.dir = work[r].dir /\ z.number = work[r].number + 1
        /\ z.terminal = terminal /\ z.answer = answer /\ z.step = s
    BY <2>1, <2>4, StepUpdated
  <2> HIDE DEF z
  <2>6. x = z
    BY Zenon DEF a, b, c, s, z
  <2> HIDE DEF x
  <2> QED BY <2>1, <2>5, <2>6
<1>4. attempts' = Appended(work[r].dir, e) /\ work' = [work EXCEPT ![r] = x]
  BY DEF TurnEnds, ReviewsInv
<1>5. judged' = judged \cup {[context |-> ContextOf(r), verdict |-> v] :
                             v \in IF terminal = "completed" THEN {answer} \cap Verdicts ELSE {}}
  BY DEF TurnEnds
<1>6. judged \subseteq judged' /\ judged' \subseteq [context : Contexts, verdict : Verdicts]
  BY <1>1, <1>5 DEF ReviewsInv
<1>7. x.step = "answered" /\ x.terminal = "completed" => [context |-> ContextOf(r), verdict |-> x.answer] \in judged'
  BY <1>3, <1>5
<1> HIDE DEF e, x
<1>8. Enters(r, e, x)
  BY <1>1, <1>2, <1>3, <1>4, <1>6, <1>7 DEF Enters
<1> QED BY <1>8, EntrySteps

LEMMA CorrectionSteps ==
  ASSUME ReviewsInv, NEW r \in Roles, CorrectFormat(r)
  PROVE  ReviewsInv'
<1>1. work[r].step \in Open /\ work[r] \in Passes /\ UNCHANGED <<candidate, frozen, judged, reviewed>>
  BY DEF CorrectFormat, Open, InTurn, Raised, ReviewsInv
<1> DEFINE e == Entry(work[r].number, "pending", "none")
           A == Appended(work[r].dir, e)
           x == [Waiting EXCEPT !.step = "prepared", !.dir = Len(attempts) + 1, !.number = 1, !.formatted = TRUE]
           y == [work[r] EXCEPT !.step = "raised", !.number = @ + 1]
<1>2. e \in Entries /\ e.status # "validated"
  BY <1>1 DEF Entry, Entries, Passes, Answers
<1>3. Len(attempts) \in Nat /\ Len(attempts) < MaxReviews
  BY DEF ReviewsInv, LedgerOK, CorrectFormat
<1>4. x \in Passes /\ x.step = "prepared" /\ x.dir = Len(attempts) + 1
  <2>1. Len(attempts) + 1 \in Nat
    BY <1>3
  <2> QED BY <2>1, WaitingUpdated
<1>5. y \in Passes /\ y.step = "raised" /\ y.dir = work[r].dir
  <2> DEFINE b == [work[r] EXCEPT !.step = "raised"]
             c == [b EXCEPT !.number = work[r].number + 1]
  <2>1. "raised" \in PassSteps /\ work[r].number + 1 \in Nat
    BY <1>1 DEF PassSteps, Raised, Passes
  <2>2. b \in Passes /\ b.step = "raised" /\ b.dir = work[r].dir
    BY <1>1, <2>1, StepUpdated
  <2> HIDE DEF b
  <2>3. c \in Passes /\ c.step = "raised" /\ c.dir = work[r].dir
    BY <2>1, <2>2, NumberUpdated
  <2> HIDE DEF c
  <2>4. y = c
    BY Zenon DEF b, c
  <2> HIDE DEF y
  <2> QED BY <2>3, <2>4
<1>6. PICK S \in {<< >>, Prepared} : attempts' = Append(A, [context |-> ContextOf(r), entries |-> S])
  BY DEF CorrectFormat, NewAttempt
<1>7. work' = [work EXCEPT ![r] = x] \/ work' = [work EXCEPT ![r] = y]
  BY DEF CorrectFormat, ReviewsInv
<1>8. work[r].dir = y.dir
  BY <1>5
<1> HIDE DEF e, x, y
<1>9. /\ Grows(r, A) /\ LedgerOK(A, judged) /\ Len(A) = Len(attempts)
      /\ work[r].dir \in 1 .. Len(A) /\ A[work[r].dir].context = ContextOf(r)
      /\ \A d \in 1 .. Len(A) : A[d].context = ContextOf(r) => ~Committed(A[d])
  BY <1>1, <1>2, Entering
<1> HIDE DEF A
<1>10. /\ work[r].step # "returned" /\ frozen # 0
       /\ r = "content-evidence" => work["content-first"].step = "returned"
  BY <1>1, OpenRole
<1>11. S = << >> \/ S = Prepared
  OBVIOUS
<1>12. CASE work' = [work EXCEPT ![r] = x]
  BY <1>1, <1>3, <1>4, <1>6, <1>9, <1>10, <1>11, <1>12, OpeningSteps
<1>13. CASE work' = [work EXCEPT ![r] = y]
  BY <1>1, <1>3, <1>5, <1>6, <1>9, <1>10, <1>11, <1>13, OpeningSteps
<1> QED BY <1>7, <1>12, <1>13

LEMMA CommitSteps ==
  ASSUME ReviewsInv, NEW r \in Roles, CommitReport(r)
  PROVE  ReviewsInv'
<1>1. /\ work[r].step = "published" /\ work[r].step \in Open /\ work[r] \in Passes
      /\ UNCHANGED <<candidate, frozen, judged, reviewed>>
  BY DEF CommitReport, Open, ReviewsInv
<1>2. RoleOK(r) /\ Judged(r) /\ work[r].answer \in Verdicts
  <2>1. RoleOK(r)
    BY DEF ReviewsInv
  <2>2. Judged(r)
    BY <1>1, <2>1 DEF RoleOK
  <2> QED BY <2>1, <2>2 DEF Judged, ReviewsInv
<1> DEFINE d == work[r].dir
           e == Entry(work[r].number, "validated", work[r].answer)
<1>4. PICK x \in Passes : /\ work' = [work EXCEPT ![r] = x] /\ x.dir = 0
                          /\ x.step = "failed" \/ (x.step = "returned" /\ x.answer = work[r].answer)
  <2>1. CASE Returns(r, work[r].answer)
    <3>1. work[r].answer \in Answers
      BY <1>2 DEF Answers
    <3> DEFINE x == [Waiting EXCEPT !.step = "returned", !.answer = work[r].answer]
    <3>2. x \in Passes /\ x.dir = 0 /\ x.step = "returned" /\ x.answer = work[r].answer
      BY <3>1, EndedTyped
    <3>3. work' = [work EXCEPT ![r] = x]
      BY <2>1 DEF Returns
    <3> HIDE DEF x
    <3> QED BY <3>2, <3>3
  <2>2. CASE Fails(r)
    <3> DEFINE x == [Waiting EXCEPT !.step = "failed"]
    <3>2. x \in Passes /\ x.dir = 0 /\ x.step = "failed"
      BY EndedTyped
    <3>3. work' = [work EXCEPT ![r] = x]
      BY <2>2 DEF Fails
    <3> HIDE DEF x
    <3> QED BY <3>2, <3>3
  <2> QED BY <2>1, <2>2 DEF CommitReport
<1>5. /\ frozen # 0 /\ work[r].step # "returned"
      /\ r = "content-evidence" => work["content-first"].step = "returned"
  BY <1>1, OpenRole
<1>6. LedgerOK(attempts, judged) /\ Len(attempts) \in Nat
  BY DEF ReviewsInv, LedgerOK
<1>7. Grows(r, attempts') /\ LedgerOK(attempts', judged) /\ Len(attempts') = Len(attempts)
  <2>1. CASE UNCHANGED attempts
    BY <1>6, <2>1 DEF Grows
  <2>2. CASE attempts' = Appended(d, e)
    <3>1. e \in Entries /\ e.report = work[r].answer
      BY <1>1 DEF Entry, Entries, Passes
    <3>2. /\ d \in 1 .. Len(attempts) /\ attempts[d].context = ContextOf(r) /\ ContextOf(r).role = r
          /\ \A o \in 1 .. Len(attempts) : attempts[o].context = ContextOf(r) => ~Committed(attempts[o])
      BY <1>1, OpenRole
    <3>3. attempts' = [attempts EXCEPT ![d].entries = Append(@, e)]
      BY <2>2 DEF Appended
    <3> HIDE DEF d, e
    <3>4. Extends(attempts, judged, d, e, attempts')
      BY <1>2, <1>6, <3>1, <3>2, <3>3 DEF Extends, Judged
    <3>5. /\ LedgerOK(attempts', judged) /\ Len(attempts') = Len(attempts)
          /\ \A o \in 1 .. Len(attempts) : attempts'[o].context = attempts[o].context /\ (o # d => attempts'[o] = attempts[o])
      BY <3>4, Extension
    <3> QED BY <1>6, <3>2, <3>5 DEF Grows
  <2> QED BY <2>1, <2>2 DEF CommitReport
<1> HIDE DEF d, e
<1>8. ContextOf(r)' = ContextOf(r) /\ work'[r] = x /\ (r = "content-evidence" => work'["content-first"].step = "returned")
  BY <1>1, <1>4, <1>5, ContextStays DEF ReviewsInv, Roles
<1>9. RoleOK(r)'
  <2>1. x.step \notin Open /\ x.step # "published" /\ x.step # "answered"
    BY <1>4 DEF Open, InTurn, Raised
  <2>2. frozen' # 0 /\ judged' = judged
    BY <1>1, <1>5
  <2> QED BY <1>2, <1>4, <1>8, <2>1, <2>2 DEF RoleOK, Judged
<1>10. x.dir <= Len(attempts') /\ judged' \subseteq [context : Contexts, verdict : Verdicts] /\ LedgerOK(attempts', judged')
  BY <1>1, <1>4, <1>6, <1>7 DEF ReviewsInv
<1> QED BY <1>1, <1>4, <1>5, <1>7, <1>9, <1>10, RoleSteps
-----------------------------------------------------------------------------
LEMMA ReviewsStart == ReviewsInit => ReviewsInv
<1> SUFFICES ASSUME ReviewsInit PROVE ReviewsInv
  OBVIOUS
<1>1. LedgerOK(attempts, judged)
  BY DEF ReviewsInit, LedgerOK, Attempt
<1>2. work \in [Roles -> Passes] /\ \A r \in Roles : work[r].dir <= Len(attempts) /\ work[r].step = "waiting"
  BY WaitingTyped DEF ReviewsInit, Waiting
<1>3. \A r \in Roles : RoleOK(r)
  BY <1>2 DEF RoleOK, Open, InTurn, Raised
<1> QED BY <1>1, <1>2, <1>3 DEF ReviewsInit, ReviewsInv

LEMMA ReviewsStep ==
  ASSUME ReviewsInv, [ReviewsNext]_reviewVars
  PROVE  ReviewsInv'
<1>1. CASE Freeze \/ Change \/ CutShort \/ Conclude \/ UNCHANGED reviewVars
  BY <1>1, RoundSteps
<1>2. ASSUME NEW r \in Roles, Reuse(r) \/ Begin(r) \/ Ask(r) \/ Garble(r) \/ CorrectFormat(r) \/ Raise(r)
                              \/ TornAppend(r) \/ LeavePending(r) \/ PublishReport(r) \/ CommitReport(r)
      PROVE  ReviewsInv'
  BY <1>2, ReuseSteps, BeginSteps, TurnSteps, AskSteps, CorrectionSteps, LeavingSteps, CommitSteps
<1>3. ASSUME NEW r \in Roles, Refuse(r) PROVE ReviewsInv'
  BY <1>3, FailingSteps DEF Refuse
<1>4. ASSUME NEW r \in Roles, NEW terminal \in {"completed", "interrupted"}, NEW answer \in Answers,
             TurnEnds(r, terminal, answer) PROVE ReviewsInv'
  BY <1>4, TurnEndSteps
<1> QED BY <1>1, <1>2, <1>3, <1>4 DEF ReviewsNext

\* What is committed stands at the end of its attempt, and what a pass believes of its
\* own attempt and context is so.
THEOREM ReviewsHoldInv == ReviewsSpec => []ReviewsInv
BY ReviewsStart, ReviewsStep, PTL DEF ReviewsSpec

\* What the variables of the reviews hold, for any roles' verdicts and bounds.
THEOREM ReviewsTypeHolds == ReviewsSpec => []ReviewsTypeOK
BY ReviewsHoldInv, ReviewsTyped, PTL

LEMMA WholeGrows ==
  ASSUME NEW S \in Seq(Entries), Whole(S), NEW e \in Entries, e.number = Len(S)
  PROVE  Whole(Append(S, e)) /\ Len(Append(S, e)) = Len(S) + 1
<1> DEFINE T == Append(S, e)
<1>1. /\ Len(T) = Len(S) + 1 /\ Len(S) \in Nat /\ DOMAIN T = 1 .. Len(S) + 1 /\ T[Len(S) + 1] = e
      /\ \A i \in 1 .. Len(S) : T[i] = S[i]
  OBVIOUS
<1>2. DOMAIN S = 1 .. Len(S)
  OBVIOUS
<1> HIDE DEF T
<1>3. Whole(T)
  BY <1>1, <1>2 DEF Whole
<1> QED BY <1>1, <1>3 DEF T

\* A role's step that lengthens its own open attempt by the entry it is at, and may
\* open another one.
LEMMA WholeSteps ==
  ASSUME ReviewsInv, ChainsInv, NEW r \in Roles, work[r].step \in Open,
         NEW e \in Entries, e.number = work[r].number,
         NEW S, S \in {<< >>, Prepared},
         LET A == Appended(work[r].dir, e) IN
           attempts' = A \/ attempts' = Append(A, [context |-> ContextOf(r), entries |-> S]),
         NEW x \in Passes, work' = [work EXCEPT ![r] = x],
         x.step \in Open =>
           \/ x.dir = work[r].dir /\ x.number = work[r].number + 1
           \/ /\ x.dir = Len(attempts) + 1 /\ S = Prepared /\ x.number = 1
              /\ Len(attempts') = Len(attempts) + 1
  PROVE  ChainsInv'
<1> DEFINE d == work[r].dir
           A == Appended(d, e)
<1>1. /\ d \in 1 .. Len(attempts) /\ attempts[d].context = ContextOf(r) /\ ContextOf(r).role = r
      /\ ContextOf(r) \in Contexts
  BY OpenRole
<1>2. /\ attempts \in Seq(Attempt) /\ Len(attempts) \in Nat
      /\ \A o \in 1 .. Len(attempts) : attempts[o].entries \in Seq(Entries) /\ attempts[o] \in Attempt
  BY AttemptsInOrder DEF ReviewsInv
<1>3. Whole(Append(attempts[d].entries, e)) /\ Len(Append(attempts[d].entries, e)) = work[r].number + 1
  BY <1>1, <1>2, WholeGrows DEF ChainsInv
<1>4. A[d].entries = Append(attempts[d].entries, e) /\ \A o \in 1 .. Len(attempts) : o # d => A[o] = attempts[o]
  <2>1. DOMAIN attempts = 1 .. Len(attempts) /\ DOMAIN attempts[d] = {"context", "entries"}
    BY <1>1, <1>2 DEF Attempt
  <2>2. A[d] = [attempts[d] EXCEPT !.entries = Append(@, e)]
    BY <1>1, <2>1 DEF Appended
  <2>3. \A o \in 1 .. Len(attempts) : o # d => A[o] = attempts[o]
    BY <2>1 DEF Appended
  <2> QED BY <2>1, <2>2, <2>3
<1>5. A \in Seq(Attempt) /\ Len(A) = Len(attempts)
  <2>1. [attempts[d] EXCEPT !.entries = Append(@, e)] \in Attempt
    <3>1. attempts[d] = [context |-> attempts[d].context, entries |-> attempts[d].entries]
      BY <1>1, <1>2 DEF Attempt
    <3>2. Append(attempts[d].entries, e) \in Seq(Entries) /\ attempts[d].context \in Contexts
      BY <1>1, <1>2
    <3> QED BY <3>1, <3>2 DEF Attempt
  <2> QED BY <1>1, <1>2, <2>1 DEF Appended
<1>6. attempts' = A \/ attempts' = Append(A, [context |-> ContextOf(r), entries |-> S])
  OBVIOUS
<1>7. \A q \in Roles : q # r /\ work[q].step \in Open => work[q].dir \in 1 .. Len(attempts) /\ work[q].dir # d
  BY <1>1, OpenRole
<1>8. d = work[r].dir /\ work'[r] = x /\ \A q \in Roles : q # r => work'[q] = work[q]
  BY DEF ReviewsInv
<1> HIDE DEF A, d
<1>9. /\ \A o \in 1 .. Len(attempts) : attempts'[o] = A[o]
      /\ \A o \in 1 .. Len(attempts') : o \in 1 .. Len(attempts) \/
            (o = Len(attempts) + 1 /\ attempts'[o].entries = S)
      /\ Len(attempts') = Len(attempts) + 1 => attempts'[Len(attempts) + 1].entries = S
  BY <1>2, <1>5, <1>6
<1>10. Whole(S) /\ (S = Prepared => Len(S) = 1)
  BY FirstEntry
<1>11. \A o \in 1 .. Len(attempts) : Whole(A[o].entries)
  BY <1>3, <1>4 DEF ChainsInv
<1>12. \A o \in 1 .. Len(attempts') : Whole(attempts'[o].entries)
  BY <1>9, <1>10, <1>11
<1>13. ASSUME NEW q \in Roles, work'[q].step \in Open
       PROVE  Len(attempts'[work'[q].dir].entries) = work'[q].number
  <2>1. CASE q # r
    <3>1. work'[q] = work[q] /\ work[q].dir \in 1 .. Len(attempts) /\ work[q].dir # d
      BY <1>7, <1>8, <1>13, <2>1
    <3>2. attempts'[work[q].dir] = attempts[work[q].dir]
      BY <1>4, <1>9, <3>1
    <3> QED BY <1>13, <3>1, <3>2 DEF ChainsInv
  <2>2. CASE q = r /\ x.dir = d /\ x.number = work[r].number + 1
    <3>1. attempts'[d] = A[d]
      BY <1>1, <1>8, <1>9
    <3> QED BY <1>3, <1>4, <1>8, <2>2, <3>1
  <2>3. CASE q = r /\ x.dir = Len(attempts) + 1 /\ S = Prepared /\ x.number = 1 /\ Len(attempts') = Len(attempts) + 1
    BY <1>8, <1>9, <1>10, <2>3
  <2> QED BY <1>8, <1>13, <2>1, <2>2, <2>3
<1> QED BY <1>12, <1>13 DEF ChainsInv

\* Steps that leave every attempt as it is, or open another one.
LEMMA OtherSteps ==
  ASSUME ReviewsInv, ChainsInv,
         \/ attempts' = attempts
         \/ \E c \in Contexts, S \in {<< >>, Prepared} :
              /\ attempts' = Append(attempts, [context |-> c, entries |-> S])
              /\ \A q \in Roles : work'[q].step \in Open /\ work'[q].dir = Len(attempts) + 1 => S = Prepared,
         \A q \in Roles : work'[q].step \in Open =>
           \/ /\ work[q].step \in Open /\ work'[q].dir = work[q].dir /\ work'[q].number = work[q].number
           \/ /\ work'[q].dir = Len(attempts) + 1 /\ work'[q].number = 1 /\ attempts' # attempts
  PROVE  ChainsInv'
<1>1. /\ attempts \in Seq(Attempt) /\ Len(attempts) \in Nat
  BY DEF ReviewsInv, LedgerOK
<1>2. CASE attempts' = attempts
  BY <1>2 DEF ChainsInv
<1>3. CASE attempts' # attempts
  <2>1. PICK c \in Contexts, S \in {<< >>, Prepared} :
          /\ attempts' = Append(attempts, [context |-> c, entries |-> S])
          /\ \A q \in Roles : work'[q].step \in Open /\ work'[q].dir = Len(attempts) + 1 => S = Prepared
    BY <1>3
  <2>2. [context |-> c, entries |-> S] \in Attempt
    BY FirstEntry DEF Attempt
  <2>3. /\ Len(attempts') = Len(attempts) + 1 /\ attempts'[Len(attempts) + 1].entries = S
        /\ \A o \in 1 .. Len(attempts) : attempts'[o] = attempts[o]
    BY <1>1, <2>1, <2>2
  <2>4. Whole(S) /\ (S = Prepared => Len(S) = 1)
    BY FirstEntry
  <2>5. \A o \in 1 .. Len(attempts') : Whole(attempts'[o].entries)
    BY <1>1, <2>3, <2>4 DEF ChainsInv
  <2>6. ASSUME NEW q \in Roles, work'[q].step \in Open
        PROVE  Len(attempts'[work'[q].dir].entries) = work'[q].number
    <3>1. CASE work[q].step \in Open /\ work'[q].dir = work[q].dir /\ work'[q].number = work[q].number
      BY <2>3, <3>1, OpenRole DEF ChainsInv
    <3>2. CASE work'[q].dir = Len(attempts) + 1 /\ work'[q].number = 1
      BY <2>1, <2>3, <2>4, <2>6, <3>2
    <3> QED BY <2>6, <3>1, <3>2
  <2> QED BY <2>5, <2>6 DEF ChainsInv
<1> QED BY <1>2, <1>3

LEMMA QuietChains ==
  ASSUME ReviewsInv, ChainsInv, UNCHANGED attempts,
         \/ Freeze \/ Change \/ CutShort \/ Conclude \/ UNCHANGED reviewVars
         \/ \E r \in Roles :
              \/ Reuse(r) \/ Refuse(r) \/ Garble(r) \/ Raise(r) \/ PublishReport(r) \/ LeavePending(r)
              \/ CommitReport(r)
  PROVE  ChainsInv'
<1>1. CASE Freeze \/ Change \/ CutShort \/ Conclude \/ UNCHANGED reviewVars
  <2>1. UNCHANGED work \/ work' = [q \in Roles |-> Waiting]
    BY <1>1 DEF Freeze, Change, CutShort, Conclude, reviewVars
  <2>2. Waiting.step \notin Open
    BY DEF Waiting, Open, InTurn, Raised
  <2> QED BY <2>1, <2>2 DEF ChainsInv
<1>2. ASSUME NEW r \in Roles,
             Reuse(r) \/ Refuse(r) \/ Garble(r) \/ Raise(r) \/ PublishReport(r) \/ LeavePending(r) \/ CommitReport(r)
      PROVE  ChainsInv'
  <2>1. CASE \E s \in {"invalid", "raised", "published"} : work[r].step \in Open /\ Step(r, s)
    <3>1. PICK s : Step(r, s)
      BY <2>1
    <3>2. /\ work'[r].dir = work[r].dir /\ work'[r].number = work[r].number
          /\ \A q \in Roles : q # r => work'[q] = work[q]
      BY <3>1 DEF Step, ReviewsInv, Passes
    <3> QED BY <2>1, <3>2 DEF ChainsInv
  <2>2. CASE Fails(r) \/ \E a : Returns(r, a)
    <3>1. work'[r].step \in {"failed", "returned"} /\ \A q \in Roles : q # r => work'[q] = work[q]
      BY <2>2 DEF Fails, Returns, Waiting, ReviewsInv
    <3>2. work'[r].step \notin Open
      BY <3>1 DEF Open, InTurn, Raised
    <3> QED BY <3>1, <3>2 DEF ChainsInv
  <2> QED BY <1>2, <2>1, <2>2
        DEF Reuse, Refuse, Garble, Raise, PublishReport, LeavePending, CommitReport, Open, InTurn
<1> QED BY <1>1, <1>2

LEMMA BeginChains ==
  ASSUME ReviewsInv, ChainsInv, NEW r \in Roles, Begin(r)
  PROVE  ChainsInv'
<1>1. /\ Len(attempts) \in Nat /\ ContextOf(r) \in Contexts
      /\ \A q \in Roles : q # r => work'[q] = work[q]
  <2>1. CanStart(r)
    BY DEF Begin
  <2>2. \E x : work' = [work EXCEPT ![r] = x]
    BY Zenon DEF Begin, Fails
  <2> QED BY <2>1, <2>2, StartedRole, AttemptsInOrder DEF ReviewsInv
<1>2. PICK S \in {<< >>, Prepared} :
        /\ attempts' = Append(attempts, [context |-> ContextOf(r), entries |-> S])
        /\ work'[r].step \in Open => S = Prepared /\ work'[r].dir = Len(attempts) + 1 /\ work'[r].number = 1
  <2>1. CASE /\ attempts' = Append(attempts, NewAttempt(r, Prepared))
             /\ work' = [work EXCEPT ![r] = [Waiting EXCEPT !.step = "prepared", !.dir = Len(attempts) + 1, !.number = 1]]
    <3>1. work'[r].dir = Len(attempts) + 1 /\ work'[r].number = 1
      BY <1>1, <2>1 DEF ReviewsInv, Waiting
    <3> QED BY <2>1, <3>1 DEF NewAttempt
  <2>2. CASE (\E entries \in {<< >>, Prepared} : attempts' = Append(attempts, NewAttempt(r, entries))) /\ Fails(r)
    <3>1. work'[r].step = "failed"
      BY <2>2 DEF Fails, ReviewsInv, Waiting
    <3> QED BY <2>2, <3>1 DEF NewAttempt, Open, InTurn, Raised
  <2> QED BY <2>1, <2>2 DEF Begin
<1>3. \A q \in Roles : work[q].step \in Open => work[q].dir \in 1 .. Len(attempts)
  BY OpenRole
<1>4. attempts' # attempts
  BY <1>1, <1>2 DEF ReviewsInv, LedgerOK
<1>5. \A q \in Roles : work'[q].step \in Open =>
        \/ /\ work[q].step \in Open /\ work'[q].dir = work[q].dir /\ work'[q].number = work[q].number
        \/ /\ work'[q].dir = Len(attempts) + 1 /\ work'[q].number = 1 /\ attempts' # attempts
  BY <1>1, <1>2, <1>4
<1>6. \A q \in Roles : work'[q].step \in Open /\ work'[q].dir = Len(attempts) + 1 => S = Prepared
  BY <1>1, <1>2, <1>3
<1> QED BY <1>1, <1>2, <1>5, <1>6, OtherSteps

LEMMA EntryChains ==
  ASSUME ReviewsInv, ChainsInv, NEW r \in Roles, work[r].step \in Open,
         NEW e \in Entries, e.number = work[r].number,
         attempts' = Appended(work[r].dir, e),
         NEW x \in Passes, work' = [work EXCEPT ![r] = x],
         x.step \in Open => x.dir = work[r].dir /\ x.number = work[r].number + 1
  PROVE  ChainsInv'
<1>1. << >> \in {<< >>, Prepared}
  OBVIOUS
<1> QED BY <1>1, WholeSteps

LEMMA CorrectionChains ==
  ASSUME ReviewsInv, ChainsInv, NEW r \in Roles, CorrectFormat(r)
  PROVE  ChainsInv'
<1> DEFINE e == Entry(work[r].number, "pending", "none")
           A == Appended(work[r].dir, e)
           x == [Waiting EXCEPT !.step = "prepared", !.dir = Len(attempts) + 1, !.number = 1, !.formatted = TRUE]
           y == [work[r] EXCEPT !.step = "raised", !.number = @ + 1]
<1>1. /\ work[r].step \in Open /\ work[r] \in Passes /\ Len(attempts) \in Nat
  BY DEF CorrectFormat, Open, InTurn, ReviewsInv, LedgerOK
<1>2. e \in Entries /\ e.number = work[r].number
  BY <1>1 DEF Entry, Entries, Passes, Answers
<1>3. PICK S \in {<< >>, Prepared} :
        /\ attempts' = Append(A, [context |-> ContextOf(r), entries |-> S])
        /\ \/ attempts'[Len(attempts')].entries = Prepared /\ work' = [work EXCEPT ![r] = x]
           \/ work' = [work EXCEPT ![r] = y]
  BY DEF CorrectFormat, NewAttempt, ReviewsInv
<1>4. A \in Seq(Attempt) /\ Len(A) = Len(attempts) /\ ContextOf(r) \in Contexts
  <2>1. e.status # "validated"
    BY DEF Entry
  <2>2. LedgerOK(A, judged) /\ Len(A) = Len(attempts)
    BY <1>1, <1>2, <2>1, Entering
  <2> QED BY <1>1, <2>2, OpenRole DEF LedgerOK
<1>5. Len(attempts') = Len(attempts) + 1 /\ attempts'[Len(attempts')].entries = S
  <2>1. [context |-> ContextOf(r), entries |-> S] \in Attempt
    <3>1. S \in Seq(Entries)
      BY FirstEntry
    <3> QED BY <1>4, <3>1 DEF Attempt
  <2> DEFINE B == Append(A, [context |-> ContextOf(r), entries |-> S])
  <2>2. Len(B) = Len(attempts) + 1 /\ B[Len(attempts) + 1] = [context |-> ContextOf(r), entries |-> S]
    <3> HIDE DEF A
    <3> QED BY <1>1, <1>4, <2>1
  <2>3. attempts' = B
    BY <1>3
  <2> HIDE DEF B
  <2> QED BY <2>2, <2>3
<1>6. x \in Passes /\ x.dir = Len(attempts) + 1 /\ x.number = 1
  <2>1. Len(attempts) + 1 \in Nat
    BY <1>1
  <2> QED BY <2>1, WaitingUpdated
<1>7. y \in Passes /\ y.dir = work[r].dir /\ y.number = work[r].number + 1
  <2> DEFINE b == [work[r] EXCEPT !.step = "raised"]
             c == [b EXCEPT !.number = work[r].number + 1]
  <2>1. "raised" \in PassSteps /\ work[r].number + 1 \in Nat
    BY <1>1 DEF PassSteps, Raised, Passes
  <2>2. b \in Passes /\ b.dir = work[r].dir
    BY <1>1, <2>1, StepUpdated
  <2> HIDE DEF b
  <2>3. c \in Passes /\ c.dir = work[r].dir /\ c.number = work[r].number + 1
    BY <2>1, <2>2, NumberUpdated
  <2> HIDE DEF c
  <2>4. y = c
    BY Zenon DEF b, c
  <2> HIDE DEF y
  <2> QED BY <2>3, <2>4
<1> HIDE DEF e, x, y
<1>8. CASE work' = [work EXCEPT ![r] = y]
  BY <1>1, <1>2, <1>3, <1>7, <1>8, WholeSteps
<1>9. CASE attempts'[Len(attempts')].entries = Prepared /\ work' = [work EXCEPT ![r] = x]
  BY <1>1, <1>2, <1>3, <1>5, <1>6, <1>9, WholeSteps
<1> QED BY <1>3, <1>8, <1>9

LEMMA TurnChains ==
  ASSUME ReviewsInv, ChainsInv, NEW r \in Roles,
         Ask(r) \/ \E t \in {"completed", "interrupted"}, a \in Answers : TurnEnds(r, t, a)
  PROVE  ChainsInv'
<1>1. PICK x \in Passes :
        /\ work' = [work EXCEPT ![r] = x]
        /\ x.dir = work[r].dir /\ x.number = work[r].number + 1
        /\ work[r].step \in Open
        /\ attempts' = Appended(work[r].dir, Entry(work[r].number, "running", "none"))
  <2>0. work' \in [Roles -> Passes] /\ work[r] \in Passes
    <3>1. ReviewsInv'
      BY AskSteps, TurnEndSteps, Zenon
    <3> QED BY <3>1 DEF ReviewsInv
  <2>1. work' = [work EXCEPT ![r] = work'[r]]
    BY <2>0 DEF Ask, TurnEnds, ReviewsInv
  <2>2. work'[r].dir = work[r].dir /\ work'[r].number = work[r].number + 1
    <3>1. DOMAIN work[r] = {"step", "dir", "number", "terminal", "answer", "formatted"}
      BY <2>0 DEF Passes
    <3>2. CASE Ask(r)
      <4>1. work'[r] = [work[r] EXCEPT !.step = "bound", !.number = @ + 1, !.terminal = "inProgress"]
        BY <3>2 DEF Ask, ReviewsInv
      <4> QED BY <3>1, <4>1
    <3>3. ASSUME NEW t \in {"completed", "interrupted"}, NEW a \in Answers, TurnEnds(r, t, a)
          PROVE  work'[r].dir = work[r].dir /\ work'[r].number = work[r].number + 1
      <4>1. work'[r] = [work[r] EXCEPT !.number = @ + 1, !.terminal = t, !.answer = a,
                          !.step = IF WellFormed(a) THEN "answered" ELSE "invalid"]
        BY <3>3 DEF TurnEnds, ReviewsInv
      <4> QED BY <3>1, <4>1
    <3> QED BY <3>2, <3>3
  <2>3. work[r].step \in Open /\ attempts' = Appended(work[r].dir, Entry(work[r].number, "running", "none"))
    BY DEF Ask, TurnEnds, Open, InTurn
  <2> QED BY <2>0, <2>1, <2>2, <2>3
<1> DEFINE e == Entry(work[r].number, "running", "none")
<1>2. e \in Entries /\ e.number = work[r].number
  BY DEF Entry, Entries, Answers, ReviewsInv, Passes
<1>3. attempts' = Appended(work[r].dir, e)
  BY <1>1
<1> HIDE DEF e
<1> QED BY <1>1, <1>2, <1>3, EntryChains

LEMMA EndChains ==
  ASSUME ReviewsInv, ChainsInv, NEW r \in Roles, LeavePending(r) \/ CommitReport(r)
  PROVE  ChainsInv'
<1>1. work[r].step \in Open /\ work[r] \in Passes /\ RoleOK(r)
  BY DEF LeavePending, CommitReport, Open, ReviewsInv
<1>2. work[r].answer \in Answers
  BY <1>1 DEF Passes
<1>3. PICK x \in Passes : work' = [work EXCEPT ![r] = x] /\ x.step \in {"failed", "returned"}
  <2>1. CASE Fails(r)
    BY <2>1, EndedTyped DEF Fails
  <2>2. CASE Returns(r, work[r].answer)
    BY <1>2, <2>2, EndedTyped DEF Returns
  <2> QED BY <2>1, <2>2 DEF LeavePending, CommitReport
<1>4. x.step \notin Open
  BY <1>3 DEF Open, InTurn, Raised
<1>5. CASE attempts' = attempts
  BY <1>5, QuietChains
<1>6. CASE attempts' # attempts
  <2>1. PICK e \in Entries : e.number = work[r].number /\ attempts' = Appended(work[r].dir, e)
    <3>1. /\ Entry(work[r].number, "pending", "none") \in Entries
          /\ Entry(work[r].number, "validated", work[r].answer) \in Entries
      BY <1>1, <1>2 DEF Entry, Entries, Passes, Answers
    <3>2. \/ attempts' = Appended(work[r].dir, Entry(work[r].number, "pending", "none"))
          \/ attempts' = Appended(work[r].dir, Entry(work[r].number, "validated", work[r].answer))
      BY <1>6 DEF LeavePending, CommitReport
    <3>3. /\ Entry(work[r].number, "pending", "none").number = work[r].number
          /\ Entry(work[r].number, "validated", work[r].answer).number = work[r].number
      BY DEF Entry
    <3> QED BY <3>1, <3>2, <3>3
  <2> QED BY <1>1, <1>3, <1>4, <2>1, EntryChains
<1> QED BY <1>5, <1>6

\* Only a torn append can keep an unfinished pass from being reviewed again: without
\* one, whatever else fails and wherever the process ends, every attempt in the ledger
\* can be read.
THEOREM OnlyTornAppendsBar == ReviewsSpec /\ NoTornAppend => []RetryPossible
<1>1. ASSUME ReviewsInv, ChainsInv, [ReviewsNext]_reviewVars, [\A r \in Roles : ~TornAppend(r)]_reviewVars
      PROVE  ChainsInv'
  <2>1. CASE UNCHANGED reviewVars
    BY <1>1, <2>1, QuietChains DEF reviewVars
  <2>2. CASE Freeze \/ Change \/ CutShort \/ Conclude
    BY <1>1, <2>2, QuietChains DEF Freeze, Change, CutShort, Conclude
  <2>3. ASSUME NEW r \in Roles, Reuse(r) \/ Refuse(r) \/ Garble(r) \/ Raise(r) \/ PublishReport(r) PROVE ChainsInv'
    BY <1>1, <2>3, QuietChains DEF Reuse, Refuse, Garble, Raise, PublishReport
  <2>4. ASSUME NEW r \in Roles, TornAppend(r) PROVE ChainsInv'
    BY <1>1, <2>1, <2>4
  <2>5. ASSUME NEW r \in Roles, Begin(r) \/ CorrectFormat(r) \/ LeavePending(r) \/ CommitReport(r) PROVE ChainsInv'
    BY <1>1, <2>5, BeginChains, CorrectionChains, EndChains
  <2>6. ASSUME NEW r \in Roles,
               Ask(r) \/ \E t \in {"completed", "interrupted"}, a \in Answers : TurnEnds(r, t, a) PROVE ChainsInv'
    BY <1>1, <2>6, TurnChains
  <2> QED BY <1>1, <2>1, <2>2, <2>3, <2>4, <2>5, <2>6 DEF ReviewsNext
<1>2. ReviewsInit => ChainsInv
  BY DEF ReviewsInit, ChainsInv, Waiting, Open, InTurn, Raised
<1>3. ReviewsInv /\ ChainsInv => RetryPossible
  BY DEF ReviewsInv, LedgerOK, ChainsInv, Whole, RetryPossible, Readable, InContext, Dirs
<1> QED BY <1>1, <1>2, <1>3, ReviewsHoldInv, PTL DEF ReviewsSpec, NoTornAppend

\* A report that counts, fresh or reused, was given by a completed turn over exactly
\* its candidate, and of one context no second report is ever committed.
THEOREM ReviewReportsHold == ReviewsSpec => []ReportsHold
<1>1. ReviewsInv => ReportsWereGiven
  BY DEF ReviewsInv, RoleOK, Judged, ReportsWereGiven
<1>2. ASSUME ReviewsInv PROVE FinishedReviewsStand
  <2>1. LedgerOK(attempts, judged)
    BY <1>2 DEF ReviewsInv
  <2>2. \A d \in Dirs : d \in 1 .. Len(attempts) /\ (Validated(d) => Committed(attempts[d]))
    BY <2>1, Validations, AttemptsInOrder
  <2> QED BY <2>1, <2>2 DEF LedgerOK, FinishedReviewsStand
<1> QED BY ReviewsHoldInv, <1>1, <1>2, PTL DEF ReportsHold

HIDE ReviewAssumption DEF ReviewAssumption
-----------------------------------------------------------------------------
(***************************************************************************)
(* Prefetched materials                                                    *)
(***************************************************************************)

USE PrefetchAssumption DEF PrefetchAssumption

\* What a job may become once it is recorded: its basis stays, and it is never
\* queued a second time.
Follows(old, new) ==
  \/ new = old
  \/ old # NoJob /\ new \in [state : JobStates \ {"queued"}, basis : {old.basis}]

\* No work is recorded twice, ...
UniqueWork ==
  \A p, q \in Known : asked[p] = asked[q] /\ jobs[p].basis = jobs[q].basis => p = q

\* ... a job is asked for, and it has a worker only once it is no longer queued, ...
HelpedJobs ==
  /\ Known \subseteq Asked
  /\ \A q \in Requests : jobs[q].state \in {"none", "queued"} => helping[q] = Idle

\* ... and work that was begun belongs to such a job.
BegunForJob ==
  \A w \in Payloads, i \in Inputs :
    /\ begun[w][i] <= 1
    /\ begun[w][i] = 1 =>
         \E q \in Known : asked[q] = w /\ jobs[q].basis = i /\ jobs[q].state # "queued"

WorkInv == HelpedJobs /\ UniqueWork /\ BegunForJob
-----------------------------------------------------------------------------
LEMMA Shapes ==
  ASSUME PrefetchTypeOK, NEW q \in Requests
  PROVE  /\ q \in Known <=> jobs[q].state \in JobStates
         /\ q \notin Known <=> jobs[q].state = "none"
         /\ q \in Known => /\ jobs[q] \in [state : JobStates, basis : Inputs]
                           /\ jobs[q].basis \in Inputs
         /\ jobs[q] \in {NoJob} \cup [state : JobStates, basis : Inputs]
BY DEF PrefetchTypeOK, JobType, Known, NoJob, JobStates, Active, Over

LEMMA Changes ==
  ASSUME PrefetchTypeOK, NEW q \in Requests
  PROVE  /\ Follows(jobs[q], Refreshed(q))
         /\ Follows(jobs[q], Restored(jobs[q]))
         /\ \A s \in JobStates \ {"queued"} :
              q \in Known => Follows(jobs[q], [jobs[q] EXCEPT !.state = s])
<1>1. jobs[q] \in {NoJob} \cup [state : JobStates, basis : Inputs]
  BY Shapes
<1>2. CASE jobs[q] = NoJob
  BY <1>2 DEF Follows, Refreshed, Restored, Cut, Known, NoJob, Active
<1>3. CASE jobs[q] \in [state : JobStates, basis : Inputs] /\ jobs[q] # NoJob
  BY <1>3 DEF Follows, Refreshed, Restored, Cut, Known, JobStates, Active, Over
<1> QED BY <1>1, <1>2, <1>3

LEMMA FollowsTyped ==
  ASSUME NEW old, NEW new, Follows(old, new),
         old \in {NoJob} \cup [state : JobStates, basis : Inputs]
  PROVE  /\ new \in {NoJob} \cup [state : JobStates, basis : Inputs]
         /\ new # NoJob <=> old # NoJob
         /\ old # NoJob => new.basis = old.basis
         /\ new.state = "queued" => new = old
         /\ old # NoJob /\ old.state # "queued" => new.state # "queued"
<1>1. CASE new = old
  BY <1>1
<1>2. CASE old # NoJob /\ new \in [state : JobStates \ {"queued"}, basis : {old.basis}]
  BY <1>2 DEF NoJob, JobStates, Active, Over
<1> QED BY <1>1, <1>2 DEF Follows

\* The steps that neither record nor begin work.
Quiet ==
  /\ DOMAIN jobs' = Requests /\ jobs' = [q \in Requests |-> jobs'[q]]
  /\ \A q \in Requests : Follows(jobs[q], jobs'[q])
  /\ \A q \in Requests : helping'[q] = Idle \/ helping'[q] = helping[q]
                         \/ (helping[q] # Idle /\ helping'[q] \in Results(q))
  /\ \A q \in Requests : asked'[q] = asked[q] \/ (q \notin Asked /\ asked'[q] \in Payloads)
  /\ UNCHANGED begun

Records(q) ==
  /\ q \in Asked /\ Legible /\ jobs[q] = NoJob
  /\ ~ \E other \in Known : SameWork(q, other)
  /\ jobs' = [o \in Requests |-> IF o = q THEN [state |-> "queued", basis |-> inputs] ELSE Refreshed(o)]
  /\ UNCHANGED <<asked, inputs, helping, begun>>

Begins(q) ==
  /\ jobs[q].state = "queued" /\ jobs' = [jobs EXCEPT ![q].state = "running"]
  /\ helping' = [helping EXCEPT ![q].step = "working"]
  /\ begun' = [begun EXCEPT ![asked[q]][jobs[q].basis] = @ + 1]
  /\ UNCHANGED asked

LEMMA ResultsFrom ==
  ASSUME NEW q \in Requests, NEW outcome \in Results(q)
  PROVE  outcome # Idle /\ outcome.images \in Nat
BY DEF Results, Failure, Idle

LEMMA StepsAre ==
  ASSUME PrefetchTypeOK, [PrefetchNext]_prefetchVars
  PROVE  Quiet \/ \E q \in Requests : Records(q) \/ Begins(q)
<1> USE DEF authorVars, queueVars
<1>a. jobs = [q \in Requests |-> jobs[q]] /\ DOMAIN jobs = Requests
  BY DEF PrefetchTypeOK, JobType
<1>b. \A q \in Requests : Follows(jobs[q], jobs[q])
  BY DEF Follows
<1>1. CASE UNCHANGED prefetchVars \/ ImportOwn \/ EndResults \/ EndRequests \/ EndPoll \/ WriteInputs
  BY <1>1, <1>a, <1>b DEF Quiet, prefetchVars, ImportOwn, EndResults, EndRequests, EndPoll, WriteInputs
<1>2. CASE StartPoll
  BY <1>2, Changes DEF Quiet, StartPoll
<1>3. CASE Close
  BY <1>3, Changes DEF Quiet, Close, Restored
<1>4. CASE Restore
  BY <1>4, Changes DEF Quiet, Restore
<1>5. ASSUME NEW q \in Requests, AskToCancel(q) PROVE Quiet
  BY <1>5, <1>a, <1>b DEF Quiet, AskToCancel
<1>6. ASSUME NEW q \in Requests, NEW payload \in Payloads, AskFor(q, payload) PROVE Quiet
  BY <1>6, <1>a, <1>b DEF Quiet, AskFor, PrefetchTypeOK
<1>7. ASSUME NEW q \in Requests, NEW outcome \in Results(q), WorkerEnds(q, outcome) PROVE Quiet
  <2>1. helping[q] # Idle
    BY <1>7 DEF WorkerEnds, Idle
  <2> QED BY <1>7, <1>a, <1>b, <2>1 DEF Quiet, WorkerEnds
<1>8. ASSUME NEW q \in Requests, NEW s \in JobStates \ {"queued"}, q \in Known
      PROVE  LET new == [jobs EXCEPT ![q].state = s] IN
             /\ DOMAIN new = Requests /\ new = [o \in Requests |-> new[o]]
             /\ \A o \in Requests : Follows(jobs[o], new[o])
  BY <1>8, <1>a, <1>b, Changes
<1>9. ASSUME NEW q \in Requests, Harvest(q) PROVE Quiet
  <2>1. \A o \in Requests : helping'[o] = Idle \/ helping'[o] = helping[o]
    BY <1>9 DEF Harvest
  <2>2. CASE ~Runs(Refreshed(q).state)
    <3>1. jobs' = [jobs EXCEPT ![q] = Refreshed(q)]
      BY <1>9, <2>2 DEF Harvest
    <3> QED BY <1>9, <2>1, <3>1, <1>a, <1>b, Changes DEF Quiet, Harvest
  <2>3. CASE Runs(Refreshed(q).state)
    <3>1. q \in Known
      BY <2>3, Shapes DEF Runs, Refreshed, NoJob, Active
    <3>2. \E s \in {"ready", "failed"} : jobs' = [jobs EXCEPT ![q].state = s]
      BY <1>9, <2>3 DEF Harvest
    <3> QED BY <1>9, <2>1, <3>1, <3>2, <1>8 DEF Quiet, Harvest, JobStates, Active, Over
  <2> QED BY <2>2, <2>3
<1>10. ASSUME NEW q \in Requests, Submit(q) PROVE Quiet \/ Records(q)
  <2>1. CASE jobs' = jobs \/ jobs' = [o \in Requests |-> Refreshed(o)]
    BY <1>10, <2>1, <1>a, <1>b, Changes DEF Quiet, Submit
  <2>2. CASE ~(jobs' = jobs \/ jobs' = [o \in Requests |-> Refreshed(o)])
    BY <1>10, <2>2 DEF Submit, Records
  <2> QED BY <2>1, <2>2
<1>11. ASSUME NEW q \in Requests, Cancel(q) PROVE Quiet
  <2>1. CASE jobs[q].state \in Active
    <3>1. q \in Known
      BY <2>1, Shapes DEF Active
    <3>2. jobs' = [jobs EXCEPT ![q].state = "cancelled"]
      BY <1>11, <2>1 DEF Cancel
    <3>3. "cancelled" \in JobStates \ {"queued"}
      BY DEF JobStates, Active, Over
    <3>4. /\ DOMAIN jobs' = Requests /\ jobs' = [o \in Requests |-> jobs'[o]]
          /\ \A o \in Requests : Follows(jobs[o], jobs'[o])
      BY <3>1, <3>2, <3>3, <1>8
    <3> QED BY <1>11, <3>4 DEF Quiet, Cancel
  <2>2. CASE jobs[q].state \notin Active
    BY <1>11, <2>2, <1>b, <1>a DEF Quiet, Cancel
  <2> QED BY <2>1, <2>2
<1>12. ASSUME NEW q \in Requests, Start(q) PROVE Quiet \/ Begins(q)
  <2>1. q \in Known
    BY <1>12, Shapes DEF Start, JobStates, Active
  <2>2. CASE \E s \in {"stale", "failed"} : jobs' = [jobs EXCEPT ![q].state = s] /\ UNCHANGED <<helping, begun>>
    BY <1>12, <2>1, <2>2, <1>8 DEF Quiet, Start, JobStates, Active, Over
  <2>3. CASE ~ \E s \in {"stale", "failed"} : jobs' = [jobs EXCEPT ![q].state = s] /\ UNCHANGED <<helping, begun>>
    BY <1>12, <2>3 DEF Begins, Start
  <2> QED BY <2>2, <2>3
<1> QED BY <1>1, <1>2, <1>3, <1>4, <1>5, <1>6, <1>7, <1>9, <1>10, <1>11, <1>12 DEF PrefetchNext

\* What each variable holds, and which jobs have workers.
LEMMA TypedStart == PrefetchInit => PrefetchTypeOK /\ WorkInv
BY DEF PrefetchInit, PrefetchTypeOK, JobType, WorkInv, HelpedJobs, UniqueWork, BegunForJob,
       Known, Asked, NoJob, Idle

LEMMA TypedSteps ==
  ASSUME PrefetchTypeOK, HelpedJobs, [PrefetchNext]_prefetchVars
  PROVE  PrefetchTypeOK'
<1> USE DEF authorVars, queueVars
<1>1. /\ inputs' \in Inputs \cup {"illegible"} /\ poll' \in {"idle", "results", "requests", "starting", "closed"}
  BY DEF PrefetchTypeOK, PrefetchNext, prefetchVars, WriteInputs, ImportOwn, StartPoll, EndResults, EndRequests,
         EndPoll, Close, Restore, AskToCancel, Harvest, Submit, Cancel, Start, AskFor, WorkerEnds
<1> DEFINE Files == asked' \in [Requests -> Payloads \cup {"none"}] /\ cancels' \subseteq Asked'
<1>2. Files
  <2>1. ASSUME NEW q \in Requests, AskToCancel(q) PROVE Files
    BY <2>1 DEF AskToCancel, PrefetchTypeOK, Asked
  <2>2. ASSUME NEW q \in Requests, NEW payload \in Payloads, AskFor(q, payload) PROVE Files
    BY <2>2 DEF AskFor, PrefetchTypeOK, Asked
  <2>3. \/ UNCHANGED <<asked, cancels>>
        \/ \E q \in Requests : AskToCancel(q) \/ \E payload \in Payloads : AskFor(q, payload)
    BY DEF PrefetchNext, prefetchVars, WriteInputs, ImportOwn, StartPoll, EndResults, EndRequests,
           EndPoll, Close, Restore, Harvest, Submit, Cancel, Start, WorkerEnds
  <2>4. CASE UNCHANGED <<asked, cancels>>
    BY <2>4 DEF PrefetchTypeOK, Asked
  <2> QED BY <2>1, <2>2, <2>3, <2>4
<1>3. replied' \subseteq {"submit", "cancel"} \X Requests
  <2>1. \/ UNCHANGED replied
        \/ \E q \in Requests : replied' \in {replied \cup {<<"submit", q>>}, replied \cup {<<"cancel", q>>}}
    BY DEF PrefetchNext, prefetchVars, WriteInputs, ImportOwn, StartPoll, EndResults, EndRequests,
           EndPoll, Close, Restore, AskToCancel, Harvest, Submit, Cancel, Start, AskFor, WorkerEnds
  <2> QED BY <2>1 DEF PrefetchTypeOK
<1>4. images' \in Nat
  <2>1. ASSUME NEW q \in Requests, Harvest(q) PROVE images' \in Nat
    <3>1. helping[q].images \in Nat
      BY <2>1 DEF PrefetchTypeOK, Harvest, Idle, Results, Failure
    <3> QED BY <2>1, <3>1 DEF PrefetchTypeOK, Harvest, Imported
  <2>2. images' = images \/ images' = images + 1 \/ \E q \in Requests : Harvest(q)
    BY DEF PrefetchNext, prefetchVars, WriteInputs, ImportOwn, StartPoll, EndResults, EndRequests,
           EndPoll, Close, Restore, AskToCancel, Submit, Cancel, Start, AskFor, WorkerEnds
  <2> QED BY <2>1, <2>2 DEF PrefetchTypeOK
<1> DEFINE Jobs ==
      /\ jobs' \in JobType /\ begun' \in [Payloads -> [Inputs -> Nat]]
      /\ \A q \in Requests : helping'[q] \in {Idle, [Idle EXCEPT !.step = "working"]} \cup Results(q)'
<1>5. Jobs
  <2>1. CASE Quiet
    <3>1. \A q \in Requests : jobs'[q] \in {NoJob} \cup [state : JobStates, basis : Inputs]
      BY <2>1, Shapes, FollowsTyped DEF Quiet
    <3>2. jobs' \in JobType
      BY <2>1, <3>1 DEF Quiet, JobType
    <3>3. ASSUME NEW q \in Requests
          PROVE helping'[q] \in {Idle, [Idle EXCEPT !.step = "working"]} \cup Results(q)'
      <4>1. CASE helping[q] = Idle
        BY <2>1, <4>1 DEF Quiet
      <4>2. CASE helping[q] # Idle
        <5>1. q \in Asked
          BY <4>2, Shapes DEF HelpedJobs
        <5>2. asked'[q] = asked[q]
          BY <2>1, <5>1 DEF Quiet
        <5>3. Results(q)' = Results(q)
          BY <5>2 DEF Results, Generates
        <5> QED BY <2>1, <4>2, <5>3 DEF Quiet, PrefetchTypeOK
      <4> QED BY <4>1, <4>2
    <3> QED BY <2>1, <3>2, <3>3 DEF Quiet, PrefetchTypeOK
  <2>2. ASSUME NEW q \in Requests, Records(q) PROVE Jobs
    <3>1. \A o \in Requests : Refreshed(o) \in {NoJob} \cup [state : JobStates, basis : Inputs]
      BY Shapes, Changes, FollowsTyped
    <3>2. inputs \in Inputs
      BY <2>2 DEF Records, Legible, PrefetchTypeOK
    <3>3. [state |-> "queued", basis |-> inputs] \in [state : JobStates, basis : Inputs]
      BY <3>2 DEF JobStates, Active
    <3> QED BY <2>2, <3>1, <3>3 DEF Records, JobType, PrefetchTypeOK, Results, Generates
  <2>3. ASSUME NEW q \in Requests, Begins(q) PROVE Jobs
    <3>1. q \in Known /\ helping[q] = Idle /\ jobs[q].basis \in Inputs
      BY <2>3, Shapes DEF Begins, HelpedJobs, JobStates, Active
    <3>2. asked[q] \in Payloads
      BY <3>1 DEF HelpedJobs, Asked, PrefetchTypeOK
    <3>3. [jobs[q] EXCEPT !.state = "running"] \in [state : JobStates, basis : Inputs]
      BY <3>1, Shapes DEF JobStates, Active
    <3>4. jobs' \in JobType
      BY <2>3, <3>1, <3>3 DEF Begins, JobType, PrefetchTypeOK
    <3>5. begun' \in [Payloads -> [Inputs -> Nat]]
      BY <2>3, <3>1, <3>2 DEF Begins, PrefetchTypeOK
    <3>6. \A o \in Requests : helping'[o] \in {Idle, [Idle EXCEPT !.step = "working"]} \cup Results(o)'
      <4>1. ASSUME NEW o \in Requests PROVE Results(o)' = Results(o)
        BY <2>3 DEF Begins, Results, Generates
      <4>2. ASSUME NEW o \in Requests
            PROVE  helping'[o] = helping[o] \/ helping'[o] = [Idle EXCEPT !.step = "working"]
        BY <2>3, <3>1 DEF Begins, PrefetchTypeOK
      <4> QED BY <4>1, <4>2 DEF PrefetchTypeOK
    <3> QED BY <3>4, <3>5, <3>6
  <2> QED BY <2>1, <2>2, <2>3, StepsAre
<1> QED BY <1>1, <1>2, <1>3, <1>4, <1>5 DEF PrefetchTypeOK

-----------------------------------------------------------------------------
\* No work is begun a second time: its job would have to be queued again, or
\* recorded under another name.
LEMMA WorkSteps ==
  ASSUME PrefetchTypeOK, WorkInv, [PrefetchNext]_prefetchVars
  PROVE  WorkInv'
<1> USE DEF WorkInv
<1>1. CASE Quiet
  <2>1. ASSUME NEW q \in Requests
        PROVE  /\ q \in Known' <=> q \in Known
               /\ q \in Known => jobs'[q].basis = jobs[q].basis /\ asked'[q] = asked[q]
               /\ jobs'[q].state = "queued" => jobs[q].state = "queued"
               /\ q \in Known /\ jobs[q].state # "queued" => jobs'[q].state # "queued"
    BY <1>1, Shapes, FollowsTyped DEF Quiet, Known, HelpedJobs
  <2>2. HelpedJobs'
    <3>1. Known' \subseteq Asked'
      BY <1>1, <2>1 DEF HelpedJobs, Known, Asked, PrefetchTypeOK, Quiet
    <3>2. ASSUME NEW q \in Requests, jobs'[q].state \in {"none", "queued"} PROVE helping'[q] = Idle
      <4>1. jobs[q].state \in {"none", "queued"}
        BY <1>1, <2>1, <3>2, Shapes, FollowsTyped DEF Known, Quiet, Follows, JobStates, Active, Over
      <4> QED BY <1>1, <4>1 DEF HelpedJobs, Quiet
    <3> QED BY <3>1, <3>2 DEF HelpedJobs
  <2>3. UniqueWork'
    BY <2>1 DEF UniqueWork, Known
  <2>4. BegunForJob'
    BY <1>1, <2>1 DEF BegunForJob, Quiet, Known
  <2> QED BY <2>2, <2>3, <2>4
<1>2. ASSUME NEW q \in Requests, Records(q) PROVE WorkInv'
  <2>1. ASSUME NEW o \in Requests, o # q
        PROVE  /\ o \in Known' <=> o \in Known
               /\ o \in Known => jobs'[o].basis = jobs[o].basis
               /\ jobs'[o].state = "queued" => jobs[o].state = "queued"
               /\ o \in Known /\ jobs[o].state # "queued" => jobs'[o].state # "queued"
               /\ jobs'[o].state = "none" => jobs[o].state = "none"
    BY <1>2, <2>1, Shapes, Changes, FollowsTyped DEF Records, Known, NoJob
  <2>2. q \in Known' /\ jobs'[q] = [state |-> "queued", basis |-> inputs] /\ q \notin Known
    BY <1>2 DEF Records, Known, NoJob
  <2>3. HelpedJobs'
    BY <1>2, <2>1, <2>2, Shapes DEF HelpedJobs, Records, Known, Asked
  <2>4. UniqueWork'
    BY <1>2, <2>1, <2>2 DEF UniqueWork, Records, SameWork, Known
  <2>5. BegunForJob'
    BY <1>2, <2>1, <2>2 DEF BegunForJob, Records, Known
  <2> QED BY <2>3, <2>4, <2>5
<1>3. ASSUME NEW q \in Requests, Begins(q) PROVE WorkInv'
  <2>1. q \in Known /\ jobs[q].basis \in Inputs /\ asked[q] \in Payloads
    BY <1>3, Shapes DEF Begins, HelpedJobs, JobStates, Active, Asked, PrefetchTypeOK
  <2>2. /\ Known' = Known /\ jobs'[q].state = "running" /\ \A o \in Requests : jobs'[o].basis = jobs[o].basis
        /\ \A o \in Requests : o # q => jobs'[o] = jobs[o] /\ helping'[o] = helping[o]
    BY <1>3, <2>1 DEF Begins, Known, NoJob, PrefetchTypeOK, JobType
  <2>3. HelpedJobs' /\ UniqueWork'
    BY <1>3, <2>1, <2>2 DEF HelpedJobs, UniqueWork, Begins, Asked
  <2>4. begun[asked[q]][jobs[q].basis] = 0
    <3>1. begun[asked[q]][jobs[q].basis] # 1
      BY <1>3, <2>1 DEF BegunForJob, UniqueWork, Begins
    <3>2. begun[asked[q]][jobs[q].basis] \in Nat
      BY <2>1 DEF PrefetchTypeOK
    <3>3. begun[asked[q]][jobs[q].basis] <= 1
      BY <2>1 DEF BegunForJob
    <3> QED BY <3>1, <3>2, <3>3
  <2>5. BegunForJob'
    <3> SUFFICES ASSUME NEW w \in Payloads, NEW i \in Inputs
                 PROVE  /\ begun'[w][i] <= 1
                        /\ begun'[w][i] = 1 => \E o \in Known : asked[o] = w /\ jobs'[o].basis = i /\ jobs'[o].state # "queued"
      BY <1>3, <2>2 DEF BegunForJob, Begins
    <3>1. CASE w = asked[q] /\ i = jobs[q].basis
      BY <1>3, <2>1, <2>2, <2>4, <3>1 DEF Begins, PrefetchTypeOK
    <3>2. CASE ~(w = asked[q] /\ i = jobs[q].basis)
      <4>1. begun'[w][i] = begun[w][i]
        BY <1>3, <3>2 DEF Begins, PrefetchTypeOK
      <4>2. ASSUME begun'[w][i] = 1
            PROVE  \E o \in Known : asked[o] = w /\ jobs'[o].basis = i /\ jobs'[o].state # "queued"
        <5>1. PICK o \in Known : asked[o] = w /\ jobs[o].basis = i /\ jobs[o].state # "queued"
          <6>1. begun[w][i] = 1
            BY <4>1, <4>2
          <6> QED BY <6>1, Zenon DEF BegunForJob
        <5>2. o \in Requests /\ o # q
          BY <3>2, <5>1 DEF Known
        <5> QED BY <2>2, <5>1, <5>2
      <4>3. begun'[w][i] <= 1
        BY <4>1 DEF BegunForJob
      <4> QED BY <4>2, <4>3
    <3> QED BY <3>1, <3>2
  <2> QED BY <2>3, <2>5
<1> QED BY <1>1, <1>2, <1>3, StepsAre

\* What the variables of the prefetching side hold, for any number of requests, payloads and limits.
THEOREM PrefetchTyped == PrefetchSpec => []PrefetchTypeOK
<1>1. PrefetchTypeOK /\ WorkInv /\ [PrefetchNext]_prefetchVars => (PrefetchTypeOK /\ WorkInv)'
  BY TypedSteps, WorkSteps DEF WorkInv
<1> QED BY TypedStart, <1>1, PTL DEF PrefetchSpec

\* No hosted work is begun twice for the same inputs in the history a workspace
\* records (material_prefetch.py).
THEOREM WorkBegunOnce == PrefetchSpec => []WorkIsBegunOnce
<1>1. PrefetchTypeOK /\ WorkInv /\ [PrefetchNext]_prefetchVars => (PrefetchTypeOK /\ WorkInv)'
  BY TypedSteps, WorkSteps DEF WorkInv
<1>2. WorkInv => WorkIsBegunOnce
  BY DEF WorkInv, BegunForJob, WorkIsBegunOnce
<1> QED BY TypedStart, <1>1, <1>2, PTL DEF PrefetchSpec

\* Generated images and the author's own never exceed their common limit.
THEOREM ImagesLimited == PrefetchSpec => []ImagesWithinLimit
<1>1. PrefetchInit => ImagesWithinLimit
  BY DEF PrefetchInit, ImagesWithinLimit
<1>2. ASSUME PrefetchTypeOK, ImagesWithinLimit, [PrefetchNext]_prefetchVars PROVE ImagesWithinLimit'
  <2>1. ASSUME NEW q \in Requests, Harvest(q) PROVE images' <= MaxImages
    <3>1. helping[q].images \in Nat
      BY <1>2, <2>1 DEF PrefetchTypeOK, Harvest, Idle, Results, Failure
    <3> QED BY <1>2, <2>1, <3>1 DEF PrefetchTypeOK, Harvest, Imported, Fits, ImagesWithinLimit
  <2>2. CASE ImportOwn
    BY <1>2, <2>2 DEF ImportOwn, PrefetchTypeOK, ImagesWithinLimit
  <2>3. images' = images \/ ImportOwn \/ \E q \in Requests : Harvest(q)
    BY <1>2 DEF PrefetchNext, prefetchVars, WriteInputs, StartPoll, EndResults, EndRequests,
         EndPoll, Close, Restore, AskToCancel, Submit, Cancel, Start, AskFor, WorkerEnds
  <2> QED BY <1>2, <2>1, <2>2, <2>3 DEF ImagesWithinLimit
<1> QED BY <1>1, <1>2, PrefetchTyped, PTL DEF PrefetchSpec
=============================================================================
