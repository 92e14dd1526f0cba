---------------------------- MODULE CanvasProofs ----------------------------
(***************************************************************************)
(* What is delivered, shown and saved, for any number of pages, saves,     *)
(* visual edits and attempts.                                              *)
(***************************************************************************)
EXTENDS Canvas, FiniteSetTheorems, TLAPS

USE CanvasAssumption DEF CanvasAssumption

(***************************************************************************)
(* Types                                                                   *)
(***************************************************************************)

LEMMA TokensNatural == MaxTokens \in Nat
BY FS_CardinalityType DEF MaxTokens

LEMMA GraftType ==
  ASSUME NEW deck \in Decks, NEW locked \in [Pages -> Saves \cup {None}]
  PROVE  Graft(deck, locked) \in Decks
BY DEF Graft, Decks, Contents

LEMMA OverDeckType ==
  ASSUME NEW deck \in Decks, NEW S \in SUBSET Pages, NEW e \in Saves
  PROVE  Over(deck, S, e) \in Decks
BY DEF Over, Decks, Contents

LEMMA OverLocksType ==
  ASSUME NEW locked \in [Pages -> Saves \cup {None}], NEW S \in SUBSET Pages, NEW e \in Saves
  PROVE  Over(locked, S, e) \in [Pages -> Saves \cup {None}]
BY DEF Over

\* The rows and records the state is made of.
EditRows == [status : {"absent", "queued", "running", "complete", "failed"},
             base : Decks \cup {None}, pages : SUBSET Pages, producer : 0 .. MaxLeases,
             key : Leases \cup Saves \cup {None}, token : 0 .. MaxTokens, silent : BOOLEAN]
RunRecords == [edit : Saves, step : {"claimed", "rendered"}, parent : Decks \cup {None},
               tries : 0 .. MaxTries] \cup {NoRun}
PubRecords == [step : {"locks", "head"}, source : Decks, locks : [Pages -> Saves \cup {None}],
               parent : Decks \cup {None}] \cup {NoPub}

JobType ==
  /\ status \in {"waiting", "running", "complete"}
  /\ lease \in 0 .. MaxLeases
  /\ result \in [key : Leases \cup Saves, deck : Decks] \cup {[key |-> None, deck |-> None]}
HeadType ==
  /\ head \in [deck : Decks, lease : Leases] \cup {[deck |-> None, lease |-> 0]}
  /\ sources \subseteq Decks
LocksType == locks \in [Pages -> Saves \cup {None}] /\ newest \in [Pages -> Saves \cup {None}]
EditsType == edits \in [Saves -> EditRows]
RunsType ==
  /\ runs \in [Tokens -> RunRecords]
  /\ tokens \in 0 .. MaxTokens /\ silences \in 0 .. MaxSilences
PubsType == pubs \in [Leases -> PubRecords]
AgentType ==
  /\ work \in Decks
  /\ frozen \in [deck : Decks, answers : SUBSET (Saves \cup Asks)] \cup {None}
  /\ pending \subseteq Saves \cup Asks /\ told \subseteq Saves \cup Asks

\* Attempts that run have been claimed, saves that are open were made on a deck,
\* and an execution that has rendered a save of a delivered deck did so on that deck.
Started == (status # "waiting" => lease \in Leases) /\ head.lease <= lease
Posted  == \A e \in Saves : Open(e) =>
             edits[e].base \in Decks /\ (Progressive(e) \/ edits[e].key \in Leases \cup Saves)
Rendered == \A t \in Tokens :
              Holds(t) /\ runs[t].step = "rendered" /\ ~Progressive(runs[t].edit)
                => runs[t].parent = edits[runs[t].edit].base
Sound == Started /\ Posted /\ Rendered

LEMMA TypeParts ==
  TypeOK <=> JobType /\ HeadType /\ LocksType /\ EditsType /\ RunsType /\ PubsType /\ AgentType
BY DEF TypeOK, JobType, HeadType, LocksType, EditsType, RunsType, PubsType, AgentType,
       EditRows, RunRecords, PubRecords

LEMMA SoundInit == Init => TypeOK /\ Sound
<1> SUFFICES ASSUME Init PROVE TypeOK /\ Sound
  OBVIOUS
<1>1. BlankDeck \in Decks /\ NoLocks \in [Pages -> Saves \cup {None}]
  BY DEF BlankDeck, NoLocks, Decks, Contents
<1>2. NoEdit \in EditRows /\ NoRun \in RunRecords /\ NoPub \in PubRecords
  BY TokensNatural DEF NoEdit, NoRun, NoPub, EditRows, RunRecords, PubRecords
<1>3. JobType /\ HeadType /\ LocksType /\ AgentType
  BY <1>1 DEF Init, JobType, HeadType, LocksType, AgentType
<1>4. EditsType /\ RunsType /\ PubsType
  BY <1>2, TokensNatural DEF Init, EditsType, RunsType, PubsType
<1>5. Sound
  BY DEF Init, Sound, Started, Posted, Rendered, Open, Holds, NoEdit, NoRun
<1> QED BY <1>3, <1>4, <1>5, TypeParts

\* What an action that leaves the saves and the editor alone keeps.
LEMMA EditingKept ==
  ASSUME EditsType, RunsType, Posted, Rendered, UNCHANGED <<edits, runs, tokens, silences>>
  PROVE  EditsType' /\ RunsType' /\ Posted' /\ Rendered'
BY DEF EditsType, RunsType, Posted, Rendered, Open, Progressive, Holds

LEMMA NoEditType == NoEdit \in EditRows
BY TokensNatural DEF NoEdit, EditRows

\* Columns that are written keep the row a row.
LEMMA StatusRow ==
  ASSUME NEW row \in EditRows, NEW word \in {"queued", "running", "complete", "failed"}
  PROVE  [row EXCEPT !.status = word] \in EditRows
BY DEF EditRows

LEMMA SilentRow ==
  ASSUME NEW row \in EditRows
  PROVE  [row EXCEPT !.silent = TRUE] \in EditRows /\ [row EXCEPT !.silent = FALSE] \in EditRows
BY DEF EditRows

LEMMA ClaimedRow ==
  ASSUME NEW row \in EditRows, NEW token \in 0 .. MaxTokens
  PROVE  [row EXCEPT !.status = "running", !.token = token, !.silent = FALSE] \in EditRows
BY DEF EditRows

LEMMA HeadRow ==
  ASSUME NEW row \in EditRows, NEW base \in Decks, NEW S \in SUBSET Pages, NEW l \in Leases
  PROVE  [row EXCEPT !.status = "queued", !.base = base, !.pages = S, !.producer = l] \in EditRows
<1>1. l \in 0 .. MaxLeases
  BY DEF Leases
<1> QED BY <1>1 DEF EditRows

LEMMA ResultRow ==
  ASSUME NEW row \in EditRows, NEW base \in Decks, NEW S \in SUBSET Pages, NEW key \in Leases \cup Saves
  PROVE  [row EXCEPT !.status = "queued", !.base = base, !.pages = S, !.key = key] \in EditRows
BY DEF EditRows

LEMMA EndedType == ASSUME NEW word \in {"complete", "failed"}
                   PROVE  Ended(word) \in EditRows /\ Ended(word).status = word
<1>1. [NoEdit EXCEPT !.status = word] \in EditRows
  BY NoEditType, StatusRow
<1>2. [NoEdit EXCEPT !.status = word].status = word
  BY NoEditType DEF EditRows
<1> QED BY <1>1, <1>2 DEF Ended

LEMMA SavedRow ==
  ASSUME JobType, HeadType, Started, NEW e \in Saves, NEW S \in SUBSET Pages,
         NEW base \in (sources \cup {result.deck}) \ {None}, Save(e, base, S)
  PROVE  \E row \in EditRows :
           /\ edits' = [edits EXCEPT ![e] = row]
           /\ row.status = "queued" /\ row.base \in Decks
           /\ row.producer # 0 \/ (row.key \in Leases \cup Saves /\ row.base = result.deck)
<1>1. base \in Decks
  BY DEF JobType, HeadType
<1>2. CASE status = "running"
  <2> DEFINE row == [NoEdit EXCEPT !.status = "queued", !.base = base, !.pages = S, !.producer = lease]
  <2>1. lease \in Leases /\ lease # 0
    BY <1>2 DEF Started, Leases
  <2>2. row \in EditRows
    BY <1>1, <2>1, NoEditType, HeadRow
  <2>3. row.status = "queued" /\ row.base = base /\ row.producer # 0
    BY <2>1, NoEditType DEF EditRows
  <2>4. edits' = [edits EXCEPT ![e] = row]
    BY <1>2 DEF Save
  <2> QED BY <1>1, <2>2, <2>3, <2>4
<1>3. CASE status = "complete"
  <2> DEFINE row == [NoEdit EXCEPT !.status = "queued", !.base = base, !.pages = S, !.key = result.key]
  <2>1. result.key \in Leases \cup Saves /\ base = result.deck
    BY <1>1, <1>3 DEF Save, JobType, Contents
  <2>2. row \in EditRows
    BY <1>1, <2>1, NoEditType, ResultRow
  <2>3. row.status = "queued" /\ row.base = base /\ row.key = result.key
    BY NoEditType DEF EditRows
  <2>4. edits' = [edits EXCEPT ![e] = row]
    BY <1>3 DEF Save
  <2> QED BY <1>1, <2>1, <2>2, <2>3, <2>4
<1> QED BY <1>2, <1>3 DEF Save

LEMMA ClaimedRun == ASSUME NEW e \in Saves
                    PROVE  /\ [NoRun EXCEPT !.edit = e, !.step = "claimed"] \in RunRecords
                           /\ [NoRun EXCEPT !.edit = e, !.step = "claimed"].step = "claimed"
<1>1. NoRun \in [edit : {None}, step : {"none"}, parent : Decks \cup {None}, tries : 0 .. MaxTries]
  BY DEF NoRun
<1> QED BY <1>1 DEF RunRecords

LEMMA RenderedRun ==
  ASSUME NEW run \in RunRecords, run # NoRun, NEW deck \in Decks \cup {None}
  PROVE  [run EXCEPT !.step = "rendered", !.parent = deck] \in RunRecords
BY DEF RunRecords

LEMMA RetriedRun ==
  ASSUME NEW run \in RunRecords, run # NoRun, NEW n \in 0 .. MaxTries
  PROVE  [run EXCEPT !.step = "claimed", !.parent = None, !.tries = n] \in RunRecords
BY DEF RunRecords

LEMMA NoRunType == NoRun \in RunRecords /\ NoRun.step = "none" /\ NoRun.edit = None /\ None \notin Saves
BY DEF NoRun, RunRecords, Contents

LEMMA HolderType ==
  ASSUME RunsType, NEW t \in Tokens, runs[t] # NoRun
  PROVE  /\ runs[t] \in [edit : Saves, step : {"claimed", "rendered"}, parent : Decks \cup {None}, tries : 0 .. MaxTries]
         /\ runs[t].edit \in Saves
BY DEF RunsType, RunRecords

LEMMA HolderRuns ==
  ASSUME RunsType, NEW t \in Tokens, Holds(t)
  PROVE  runs[t] # NoRun /\ runs[t].edit \in Saves /\ Open(runs[t].edit)
BY HolderType, NoRunType DEF Holds, Open

\* Saves that stay open stay what they were posted as.
LEMMA PostedKept ==
  ASSUME Posted,
         \A e \in Saves : Open(e)' => /\ Open(e)
                                      /\ edits'[e].base = edits[e].base
                                      /\ edits'[e].producer = edits[e].producer
                                      /\ edits'[e].key = edits[e].key
  PROVE  Posted'
BY DEF Posted, Progressive

\* Executions that go on with a rendered save rendered it before.
LEMMA RenderedKept ==
  ASSUME Rendered,
         \A t \in Tokens : Holds(t)' /\ runs'[t].step = "rendered"
            => /\ Holds(t) /\ runs'[t] = runs[t]
               /\ edits'[runs[t].edit].base = edits[runs[t].edit].base
               /\ edits'[runs[t].edit].producer = edits[runs[t].edit].producer
  PROVE  Rendered'
BY DEF Rendered, Progressive

\* An execution ends, and its save with it or not.
LEMMA EndsKept ==
  ASSUME EditsType, RunsType, Posted, Rendered,
         NEW t \in Tokens, NEW word \in {"complete", "failed"},
         runs' = [runs EXCEPT ![t] = NoRun],
         \/ edits' = edits
         \/ runs[t].edit \in Saves /\ edits' = [edits EXCEPT ![runs[t].edit] = Ended(word)],
         UNCHANGED <<tokens, silences>>
  PROVE  EditsType' /\ RunsType' /\ Posted' /\ Rendered'
<1>1. EditsType' /\ RunsType'
  BY EndedType, NoRunType DEF EditsType, RunsType
<1>2. \A e \in Saves : edits'[e] = edits[e] \/ ~Open(e)'
  BY EndedType DEF EditsType, Open
<1>3. \A u \in Tokens : runs'[u] = runs[u] \/ runs'[u] = NoRun
  BY DEF RunsType
<1>4. Posted'
  BY <1>2, PostedKept DEF Open
<1>5. Rendered'
  <2> SUFFICES ASSUME NEW u \in Tokens, Holds(u)', runs'[u].step = "rendered"
               PROVE  /\ Holds(u) /\ runs'[u] = runs[u]
                      /\ edits'[runs[u].edit] = edits[runs[u].edit]
    BY RenderedKept
  <2>1. runs'[u] = runs[u]
    BY <1>3, NoRunType
  <2>2. runs[u].edit \in Saves
    BY <2>1, HolderType, NoRunType
  <2>3. Open(runs[u].edit)'
    BY <2>1 DEF Holds, Open
  <2> QED BY <1>2, <2>1, <2>2, <2>3 DEF Holds
<1> QED BY <1>1, <1>4, <1>5

LEMMA SoundStep == TypeOK /\ Sound /\ [Next]_vars => TypeOK' /\ Sound'
<1> DEFINE Types == JobType /\ HeadType /\ LocksType /\ EditsType /\ RunsType /\ PubsType /\ AgentType
<1> SUFFICES ASSUME Types, Sound, [Next]_vars
             PROVE  Types' /\ Sound'
  BY TypeParts DEF TypeOK, JobType, HeadType, LocksType, EditsType, RunsType, PubsType, AgentType, EditRows, RunRecords, PubRecords
<1> USE DEF job, canvas, editing, agent, Sound
<1>1. CASE Claim
  <2>1. EditsType' /\ RunsType' /\ Posted' /\ Rendered'
    BY <1>1, EditingKept DEF Claim
  <2>2. JobType' /\ HeadType' /\ LocksType' /\ PubsType' /\ AgentType'
    BY <1>1 DEF Started, JobType, HeadType, LocksType, PubsType, AgentType, PubRecords, Claim, Leases
  <2>3. Started'
    BY <1>1 DEF Started, JobType, HeadType, Claim, Leases
  <2> QED BY <2>1, <2>2, <2>3
<1>2. CASE Release
  <2>1. EditsType' /\ RunsType' /\ Posted' /\ Rendered'
    BY <1>2, EditingKept DEF Release
  <2>2. JobType' /\ HeadType' /\ LocksType' /\ PubsType' /\ AgentType'
    BY <1>2 DEF Started, JobType, HeadType, LocksType, PubsType, AgentType, PubRecords, Release
  <2>3. Started'
    BY <1>2 DEF Started, JobType, HeadType, Release
  <2> QED BY <2>1, <2>2, <2>3
<1>3. CASE Poll
  <2>1. EditsType' /\ RunsType' /\ Posted' /\ Rendered'
    BY <1>3, EditingKept DEF Poll
  <2>2. JobType' /\ HeadType' /\ LocksType' /\ PubsType' /\ AgentType'
    BY <1>3 DEF Started, JobType, HeadType, LocksType, PubsType, AgentType, PubRecords, Poll
  <2>3. Started'
    BY <1>3 DEF Started, JobType, HeadType, Poll
  <2> QED BY <2>1, <2>2, <2>3
<1>4. CASE SendBack
  <2>1. EditsType' /\ RunsType' /\ Posted' /\ Rendered'
    BY <1>4, EditingKept DEF SendBack
  <2>2. JobType' /\ HeadType' /\ LocksType' /\ PubsType' /\ AgentType'
    BY <1>4 DEF Started, JobType, HeadType, LocksType, PubsType, AgentType, PubRecords, SendBack
  <2>3. Started'
    BY <1>4 DEF Started, JobType, HeadType, SendBack
  <2> QED BY <2>1, <2>2, <2>3
<1>5. CASE Apply
  <2>1. EditsType' /\ RunsType' /\ Posted' /\ Rendered'
    BY <1>5, EditingKept DEF Apply
  <2>2. JobType' /\ HeadType' /\ LocksType' /\ PubsType' /\ AgentType'
    BY <1>5 DEF Started, JobType, HeadType, LocksType, PubsType, AgentType, PubRecords, Apply
  <2>3. Started'
    BY <1>5 DEF Started, JobType, HeadType, Apply
  <2> QED BY <2>1, <2>2, <2>3
<1>6. CASE Deliver
  <2>1. EditsType' /\ RunsType' /\ Posted' /\ Rendered'
    BY <1>6, EditingKept DEF Deliver
  <2>2. JobType' /\ HeadType' /\ LocksType' /\ PubsType' /\ AgentType'
    BY <1>6 DEF Started, JobType, HeadType, LocksType, PubsType, AgentType, PubRecords, Deliver
  <2>3. Started'
    BY <1>6 DEF Started, JobType, HeadType, Deliver
  <2> QED BY <2>1, <2>2, <2>3
<1>7. CASE Adopt
  <2>1. EditsType' /\ RunsType' /\ Posted' /\ Rendered'
    BY <1>7, EditingKept DEF Adopt
  <2>2. JobType' /\ HeadType' /\ LocksType' /\ PubsType' /\ AgentType'
    BY <1>7 DEF Started, JobType, HeadType, LocksType, PubsType, AgentType, PubRecords, Adopt
  <2>3. Started'
    BY <1>7 DEF Started, JobType, HeadType, Adopt
  <2> QED BY <2>1, <2>2, <2>3
<1>8. CASE Freeze
  <2>1. EditsType' /\ RunsType' /\ Posted' /\ Rendered'
    BY <1>8, EditingKept DEF Freeze
  <2>2. JobType' /\ HeadType' /\ LocksType' /\ PubsType' /\ AgentType'
    <3>1. Candidate \in Decks
      BY GraftType DEF Candidate, LocksType, AgentType
    <3> QED BY <1>8, <3>1 DEF JobType, HeadType, LocksType, PubsType, AgentType, Freeze
  <2>3. Started'
    BY <1>8 DEF Started, Freeze
  <2> QED BY <2>1, <2>2, <2>3
<1>9. ASSUME NEW p \in Pages, NEW c \in Drafts \cup Saves, Author(p, c)
      PROVE  Types' /\ Sound'
  <2>1. EditsType' /\ RunsType' /\ Posted' /\ Rendered'
    BY <1>9, EditingKept DEF Author
  <2>2. JobType' /\ HeadType' /\ LocksType' /\ PubsType' /\ AgentType'
    <3>1. work' \in Decks
      BY <1>9 DEF AgentType, Decks, Contents, Author
    <3> QED BY <1>9, <3>1 DEF JobType, HeadType, LocksType, PubsType, AgentType, Author
  <2>3. Started'
    BY <1>9 DEF Started, Author
  <2> QED BY <2>1, <2>2, <2>3
<1>10. ASSUME NEW l \in Leases, NEW source \in Offered, ReadLocks(l, source)
      PROVE  Types' /\ Sound'
  <2>1. EditsType' /\ RunsType' /\ Posted' /\ Rendered'
    BY <1>10, EditingKept DEF ReadLocks
  <2>2. JobType' /\ HeadType' /\ LocksType' /\ PubsType' /\ AgentType'
    <3>1. source \in Decks
      BY DEF Offered, Decks, Contents
    <3> QED BY <1>10, <3>1 DEF JobType, HeadType, LocksType, PubsType, AgentType, PubRecords, ReadLocks
  <2>3. Started'
    BY <1>10 DEF Started, JobType, HeadType, ReadLocks
  <2> QED BY <2>1, <2>2, <2>3
<1>11. ASSUME NEW l \in Leases, ReadHead(l)
      PROVE  Types' /\ Sound'
  <2>1. EditsType' /\ RunsType' /\ Posted' /\ Rendered'
    BY <1>11, EditingKept DEF ReadHead
  <2>2. JobType' /\ HeadType' /\ LocksType' /\ PubsType' /\ AgentType'
    <3>1. LiveHead(l) \in Decks \cup {None}
      BY DEF LiveHead, HeadType
    <3>2. pubs[l] # NoPub
      BY <1>11 DEF ReadHead, NoPub
    <3>3. PubsType'
      BY <1>11, <3>1, <3>2 DEF PubsType, PubRecords, ReadHead
    <3> QED BY <1>11, <3>3 DEF JobType, HeadType, LocksType, AgentType, ReadHead
  <2>3. Started'
    BY <1>11 DEF Started, ReadHead
  <2> QED BY <2>1, <2>2, <2>3
<1>12. ASSUME NEW l \in Leases, Publish(l)
      PROVE  Types' /\ Sound'
  <2>1. EditsType' /\ RunsType' /\ Posted' /\ Rendered'
    BY <1>12, EditingKept DEF Publish
  <2>2. JobType' /\ HeadType' /\ LocksType' /\ PubsType' /\ AgentType'
    <3>1. pubs[l] # NoPub
      BY <1>12 DEF Publish, NoPub
    <3>2. Graft(pubs[l].source, pubs[l].locks) \in Decks
      BY <3>1, GraftType DEF PubsType, PubRecords
    <3>3. HeadType'
      BY <1>12, <3>2 DEF HeadType, Publish
    <3>4. PubsType'
      BY <1>12 DEF PubsType, PubRecords, Publish
    <3> QED BY <1>12, <3>3, <3>4 DEF JobType, LocksType, AgentType, Publish
  <2>3. Started'
    BY <1>12 DEF Started, Publish, MayPublish, JobType, HeadType
  <2> QED BY <2>1, <2>2, <2>3
<1>13. ASSUME NEW l \in Leases, AbandonPublication(l)
      PROVE  Types' /\ Sound'
  <2>1. EditsType' /\ RunsType' /\ Posted' /\ Rendered'
    BY <1>13, EditingKept DEF AbandonPublication
  <2>2. JobType' /\ HeadType' /\ LocksType' /\ PubsType' /\ AgentType'
    BY <1>13 DEF Started, JobType, HeadType, LocksType, PubsType, AgentType, PubRecords, AbandonPublication
  <2>3. Started'
    BY <1>13 DEF Started, JobType, HeadType, AbandonPublication
  <2> QED BY <2>1, <2>2, <2>3
<1>14. ASSUME NEW a \in Asks, NEW S \in SUBSET Pages, Ask(a, S)
      PROVE  Types' /\ Sound'
  <2>1. EditsType' /\ RunsType' /\ Posted' /\ Rendered'
    BY <1>14, EditingKept DEF Ask
  <2>2. JobType' /\ HeadType' /\ LocksType' /\ PubsType' /\ AgentType'
    BY <1>14 DEF Started, JobType, HeadType, LocksType, PubsType, AgentType, PubRecords, Ask
  <2>3. Started'
    BY <1>14 DEF Started, JobType, HeadType, Ask
  <2> QED BY <2>1, <2>2, <2>3
<1>15. CASE DropSaves
  <2>1. JobType' /\ HeadType' /\ LocksType' /\ PubsType' /\ AgentType' /\ Started'
    BY <1>15 DEF Started, JobType, HeadType, LocksType, PubsType, AgentType, DropSaves
  <2>2. EditsType' /\ RunsType'
    BY <1>15, EndedType DEF EditsType, RunsType, DropSaves
  <2>3. \A e \in Saves : edits'[e] = edits[e] \/ ~Open(e)'
    BY <1>15, EndedType DEF DropSaves, Open
  <2>4. Posted'
    BY <2>3, PostedKept DEF Open
  <2>5. Rendered'
    <3> SUFFICES ASSUME NEW t \in Tokens, Holds(t)', runs'[t].step = "rendered"
                 PROVE  Holds(t) /\ runs'[t] = runs[t] /\ edits'[runs[t].edit] = edits[runs[t].edit]
      BY RenderedKept
    <3>1. runs' = runs
      BY <1>15 DEF DropSaves
    <3>2. runs[t].edit \in Saves
      BY <3>1, HolderType, NoRunType
    <3> QED BY <2>3, <3>1, <3>2 DEF Holds, Open
  <2> QED BY <2>1, <2>2, <2>4, <2>5
<1>16. ASSUME NEW e \in Saves, NEW base \in (sources \cup {result.deck}) \ {None}, NEW S \in SUBSET Pages, Save(e, base, S)
      PROVE  Types' /\ Sound'
  <2>1. JobType' /\ HeadType' /\ LocksType' /\ PubsType' /\ AgentType' /\ Started'
    BY <1>16 DEF Started, JobType, HeadType, LocksType, PubsType, AgentType, Save
  <2>2. PICK row \in EditRows :
             /\ edits' = [edits EXCEPT ![e] = row]
             /\ row.status = "queued" /\ row.base \in Decks
             /\ row.producer # 0 \/ (row.key \in Leases \cup Saves /\ row.base = result.deck)
    BY <1>16, SavedRow
  <2>3. EditsType' /\ RunsType'
    BY <1>16, <2>2 DEF EditsType, RunsType, Save
  <2>4. Posted'
    BY <2>2 DEF Posted, Open, Progressive, EditsType
  <2>5. Rendered'
    <3> SUFFICES ASSUME NEW t \in Tokens, Holds(t)', runs'[t].step = "rendered"
                 PROVE  Holds(t) /\ runs'[t] = runs[t] /\ edits'[runs[t].edit] = edits[runs[t].edit]
      BY RenderedKept
    <3>1. runs' = runs
      BY <1>16 DEF Save
    <3>2. runs[t].edit \in Saves
      BY <3>1, HolderType, NoRunType
    <3> QED BY <2>2, <3>1, <3>2 DEF Holds, EditsType
  <2> QED BY <2>1, <2>3, <2>4, <2>5
<1>17. ASSUME NEW e \in Saves, ClaimSave(e)
      PROVE  Types' /\ Sound'
  <2>1. JobType' /\ HeadType' /\ LocksType' /\ PubsType' /\ AgentType' /\ Started'
    BY <1>17 DEF Started, JobType, HeadType, LocksType, PubsType, AgentType, ClaimSave
  <2>2. tokens + 1 \in Tokens
    BY <1>17, TokensNatural DEF ClaimSave, RunsType, Tokens
  <2>3. EditsType'
    <3>1. tokens + 1 \in 0 .. MaxTokens
      BY <2>2, TokensNatural DEF Tokens
    <3> QED BY <1>17, <3>1, ClaimedRow DEF EditsType, ClaimSave
  <2>4. RunsType'
    <3>1. [NoRun EXCEPT !.edit = e, !.step = "claimed"] \in RunRecords
      BY ClaimedRun
    <3> QED BY <1>17, <2>2, <3>1, TokensNatural DEF RunsType, ClaimSave, Tokens
  <2>5. Posted'
    BY <1>17, PostedKept DEF ClaimSave, Claimable, Open, EditsType, EditRows
  <2>6. Rendered'
    <3> SUFFICES ASSUME NEW t \in Tokens, Holds(t)', runs'[t].step = "rendered"
                 PROVE  Holds(t) /\ runs'[t] = runs[t] /\ edits'[runs[t].edit] = edits[runs[t].edit]
      BY RenderedKept
    <3>1. t # tokens + 1 /\ runs'[t] = runs[t]
      BY <1>17, <2>2 DEF ClaimSave, NoRun, RunsType
    <3>2. runs[t].edit \in Saves
      BY <3>1, HolderType, NoRunType
    <3>3. runs[t].edit # e
      BY <1>17, <3>1 DEF Holds, ClaimSave, EditsType, EditRows
    <3> QED BY <1>17, <3>1, <3>2, <3>3 DEF Holds, ClaimSave, EditsType
  <2> QED BY <2>1, <2>3, <2>4, <2>5, <2>6
<1>18. ASSUME NEW e \in Saves, SilentSave(e)
      PROVE  Types' /\ Sound'
  <2>1. JobType' /\ HeadType' /\ LocksType' /\ PubsType' /\ AgentType' /\ Started'
    BY <1>18 DEF Started, JobType, HeadType, LocksType, PubsType, AgentType, SilentSave
  <2>2. EditsType' /\ RunsType'
    <3>1. [edits[e] EXCEPT !.silent = TRUE] \in EditRows
      BY SilentRow DEF EditsType
    <3>2. edits' = [edits EXCEPT ![e] = [edits[e] EXCEPT !.silent = TRUE]]
      BY <1>18 DEF SilentSave
    <3>3. EditsType'
      BY <3>1, <3>2 DEF EditsType
    <3> QED BY <1>18, <3>3 DEF RunsType, SilentSave
  <2>3. Posted'
    BY <1>18, PostedKept DEF SilentSave, Open, EditsType, EditRows
  <2>4. Rendered'
    BY <1>18, RenderedKept, HolderType, NoRunType DEF SilentSave, Holds, EditsType, EditRows
  <2> QED BY <2>1, <2>2, <2>3, <2>4
<1>19. ASSUME NEW t \in Tokens, Rejected(t)
      PROVE  Types' /\ Sound'
  <2>1. JobType' /\ HeadType' /\ LocksType' /\ PubsType' /\ AgentType' /\ Started'
    BY <1>19 DEF Started, JobType, HeadType, LocksType, PubsType, AgentType, Rejected
  <2>2. EditsType' /\ RunsType' /\ Posted' /\ Rendered'
    BY <1>19, EndsKept DEF Rejected
  <2> QED BY <2>1, <2>2
<1>20. ASSUME NEW t \in Tokens, LoseEditor(t)
      PROVE  Types' /\ Sound'
  <2>1. JobType' /\ HeadType' /\ LocksType' /\ PubsType' /\ AgentType' /\ Started'
    BY <1>20 DEF Started, JobType, HeadType, LocksType, PubsType, AgentType, LoseEditor
  <2>2. EditsType' /\ RunsType' /\ Posted' /\ Rendered'
    BY <1>20, EndsKept DEF LoseEditor
  <2> QED BY <2>1, <2>2
<1>21. ASSUME NEW t \in Tokens, TaskChanged(t)
      PROVE  Types' /\ Sound'
  <2>1. JobType' /\ HeadType' /\ LocksType' /\ PubsType' /\ AgentType' /\ Started'
    BY <1>21 DEF Started, JobType, HeadType, LocksType, PubsType, AgentType, TaskChanged, FailSave
  <2>2. EditsType' /\ RunsType' /\ Posted' /\ Rendered'
    BY <1>21, EndsKept, HolderRuns DEF TaskChanged, FailSave
  <2> QED BY <2>1, <2>2
<1>22. ASSUME NEW t \in Tokens, GiveUp(t)
      PROVE  Types' /\ Sound'
  <2>1. JobType' /\ HeadType' /\ LocksType' /\ PubsType' /\ AgentType' /\ Started'
    BY <1>22 DEF Started, JobType, HeadType, LocksType, PubsType, AgentType, GiveUp, FailSave
  <2>2. EditsType' /\ RunsType' /\ Posted' /\ Rendered'
    BY <1>22, EndsKept, HolderRuns DEF GiveUp, FailSave
  <2> QED BY <2>1, <2>2
<1>23. ASSUME NEW t \in Tokens, CannotSave(t)
      PROVE  Types' /\ Sound'
  <2>1. JobType' /\ HeadType' /\ LocksType' /\ PubsType' /\ AgentType' /\ Started'
    BY <1>23 DEF Started, JobType, HeadType, LocksType, PubsType, AgentType, CannotSave, FailSave
  <2>2. EditsType' /\ RunsType' /\ Posted' /\ Rendered'
    BY <1>23, EndsKept, HolderRuns DEF CannotSave, FailSave
  <2> QED BY <2>1, <2>2
<1>24. ASSUME NEW t \in Tokens, ReadBase(t)
      PROVE  Types' /\ Sound'
  <2>1. JobType' /\ HeadType' /\ LocksType' /\ PubsType' /\ AgentType' /\ Started'
    BY <1>24 DEF Started, JobType, HeadType, LocksType, PubsType, AgentType, ReadBase
  <2> DEFINE e == runs[t].edit
  <2>2. e \in Saves /\ runs[t] # NoRun
    BY <1>24, HolderRuns DEF ReadBase
  <2>3. (IF Progressive(e) THEN LiveHead(edits[e].producer) ELSE edits[e].base) \in Decks \cup {None}
    BY <2>2 DEF LiveHead, HeadType, EditsType, EditRows
  <2>4. EditsType' /\ RunsType'
    <3> DEFINE deck == IF Progressive(e) THEN LiveHead(edits[e].producer) ELSE edits[e].base
    <3>1. [edits[e] EXCEPT !.silent = FALSE] \in EditRows
      BY <2>2, SilentRow DEF EditsType
    <3>2. [runs[t] EXCEPT !.step = "rendered", !.parent = deck] \in RunRecords
      BY <2>2, <2>3, RenderedRun DEF RunsType
    <3>3. /\ edits' = [edits EXCEPT ![e] = [edits[e] EXCEPT !.silent = FALSE]]
          /\ runs' = [runs EXCEPT ![t] = [runs[t] EXCEPT !.step = "rendered", !.parent = deck]]
      BY <1>24 DEF ReadBase
    <3>4. EditsType'
      BY <3>1, <3>3 DEF EditsType
    <3>5. RunsType'
      BY <1>24, <3>2, <3>3 DEF RunsType, ReadBase
    <3> QED BY <3>4, <3>5
  <2>5. Posted'
    BY <1>24, <2>2, PostedKept DEF ReadBase, Open, EditsType, EditRows
  <2>6. Rendered'
    <3> SUFFICES ASSUME NEW u \in Tokens, Holds(u)', runs'[u].step = "rendered", ~Progressive(runs[u].edit)'
                 PROVE  runs'[u].parent = edits'[runs'[u].edit].base
      BY DEF Rendered
    <3>1. CASE u = t
      BY <1>24, <2>2, <3>1 DEF ReadBase, Progressive, RunsType, EditsType, RunRecords, EditRows
    <3>2. CASE u # t
      <4>1. runs'[u] = runs[u]
        BY <1>24, <3>2 DEF ReadBase, RunsType
      <4>2. runs[u].edit \in Saves
        BY <4>1, HolderType, NoRunType
      <4>3. /\ edits'[runs[u].edit].base = edits[runs[u].edit].base
            /\ edits'[runs[u].edit].producer = edits[runs[u].edit].producer
            /\ edits'[runs[u].edit].status = edits[runs[u].edit].status
            /\ edits'[runs[u].edit].token = edits[runs[u].edit].token
        BY <1>24, <2>2, <4>2 DEF ReadBase, EditsType, EditRows
      <4> QED BY <4>1, <4>3 DEF Rendered, Holds, Progressive
    <3> QED BY <3>1, <3>2
  <2> QED BY <2>1, <2>4, <2>5, <2>6
<1>25. ASSUME NEW t \in Tokens, Finish(t)
      PROVE  Types' /\ Sound'
  <2> DEFINE e == runs[t].edit
             S == edits[e].pages
             deck == Over(runs[t].parent, S, e)
  <2>1. e \in Saves /\ Open(e) /\ runs[t] # NoRun /\ S \in SUBSET Pages
    BY <1>25, HolderRuns DEF Finish, EditsType, EditRows
  <2>2. EditsType' /\ RunsType' /\ Posted' /\ Rendered'
    BY <1>25, <2>1, EndsKept DEF Finish
  <2>3. PubsType' /\ AgentType' /\ LocksType'
    <3>1. Over(locks, S, e) \in [Pages -> Saves \cup {None}] /\ Over(newest, S, e) \in [Pages -> Saves \cup {None}]
      BY <2>1, OverLocksType DEF LocksType
    <3>2. LocksType'
      BY <1>25, <3>1 DEF LocksType, Finish
    <3>3. PubsType'
      BY <1>25 DEF PubsType, Finish
    <3>4. AgentType'
      BY <1>25, <2>1 DEF AgentType, Finish
    <3> QED BY <3>2, <3>3, <3>4
  <2>4. CASE Progressive(e)
    <3>1. head.lease = edits[e].producer /\ head.lease # 0 /\ runs[t].parent = head.deck
      BY <1>25, <2>4 DEF Finish, Mergeable, Progressive
    <3>2. deck \in Decks
      BY <2>1, <3>1, OverDeckType DEF HeadType
    <3> QED BY <1>25, <2>2, <2>3, <2>4, <3>1, <3>2 DEF Finish, JobType, HeadType, Started
  <2>5. CASE ~Progressive(e)
    <3>1. runs[t].parent \in Decks
      BY <1>25, <2>1, <2>5 DEF Finish, Rendered, Posted
    <3>2. deck \in Decks
      BY <2>1, <3>1, OverDeckType
    <3> QED BY <1>25, <2>1, <2>2, <2>3, <2>5, <3>2 DEF Finish, JobType, HeadType, Started
  <2> QED BY <2>4, <2>5
<1>26. ASSUME NEW t \in Tokens, Retry(t)
      PROVE  Types' /\ Sound'
  <2>1. JobType' /\ HeadType' /\ LocksType' /\ PubsType' /\ AgentType' /\ Started'
    BY <1>26 DEF Started, JobType, HeadType, LocksType, PubsType, AgentType, Retry
  <2> DEFINE e == runs[t].edit
  <2>2. e \in Saves /\ runs[t] # NoRun
    BY <1>26, HolderRuns DEF Retry
  <2>3. EditsType' /\ RunsType'
    <3>1. runs[t].tries + 1 \in 0 .. MaxTries
      BY <1>26, <2>2, HolderType DEF Retry
    <3>2. [edits[e] EXCEPT !.silent = FALSE] \in EditRows
      BY <2>2, SilentRow DEF EditsType
    <3>3. [runs[t] EXCEPT !.step = "claimed", !.parent = None, !.tries = runs[t].tries + 1] \in RunRecords
      BY <2>2, <3>1, RetriedRun DEF RunsType
    <3>4. EditsType'
      BY <1>26, <3>2 DEF EditsType, Retry
    <3>5. RunsType'
      <4>1. runs' = [runs EXCEPT ![t] = [runs[t] EXCEPT !.step = "claimed", !.parent = None, !.tries = runs[t].tries + 1]]
        BY <1>26 DEF Retry
      <4> QED BY <1>26, <3>3, <4>1 DEF RunsType, Retry
    <3> QED BY <3>4, <3>5
  <2>4. Posted'
    BY <1>26, <2>2, PostedKept DEF Retry, Open, EditsType, EditRows
  <2>5. Rendered'
    <3> SUFFICES ASSUME NEW u \in Tokens, Holds(u)', runs'[u].step = "rendered"
                 PROVE  /\ Holds(u) /\ runs'[u] = runs[u]
                        /\ edits'[runs[u].edit].base = edits[runs[u].edit].base
                        /\ edits'[runs[u].edit].producer = edits[runs[u].edit].producer
      BY RenderedKept
    <3>1. u # t /\ runs'[u] = runs[u]
      BY <1>26, <2>2, HolderType DEF Retry, RunsType
    <3>2. runs[u].edit \in Saves
      BY <3>1, HolderType, NoRunType
    <3> QED BY <1>26, <2>2, <3>1, <3>2 DEF Holds, Retry, EditsType, EditRows
  <2> QED BY <2>1, <2>3, <2>4, <2>5
<1>27. CASE UNCHANGED vars
  BY <1>27, EditingKept DEF vars, Started, JobType, HeadType, LocksType, PubsType, AgentType
<1> QED BY <1>1, <1>2, <1>3, <1>4, <1>5, <1>6, <1>7, <1>8, <1>9, <1>10, <1>11, <1>12, <1>13, <1>14, <1>15, <1>16, <1>17, <1>18, <1>19, <1>20, <1>21, <1>22, <1>23, <1>24, <1>25, <1>26, <1>27 DEF Next, Execute

\* Every variable keeps to its set.
THEOREM CanvasTypeCorrect == Spec => []TypeOK
<1> QED BY SoundInit, SoundStep, PTL DEF Spec

(***************************************************************************)
(* Attempts                                                                *)
(***************************************************************************)

LEMMA HeadOnlyGrows == TypeOK /\ Sound /\ [Next]_vars => head'.lease >= head.lease
<1> SUFFICES ASSUME TypeOK, Sound, [Next]_vars PROVE head'.lease >= head.lease
  OBVIOUS
<1>1. head.lease \in Nat /\ lease \in Nat /\ head.lease <= lease
  BY TypeParts DEF JobType, HeadType, Leases, Sound, Started
<1>2. ASSUME NEW l \in Leases, Publish(l)
      PROVE  head' = head \/ head'.lease = lease
  BY <1>2 DEF Publish, MayPublish
<1>3. CASE Adopt
  BY <1>1, <1>3 DEF Adopt
<1>4. ASSUME NEW t \in Tokens, Finish(t)
      PROVE  head' = head \/ head' = [head EXCEPT !.deck = Over(runs[t].parent, edits[runs[t].edit].pages, runs[t].edit)]
  BY <1>4 DEF Finish, canvas
<1>5. ASSUME NEW t \in Tokens, Finish(t)
      PROVE  head'.lease = head.lease
  BY <1>4, <1>5, TypeParts DEF HeadType
<1>6. CASE /\ ~Adopt
           /\ ~\E l \in Leases : Publish(l)
           /\ ~\E t \in Tokens : Finish(t)
  <2>1. head' = head
    BY <1>6 DEF Next, Execute, vars, canvas, Claim, Release, Poll, Freeze, Apply, SendBack, Deliver, DropSaves,
       Author, ReadLocks, ReadHead, AbandonPublication, Save, Ask, ClaimSave, SilentSave, Rejected,
       TaskChanged, FailSave, ReadBase, Retry, GiveUp, CannotSave, LoseEditor
  <2> QED BY <1>1, <2>1
<1> QED BY <1>1, <1>2, <1>3, <1>5, <1>6

\* The publication of an attempt that was given up, and that arrives after its
\* successor has shown something, changes nothing.
THEOREM CanvasNoOlderAttemptPublishes == Spec => NoOlderAttemptPublishes
<1>1. TypeOK /\ Sound /\ [Next]_vars => [head'.lease >= head.lease]_vars
  BY HeadOnlyGrows
<1> QED BY <1>1, SoundInit, SoundStep, PTL DEF Spec, NoOlderAttemptPublishes

(***************************************************************************)
(* What a save is laid over                                                *)
(***************************************************************************)

\* What happens to a save: it is posted, goes on as it was posted, or ends, and
\* it is complete only by Finish.
Continues(e) == /\ Open(e) /\ edits'[e].base = edits[e].base /\ edits'[e].pages = edits[e].pages
                /\ edits'[e].producer = edits[e].producer /\ edits'[e].key = edits[e].key
Goes(e) ==
  /\ Open(e)' => Continues(e) \/ \E base \in (sources \cup {result.deck}) \ {None}, S \in SUBSET Pages : Save(e, base, S)
  /\ edits[e].status = "complete" => edits'[e].status = "complete"
  /\ edits'[e].status = "complete" => edits[e].status = "complete" \/ \E t \in Tokens : Finish(t) /\ runs[t].edit = e

LEMMA SaveSteps ==
  ASSUME TypeOK, Sound, [Next]_vars, NEW e \in Saves
  PROVE  Goes(e)
<1>0. EditsType /\ RunsType
  BY TypeParts
<1> USE DEF Goes, Continues, Open
<1>1. CASE edits'[e] = edits[e]
  BY <1>1
<1>2. CASE edits'[e] = Ended("failed") /\ Open(e)
  BY <1>2, EndedType
<1>3. CASE DropSaves
  BY <1>0, <1>1, <1>2, <1>3 DEF DropSaves, Dropped, EditsType
<1>4. ASSUME NEW f \in Saves, NEW base \in (sources \cup {result.deck}) \ {None}, NEW S \in SUBSET Pages, Save(f, base, S)
      PROVE  Goes(e)
  <2>1. CASE f = e
    <3>1. JobType /\ HeadType /\ Started
      BY TypeParts DEF Sound
    <3>2. PICK row \in EditRows : edits' = [edits EXCEPT ![f] = row] /\ row.status = "queued"
      BY <1>4, <3>1, SavedRow
    <3>3. edits[e].status = "absent" /\ edits'[e].status = "queued"
      BY <1>0, <1>4, <2>1, <3>2 DEF Save, EditsType
    <3> QED BY <1>4, <2>1, <3>3
  <2>2. CASE f # e
    BY <1>0, <1>1, <1>4, <2>2 DEF Save, EditsType
  <2> QED BY <2>1, <2>2
<1>5. ASSUME NEW f \in Saves, ClaimSave(f) \/ SilentSave(f)
      PROVE  Goes(e)
  <2>1. CASE f = e
    BY <1>0, <1>5, <2>1 DEF ClaimSave, Claimable, SilentSave, EditsType, EditRows
  <2>2. CASE f # e
    BY <1>0, <1>1, <1>5, <2>2 DEF ClaimSave, SilentSave, EditsType
  <2> QED BY <2>1, <2>2
<1>6. ASSUME NEW t \in Tokens, ReadBase(t) \/ Retry(t)
      PROVE  Goes(e)
  <2>1. runs[t].edit \in Saves /\ edits[runs[t].edit].status = "running"
    BY <1>0, <1>6, HolderRuns DEF ReadBase, Retry, Holds
  <2>2. edits' = [edits EXCEPT ![runs[t].edit].silent = FALSE]
    BY <1>6 DEF ReadBase, Retry
  <2>3. CASE runs[t].edit = e
    BY <1>0, <2>1, <2>2, <2>3 DEF EditsType, EditRows
  <2>4. CASE runs[t].edit # e
    BY <1>0, <1>1, <2>2, <2>4 DEF EditsType
  <2> QED BY <2>3, <2>4
<1>7. ASSUME NEW t \in Tokens, TaskChanged(t) \/ GiveUp(t) \/ CannotSave(t)
      PROVE  Goes(e)
  <2>1. runs[t].edit \in Saves /\ Open(runs[t].edit)
    BY <1>0, <1>7, HolderRuns DEF TaskChanged, GiveUp, CannotSave
  <2>2. edits' = [edits EXCEPT ![runs[t].edit] = Ended("failed")]
    BY <1>7 DEF TaskChanged, GiveUp, CannotSave, FailSave
  <2> QED BY <1>0, <1>1, <1>2, <2>1, <2>2 DEF EditsType
<1>8. ASSUME NEW t \in Tokens, Finish(t)
      PROVE  Goes(e)
  <2>1. runs[t].edit \in Saves /\ Open(runs[t].edit)
    BY <1>0, <1>8, HolderRuns DEF Finish
  <2>2. edits' = [edits EXCEPT ![runs[t].edit] = Ended("complete")]
    BY <1>8 DEF Finish
  <2>3. CASE runs[t].edit = e
    BY <1>0, <1>8, <2>1, <2>2, <2>3, EndedType DEF EditsType
  <2>4. CASE runs[t].edit # e
    BY <1>0, <1>1, <2>2, <2>4 DEF EditsType
  <2> QED BY <2>3, <2>4
<1>9. CASE UNCHANGED edits
  BY <1>1, <1>9
<1>10. ASSUME Next, ~DropSaves,
              \A f \in Saves : ~ClaimSave(f) /\ ~SilentSave(f),
              \A f \in Saves, base \in (sources \cup {result.deck}) \ {None}, S \in SUBSET Pages : ~Save(f, base, S),
              \A t \in Tokens : ~(ReadBase(t) \/ Retry(t) \/ TaskChanged(t) \/ GiveUp(t) \/ CannotSave(t) \/ Finish(t))
       PROVE  UNCHANGED edits
  BY <1>10 DEF Next, Execute, editing, Claim, Release, Poll, Freeze, Apply, SendBack, Deliver, Adopt,
     Author, ReadLocks, ReadHead, Publish, AbandonPublication, Ask, Rejected, LoseEditor
<1> QED BY <1>3, <1>4, <1>5, <1>6, <1>7, <1>8, <1>9, <1>10 DEF vars, editing

\* One save is open at a time, and one of a delivered deck keeps naming the deck
\* it was made on.
OneOpen  == \A e, f \in Saves : Open(e) /\ Open(f) => e = f
KeyNames == \A e \in Saves :
              Open(e) /\ ~Progressive(e) /\ result.key = edits[e].key => result.deck = edits[e].base
Laid == OneOpen /\ KeyNames

\* The accepted revisions are messages of the owner or saves that were finished,
\* and a candidate answers none but those.
Heard    == \A e \in Saves : e \in told \cup pending => edits[e].status = "complete"
Answered == frozen # None => frozen.answers \subseteq told

\* A page that was locked after the freeze belongs to a revision the candidate
\* does not answer.
FrozenLocked ==
  frozen # None => \A p \in Pages : locks[p] # None /\ frozen.deck[p] # locks[p]
                                    => \E m \in pending : m \notin frozen.answers

LEMMA LaidInit == Init => Laid /\ Heard /\ Answered /\ FrozenLocked
BY DEF Init, Laid, OneOpen, KeyNames, Heard, Answered, FrozenLocked, Open, NoEdit

LEMMA LaidStep == TypeOK /\ Sound /\ Laid /\ [Next]_vars => Laid'
<1> SUFFICES ASSUME TypeOK, Sound, Laid, [Next]_vars PROVE Laid'
  OBVIOUS
<1> USE DEF Laid
<1>0. /\ JobType /\ HeadType /\ EditsType /\ RunsType /\ Started
      /\ \A e \in Saves : Goes(e)
  BY TypeParts, SaveSteps DEF Sound
<1>1. ASSUME NEW f \in Saves, NEW base \in (sources \cup {result.deck}) \ {None}, NEW S \in SUBSET Pages, Save(f, base, S)
      PROVE  Laid'
  <2>1. PICK row \in EditRows : /\ edits' = [edits EXCEPT ![f] = row]
                                /\ row.producer # 0 \/ row.base = result.deck
    BY <1>0, <1>1, SavedRow
  <2>2. \A e \in Saves : Open(e)' => e = f
    BY <1>0, <1>1, <2>1 DEF Save, NoneOpen, Open, EditsType
  <2>3. UNCHANGED result
    BY <1>1 DEF Save, job
  <2> QED BY <1>0, <2>1, <2>2, <2>3 DEF OneOpen, KeyNames, Progressive, EditsType
<1>2. CASE \A f \in Saves, base \in (sources \cup {result.deck}) \ {None}, S \in SUBSET Pages : ~Save(f, base, S)
  <2>1. \A e \in Saves : Open(e)' => Continues(e)
    BY <1>0, <1>2 DEF Goes
  <2>2. OneOpen'
    BY <2>1 DEF OneOpen, Continues
  <2>3. CASE UNCHANGED result
    BY <2>1, <2>2, <2>3 DEF KeyNames, Continues, Progressive
  <2>4. CASE Deliver
    BY <2>1, <2>2, <2>4 DEF Deliver, Deliverable, NoneOpen, KeyNames, Continues
  <2>5. ASSUME NEW t \in Tokens, Finish(t)
        PROVE  KeyNames'
    <3>1. PICK f \in Saves : f = runs[t].edit /\ Open(f)
      BY <1>0, <2>5, HolderRuns DEF Finish
    <3>2. ~Open(f)'
      <4>1. edits' = [edits EXCEPT ![f] = Ended("complete")] /\ Ended("complete").status = "complete"
        BY <2>5, <3>1, EndedType DEF Finish
      <4> QED BY <1>0, <4>1 DEF Open, EditsType
    <3>3. \A e \in Saves : ~Open(e)'
      BY <2>1, <3>1, <3>2 DEF OneOpen, Continues
    <3> QED BY <3>3 DEF KeyNames
  <2>6. UNCHANGED result \/ Deliver \/ \E t \in Tokens : Finish(t)
    BY <1>2 DEF Next, Execute, vars, job, Claim, Release, Poll, Freeze, Apply, SendBack, DropSaves, Adopt,
       Author, ReadLocks, ReadHead, Publish, AbandonPublication, Ask, ClaimSave, SilentSave, Rejected,
       TaskChanged, FailSave, ReadBase, Retry, GiveUp, CannotSave, LoseEditor
  <2> QED BY <2>2, <2>3, <2>4, <2>5, <2>6
<1> QED BY <1>1, <1>2

LEMMA SeenPages ==
  ASSUME TypeOK, Sound, Laid, [Next]_vars, NEW e \in Saves,
         edits[e].status = "running", edits'[e].status = "complete"
  PROVE  LET shown == IF Progressive(e) THEN head.deck ELSE result.deck
             after == IF Progressive(e) THEN head'.deck ELSE result'.deck
         IN  \A p \in Pages : IF p \in edits[e].pages THEN shown[p] = edits[e].base[p]
                                                     ELSE after[p] = shown[p]
<1>0. HeadType /\ JobType
  BY TypeParts
<1>1. PICK t \in Tokens : Finish(t) /\ runs[t].edit = e
  BY SaveSteps DEF Goes
<1>2. Open(e)
  BY DEF Open
<1> DEFINE S == edits[e].pages
           deck == Over(runs[t].parent, S, e)
<1>3. \A p \in Pages \ S : deck[p] = runs[t].parent[p]
  BY DEF Over
<1>4. CASE Progressive(e)
  <2>1. Mergeable(t) /\ head' = [head EXCEPT !.deck = deck]
    BY <1>1, <1>4 DEF Finish
  <2>2. head'.deck = deck
    BY <1>0, <2>1 DEF HeadType
  <2>3. head.deck = runs[t].parent /\ \A p \in S : edits[e].base[p] = head.deck[p]
    BY <1>1, <2>1 DEF Mergeable, Unchanged
  <2> QED BY <1>3, <1>4, <2>2, <2>3
<1>5. CASE ~Progressive(e)
  <2>1. result.deck = edits[e].base
    BY <1>1, <1>2, <1>5 DEF Finish, Based, Laid, KeyNames
  <2>2. runs[t].parent = edits[e].base
    BY <1>1, <1>5 DEF Finish, Sound, Rendered
  <2>3. result'.deck = deck
    BY <1>1, <1>5 DEF Finish
  <2> QED BY <1>3, <1>5, <2>1, <2>2, <2>3
<1> QED BY <1>4, <1>5

\* A save changes the pages its owner saw and chose, and only those, however the
\* deck moved between its request and its end.
THEOREM CanvasSavesTouchOnlySeenPages == Spec => SavesTouchOnlySeenPages
<1> DEFINE A == \A e \in Saves :
                  edits[e].status = "running" /\ edits'[e].status = "complete"
                    => LET shown == IF Progressive(e) THEN head.deck ELSE result.deck
                           after == IF Progressive(e) THEN head'.deck ELSE result'.deck
                       IN  \A p \in Pages : IF p \in edits[e].pages THEN shown[p] = edits[e].base[p]
                                                                   ELSE after[p] = shown[p]
<1>1. TypeOK /\ Sound /\ Laid /\ [Next]_vars => [A]_vars
  BY SeenPages
<1>2. Spec => [][A]_vars
  <2> HIDE DEF A
  <2> QED BY <1>1, SoundInit, SoundStep, LaidInit, LaidStep, PTL DEF Spec
<1> QED BY <1>2 DEF SavesTouchOnlySeenPages

(***************************************************************************)
(* What is delivered                                                       *)
(***************************************************************************)

LEMMA HeardStep == TypeOK /\ Sound /\ Heard /\ Answered /\ [Next]_vars => Heard' /\ Answered'
<1> SUFFICES ASSUME TypeOK, Sound, Heard, Answered, [Next]_vars PROVE Heard' /\ Answered'
  OBVIOUS
<1> USE DEF job, canvas, editing, agent
<1>0. /\ AgentType /\ RunsType /\ EditsType
      /\ \A e \in Saves : Goes(e)
  BY TypeParts, SaveSteps
<1>1. Heard'
  <2> SUFFICES ASSUME NEW e \in Saves, e \in told' \cup pending'
               PROVE  edits'[e].status = "complete"
    BY DEF Heard
  <2>1. CASE e \in told \cup pending
    BY <1>0, <2>1 DEF Heard, Goes
  <2>2. ASSUME NEW t \in Tokens, Finish(t), e \notin told \cup pending
        PROVE  edits'[e].status = "complete"
    <3>1. runs[t].edit = e
      BY <2>2 DEF Finish
    <3>2. edits' = [edits EXCEPT ![e] = Ended("complete")] /\ Ended("complete").status = "complete"
      BY <2>2, <3>1, EndedType DEF Finish
    <3> QED BY <1>0, <3>2 DEF EditsType
  <2>3. ASSUME NEW a \in Asks, NEW S \in SUBSET Pages, Ask(a, S)
        PROVE  e \in told \cup pending
    BY <2>3 DEF Ask
  <2>4. CASE Poll
    BY <2>4, <2>1 DEF Poll
  <2>5. CASE Apply
    BY <2>5, <2>1 DEF Apply
  <2>6. CASE UNCHANGED <<told, pending>>
    BY <2>1, <2>6
  <2>7. \/ Poll \/ Apply \/ UNCHANGED <<told, pending>>
        \/ \E t \in Tokens : Finish(t)
        \/ \E a \in Asks, S \in SUBSET Pages : Ask(a, S)
    BY DEF Next, Execute, vars, Claim, Release, Freeze, SendBack, Deliver, DropSaves, Adopt,
       Author, ReadLocks, ReadHead, Publish, AbandonPublication, Save, ClaimSave, SilentSave, Rejected,
       TaskChanged, FailSave, ReadBase, Retry, GiveUp, CannotSave, LoseEditor
  <2> QED BY <2>1, <2>2, <2>3, <2>4, <2>5, <2>6, <2>7
<1>2. Answered'
  <2>1. CASE frozen' = None
    BY <2>1 DEF Answered
  <2>2. CASE Freeze
    BY <2>2 DEF Freeze, Answered
  <2>3. CASE UNCHANGED <<frozen, told>>
    BY <2>3 DEF Answered
  <2>4. frozen' = None \/ Freeze \/ UNCHANGED <<frozen, told>>
    BY DEF Next, Execute, vars, Claim, Release, Poll, Apply, SendBack, Deliver, DropSaves, Adopt,
       Author, ReadLocks, ReadHead, Publish, AbandonPublication, Save, Ask, ClaimSave, SilentSave, Rejected,
       TaskChanged, FailSave, ReadBase, Retry, GiveUp, CannotSave, LoseEditor, Finish
  <2> QED BY <2>1, <2>2, <2>3, <2>4
<1> QED BY <1>1, <1>2

LEMMA FrozenLockedStep ==
  TypeOK /\ Sound /\ Heard /\ Answered /\ FrozenLocked /\ [Next]_vars => FrozenLocked'
<1> SUFFICES ASSUME TypeOK, Sound, Heard, Answered, FrozenLocked, [Next]_vars,
                    frozen' # None, NEW p \in Pages, locks'[p] # None, frozen'.deck[p] # locks'[p]
             PROVE  \E m \in pending' : m \notin frozen'.answers
  BY DEF FrozenLocked
<1> USE DEF job, canvas, editing, agent
<1>0. AgentType /\ RunsType /\ EditsType /\ LocksType
  BY TypeParts
<1>1. CASE Freeze
  <2>1. frozen'.deck = Graft(work, locks) /\ locks' = locks
    BY <1>1 DEF Freeze, Candidate
  <2> QED BY <2>1 DEF Graft
<1>2. CASE Apply
  <2>1. frozen # None /\ locks' = locks /\ frozen' = frozen /\ pending' = pending \ frozen.answers
    BY <1>2 DEF Apply
  <2> QED BY <2>1 DEF FrozenLocked
<1>3. ASSUME NEW t \in Tokens, Finish(t)
      PROVE  \E m \in pending' : m \notin frozen'.answers
  <2> DEFINE e == runs[t].edit
  <2>1. frozen' = frozen /\ pending' = pending \cup {e}
    BY <1>3 DEF Finish
  <2>2. e \in Saves /\ edits[e].status # "complete"
    BY <1>0, <1>3, HolderRuns DEF Finish, Open
  <2>3. e \notin frozen.answers
    BY <2>1, <2>2 DEF Heard, Answered
  <2> QED BY <2>1, <2>3
<1>4. ASSUME NEW a \in Asks, NEW S \in SUBSET Pages, Ask(a, S)
      PROVE  \E m \in pending' : m \notin frozen'.answers
  <2>1. frozen' = frozen /\ pending \subseteq pending' /\ locks'[p] = locks[p]
    BY <1>4 DEF Ask
  <2> QED BY <2>1 DEF FrozenLocked
<1>5. CASE UNCHANGED <<frozen, locks, pending>>
  BY <1>5 DEF FrozenLocked
<1>6. \/ Freeze \/ Apply \/ UNCHANGED <<frozen, locks, pending>>
      \/ \E t \in Tokens : Finish(t)
      \/ \E a \in Asks, S \in SUBSET Pages : Ask(a, S)
  BY DEF Next, Execute, vars, Claim, Release, Poll, SendBack, Deliver, DropSaves, Adopt,
     Author, ReadLocks, ReadHead, Publish, AbandonPublication, Save, ClaimSave, SilentSave, Rejected,
     TaskChanged, FailSave, ReadBase, Retry, GiveUp, CannotSave, LoseEditor
<1> QED BY <1>1, <1>2, <1>3, <1>4, <1>5, <1>6

LEMMA DeliveredStep ==
  TypeOK /\ Sound /\ FrozenLocked /\ DeliveredKeepsLocked /\ [Next]_vars => DeliveredKeepsLocked'
<1> SUFFICES ASSUME TypeOK, Sound, FrozenLocked, DeliveredKeepsLocked, [Next]_vars,
                    status' = "complete", result'.key \in Leases, NEW p \in Pages, locks'[p] # None
             PROVE  result'.deck[p] = locks'[p]
  BY DEF DeliveredKeepsLocked
<1> USE DEF job, canvas, editing, agent
<1>0. RunsType
  BY TypeParts
<1>1. CASE Deliver
  <2>1. frozen # None /\ pending = {} /\ locks' = locks /\ result'.deck = frozen.deck
    BY <1>1 DEF Deliver, Deliverable
  <2> QED BY <2>1 DEF FrozenLocked
<1>2. ASSUME NEW t \in Tokens, Finish(t)
      PROVE  result'.deck[p] = locks'[p]
  <2>1. runs[t].edit \in Saves
    BY <1>0, <1>2, HolderRuns DEF Finish
  <2>2. status = "complete" /\ Based(runs[t].edit)
    BY <1>2 DEF Finish
  <2>3. ~Progressive(runs[t].edit)
    BY <2>2 DEF Based
  <2>4. result'.key = runs[t].edit
    BY <1>2, <2>3 DEF Finish
  <2> QED BY <2>1, <2>4
<1>3. CASE UNCHANGED <<status, result, locks>>
  BY <1>3 DEF DeliveredKeepsLocked
<1>4. \/ Deliver \/ UNCHANGED <<status, result, locks>>
      \/ \E t \in Tokens : Finish(t)
  BY DEF Next, Execute, vars, Claim, Release, Poll, Freeze, Apply, SendBack, DropSaves, Adopt, Author,
     ReadLocks, ReadHead, Publish, AbandonPublication, Save, Ask, ClaimSave, SilentSave, Rejected,
     TaskChanged, FailSave, ReadBase, Retry, GiveUp, CannotSave, LoseEditor
<1> QED BY <1>1, <1>2, <1>3, <1>4

\* No page that its owner saved, and has not handed back, is missing from the deck
\* an attempt delivers, however the save and the review fell together.
THEOREM CanvasDeliveredKeepsLocked == Spec => []DeliveredKeepsLocked
<1>1. Init => DeliveredKeepsLocked
  BY DEF Init, DeliveredKeepsLocked
<1> QED BY <1>1, SoundInit, SoundStep, LaidInit, HeardStep, FrozenLockedStep, DeliveredStep, PTL DEF Spec

(***************************************************************************)
(* What an older lock costs                                                *)
(***************************************************************************)

\* A save of a delivered deck ends while one of its pages has a lock, which
\* nothing in that batch removes (worker/native-edits, finish).
LeavesLock ==
  \E e \in Saves :
    /\ edits[e].status = "running" /\ edits'[e].status = "complete" /\ ~Progressive(e)
    /\ \E p \in edits[e].pages : locks'[p] # None
NoLockLeft == [][~LeavesLock]_vars

\* A page that is locked is locked to its last save.
LocksAreNewest == \A p \in Pages : locks[p] \in {None, newest[p]}

LEMMA LocksAreNewestStep ==
  TypeOK /\ Sound /\ LocksAreNewest /\ [Next]_vars /\ [~LeavesLock]_vars => LocksAreNewest'
<1> SUFFICES ASSUME TypeOK, Sound, LocksAreNewest, [Next]_vars, [~LeavesLock]_vars, NEW p \in Pages
             PROVE  locks'[p] \in {None, newest'[p]}
  BY DEF LocksAreNewest
<1>0. RunsType /\ EditsType /\ LocksType
  BY TypeParts
<1>1. CASE UNCHANGED <<locks, newest>>
  BY <1>1 DEF LocksAreNewest
<1>2. ASSUME NEW a \in Asks, NEW S \in SUBSET Pages, Ask(a, S)
      PROVE  locks'[p] \in {None, newest'[p]}
  BY <1>2 DEF Ask, LocksAreNewest
<1>3. ASSUME NEW t \in Tokens, Finish(t)
      PROVE  locks'[p] \in {None, newest'[p]}
  <2> DEFINE e == runs[t].edit
  <2>1. e \in Saves /\ edits[e].status = "running"
    BY <1>0, <1>3, HolderRuns DEF Finish, Holds
  <2>2. newest' = Over(newest, edits[e].pages, e)
    BY <1>3 DEF Finish
  <2>3. CASE Progressive(e) /\ locks' = Over(locks, edits[e].pages, e)
    BY <2>2, <2>3 DEF Over, LocksAreNewest
  <2>4. CASE ~Progressive(e) /\ locks' = locks
    <3>1. edits' = [edits EXCEPT ![e] = Ended("complete")] /\ Ended("complete").status = "complete"
      BY <1>3, EndedType DEF Finish
    <3>2. edits'[e].status = "complete" /\ edits' # edits
      BY <1>0, <2>1, <3>1 DEF EditsType
    <3>3. ~LeavesLock
      BY <3>2 DEF vars, editing
    <3>4. p \in edits[e].pages => locks[p] = None
      BY <2>1, <2>4, <3>2, <3>3 DEF LeavesLock
    <3> QED BY <2>2, <2>4, <3>4 DEF Over, LocksAreNewest
  <2> QED BY <1>3, <2>3, <2>4 DEF Finish, canvas
<1>4. \/ UNCHANGED <<locks, newest>>
      \/ \E t \in Tokens : Finish(t)
      \/ \E a \in Asks, S \in SUBSET Pages : Ask(a, S)
  BY DEF Next, Execute, vars, canvas, Claim, Release, Poll, Freeze, Apply, SendBack, Deliver, DropSaves, Adopt,
     Author, ReadLocks, ReadHead, Publish, AbandonPublication, Save, ClaimSave, SilentSave, Rejected,
     TaskChanged, FailSave, ReadBase, Retry, GiveUp, CannotSave, LoseEditor
<1> QED BY <1>1, <1>2, <1>3, <1>4

\* That lock is the only way to the stale candidate: as long as no save of a
\* delivered deck leaves one, a candidate shows every page the agent has kept as
\* its owner last saved it.
THEOREM NoLockLeftNoStalePage == Spec /\ NoLockLeft => CandidateKeepsNewestSave
<1> DEFINE A == \A p \in Pages : Freeze /\ newest[p] # None /\ work[p] = newest[p]
                                   => frozen'.deck[p] = newest[p]
<1>1. Init => LocksAreNewest
  BY DEF Init, NoLocks, LocksAreNewest
<1>2. LocksAreNewest => A
  BY DEF LocksAreNewest, Freeze, Candidate, Graft
<1>3. Spec /\ NoLockLeft => [][A]_vars
  <2> HIDE DEF A
  <2> QED BY <1>1, <1>2, SoundInit, SoundStep, LocksAreNewestStep, PTL DEF Spec, NoLockLeft
<1> QED BY <1>3 DEF CandidateKeepsNewestSave
=============================================================================
