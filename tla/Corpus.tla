------------------------------- MODULE Corpus -------------------------------
(***************************************************************************)
(* What ingestion and re-embedding do to the corpus: the rows of           *)
(* documents, document_chunks and chunk_embeddings under concurrent calls  *)
(* of run_source (ingestion/pipeline.py) and reembed_all_chunks            *)
(* (ingestion/reembed.py).  An action is what happens between two points   *)
(* where another transaction can act: taking a row lock, a COMMIT, the     *)
(* wait for the embedding provider.  A transaction's writes are kept with  *)
(* its call (plan, wrote) until it commits; the row locks that hide them   *)
(* are modelled by WaitsFor.  A content_hash is the text it is taken of.   *)
(*                                                                         *)
(* A definition whose name starts with Mut is the definition after it with *)
(* a plausible bug; the properties are shown to catch it.                  *)
(***************************************************************************)
EXTENDS Naturals, Sequences, FiniteSets

CONSTANTS
  Calls,     \* calls of run_source and reembed_all_chunks
  Docs,      \* paths of the source, numbered in sorted order
  MaxChunks, \* most chunks a file may have (bound of the model)
  Texts,     \* contents a chunk may have
  Heads,     \* heading paths a chunk may have
  Files,     \* what a fetch may find at a path
  Models,    \* embedding models an operator may configure
  None       \* no row, no text, no model

ASSUME SizeAssumption == Docs \subseteq Nat /\ MaxChunks \in Nat

Idx == 1..MaxChunks
(* A path is missing from the fetch, unreadable ("garbled": not UTF-8, or  *)
(* oversize frontmatter), without chunks ("empty"), or parses into chunks. *)
Kinds == {"absent", "garbled", "empty", "doc"}
Chunk == [text : Texts, head : Heads]
ASSUME FilesAssumption ==
  \A f \in Files :
    /\ f.kind \in Kinds
    /\ f.chunks \in Seq(Chunk)
    /\ Len(f.chunks) \in Idx \cup {0}
    /\ f.kind = "doc" => Len(f.chunks) > 0

VARIABLES
  chunk,  \* chunk[d][i]: the committed row, its text None when there is none
  emb,    \* emb[d][i]: the committed embedding of that row
  pc,     \* pc[c]: where call c is
  call,   \* call[c]: its kind, its provider's model, the files it fetched
  todo,   \* todo[c]: paths still to process, then documents still to write
  open,   \* open[c]: documents whose row c has locked
  plan,   \* plan[c][d][i]: the row c's transaction has written there, or None
  got,    \* got[c][d][i]: the row c read to embed
  ok,     \* ok[c]: slots the provider returned a vector for
  wrote,  \* wrote[c]: documents whose vectors c's transaction has upserted
  errs,   \* errs[c]: summary.errors is not empty
  alone   \* history: no other call has been active during c

tables == <<chunk, emb>>
locals == <<pc, call, todo, open, plan, got, ok, wrote, errs, alone>>
vars == <<tables, locals>>

Row     == [id : Nat, text : Texts \cup {None}, head : Heads \cup {None}]
NoRow   == [id |-> 0, text |-> None, head |-> None]
NoRows  == [i \in Idx |-> NoRow]
NoWrites == [d \in Docs |-> [i \in Idx |-> None]]
Vector  == [vec : Texts \cup {None}, hash : Texts \cup {None},
            model : Models \cup {None}]
NoVector == [vec |-> None, hash |-> None, model |-> None]
NoCall  == [kind |-> "none", model |-> None, files |-> [d \in Docs |-> None]]
ASSUME NoneAssumption == None \notin Texts \cup Heads \cup Models \cup Files \cup Row
PCs     == {"idle", "files", "gathered", "embed", "write"}
             \cup {"done", "raised", "aborted"}

Slots        == Docs \X Idx
Exists(row)  == row.text # None
Active(c)    == pc[c] \notin {"idle", "done", "raised", "aborted"}
Next1(S)     == CHOOSE d \in S : \A e \in S : d <= e
Goto(c, l)   == pc' = [pc EXCEPT ![c] = l]
Wanted(c)    == {s \in Slots : Exists(got[c][s[1]][s[2]])}
Returned(c, d) == {i \in Idx : <<d, i>> \in ok[c]}

----------------------------------------------------------------------------
(* Row locks.  IndexChunks deletes rows whose vector another transaction   *)
(* may have upserted, WriteVectors upserts vectors of rows another one may *)
(* have deleted, both wait.                                                *)

Deletes(c, d) ==
  {i \in Idx : plan[c][d][i] # None /\ ~Exists(plan[c][d][i])}
Holds(c, d) == {i \in Idx : d \in wrote[c] /\ i \in Returned(c, d)}

LocksRow(c, d)   == d \in open[c]
Drops(c, d)      == {i \in Idx : /\ Exists(chunk[d][i])
                                 /\ i > Len(call[c].files[d].chunks)}
DeleteWaits(c, d, q) == Drops(c, d) \cap Holds(q, d) # {}
UpsertWaits(c, d, q) == Returned(c, d) \cap (Holds(q, d) \cup Deletes(q, d)) # {}
(* run_source writes in the order of a set, reembed in that of its SELECT. *)
MayWrite(c, d) ==
  d \in todo[c] /\ (call[c].kind = "reembed" => d = Next1(todo[c]))

WaitsFor(c) ==
  {q \in Calls \ {c} :
     \/ /\ pc[c] = "files" /\ todo[c] # {}
        /\ LET d == Next1(todo[c])
           IN  \/ d \notin open[c] /\ LocksRow(q, d)
               \/ d \in open[c] /\ DeleteWaits(c, d, q)
     \/ /\ pc[c] = "write"
        /\ \E d \in Docs : MayWrite(c, d) /\ UpsertWaits(c, d, q)}

(* A smallest set of calls each of which waits for another of them.        *)
Stuck(S) == S # {} /\ \A c \in S : WaitsFor(c) \cap S # {}
InCycle(c) == \E S \in SUBSET Calls :
  c \in S /\ Stuck(S) /\ \A T \in SUBSET S : Stuck(T) => T = S

----------------------------------------------------------------------------
(* What one fetched file makes of a document's rows (_process_file): a row *)
(* whose hash is unchanged is left as it is, another is upserted on        *)
(* (document, index) and keeps its id, rows beyond the file are deleted.   *)

Indexed(rows, f) ==
  [i \in Idx |->
     IF i > Len(f.chunks) THEN [id |-> rows[i].id, text |-> None, head |-> None]
     ELSE IF rows[i].text = f.chunks[i].text THEN rows[i]
     ELSE [id   |-> IF Exists(rows[i]) THEN rows[i].id ELSE rows[i].id + 1,
           text |-> f.chunks[i].text, head |-> f.chunks[i].head]]

Writes(rows, f) ==
  [i \in Idx |-> IF Indexed(rows, f)[i] = rows[i] THEN None ELSE Indexed(rows, f)[i]]

(* The rows as c's transaction sees them, committed when it is, and the    *)
(* embeddings that survive it: deleting a chunk cascades to its vector.    *)
Rows(c) == [d \in Docs |-> [i \in Idx |->
  IF plan[c][d][i] = None THEN chunk[d][i] ELSE plan[c][d][i]]]
MutUpserted(c, d, i) ==
  [vec |-> got[c][d][i].text, hash |-> chunk[d][i].text, model |-> call[c].model]
Upserted(c, d, i) ==
  [vec |-> got[c][d][i].text, hash |-> got[c][d][i].text, model |-> call[c].model]
Vectors(c, rows) ==
  [d \in Docs |-> [i \in Idx |->
     IF ~Exists(rows[d][i]) THEN NoVector
     ELSE IF i \in Holds(c, d) THEN Upserted(c, d, i) ELSE emb[d][i]]]

MutEnd(c, l) ==
  /\ Goto(c, l)
  /\ call' = [call EXCEPT ![c] = NoCall]
  /\ todo' = [todo EXCEPT ![c] = {}]
  /\ got'  = [got EXCEPT ![c] = [d \in Docs |-> NoRows]]
  /\ ok'   = [ok EXCEPT ![c] = {}]
  /\ wrote' = [wrote EXCEPT ![c] = {}]
  /\ errs' = [errs EXCEPT ![c] = FALSE]
  /\ alone' = [alone EXCEPT ![c] = FALSE]
  /\ UNCHANGED <<open, plan>>
(* A call ends: its locks and what it kept in memory are gone.             *)
End(c, l) ==
  /\ Goto(c, l)
  /\ call' = [call EXCEPT ![c] = NoCall]
  /\ todo' = [todo EXCEPT ![c] = {}]
  /\ open' = [open EXCEPT ![c] = {}]
  /\ plan' = [plan EXCEPT ![c] = NoWrites]
  /\ got'  = [got EXCEPT ![c] = [d \in Docs |-> NoRows]]
  /\ ok'   = [ok EXCEPT ![c] = {}]
  /\ wrote' = [wrote EXCEPT ![c] = {}]
  /\ errs' = [errs EXCEPT ![c] = FALSE]
  /\ alone' = [alone EXCEPT ![c] = FALSE]
Rollback(c, l) == End(c, l) /\ UNCHANGED tables

Begin(c, how) ==
  /\ pc[c] = "idle"
  /\ call' = [call EXCEPT ![c] = how]
  /\ alone' = [q \in Calls |-> IF q = c THEN \A p \in Calls : ~Active(p)
                                        ELSE alone[q] /\ ~Active(q)]

----------------------------------------------------------------------------
(* run_source, the part that touches the corpus.                           *)

Init ==
  /\ \/ chunk = [d \in Docs |-> NoRows] /\ emb = [d \in Docs |-> [i \in Idx |-> NoVector]]
     \/ \E fs \in [Docs -> Files], m \in Models :   \* as a finished run leaves it
          /\ chunk = [d \in Docs |-> IF fs[d].kind = "doc" THEN Indexed(NoRows, fs[d])
                                                           ELSE NoRows]
          /\ emb = [d \in Docs |-> [i \in Idx |->
               IF Exists(chunk[d][i])
                 THEN [vec |-> chunk[d][i].text, hash |-> chunk[d][i].text, model |-> m]
                 ELSE NoVector]]
  /\ pc = [c \in Calls |-> "idle"]
  /\ call = [c \in Calls |-> NoCall]
  /\ todo = [c \in Calls |-> {}]
  /\ open = [c \in Calls |-> {}]
  /\ plan = [c \in Calls |-> NoWrites]
  /\ got = [c \in Calls |-> [d \in Docs |-> NoRows]]
  /\ ok = [c \in Calls |-> {}]
  /\ wrote = [c \in Calls |-> {}]
  /\ errs = [c \in Calls |-> FALSE]
  /\ alone = [c \in Calls |-> FALSE]

(* The run's row is committed and the source fetched, in one gulp: a clone *)
(* is of one commit, and a local walk does not yield.                      *)
StartRun(c) ==
  /\ \E m \in Models \cup {None}, fs \in [Docs -> Files] :
       /\ Begin(c, [kind |-> "ingest", model |-> m, files |-> fs])
       /\ todo' = [todo EXCEPT ![c] = {d \in Docs : fs[d].kind # "absent"}]
  /\ Goto(c, "files")
  /\ UNCHANGED <<tables, open, plan, got, ok, wrote, errs>>

(* Unreadable files are errors of the summary, files without chunks only   *)
(* warnings; either way the document's rows stay as they were.             *)
SkipFile(c, d) ==
  /\ pc[c] = "files" /\ todo[c] # {} /\ d = Next1(todo[c])
  /\ call[c].files[d].kind \in {"garbled", "empty"}
  /\ errs' = [errs EXCEPT ![c] = errs[c] \/ call[c].files[d].kind = "garbled"]
  /\ todo' = [todo EXCEPT ![c] = todo[c] \ {d}]
  /\ UNCHANGED <<tables, pc, call, open, plan, got, ok, wrote, alone>>

MutUpsertDocument(c, d) ==
  /\ pc[c] = "files" /\ todo[c] # {} /\ d = Next1(todo[c]) /\ d \notin open[c]
  /\ call[c].files[d].kind = "doc"
  /\ open' = [open EXCEPT ![c] = open[c] \cup {d}]
  /\ UNCHANGED <<tables, pc, call, todo, plan, got, ok, wrote, errs, alone>>
(* INSERT ... ON CONFLICT DO UPDATE locks the document's row until COMMIT; *)
(* the rows read next are the committed ones.                              *)
UpsertDocument(c, d) ==
  /\ pc[c] = "files" /\ todo[c] # {} /\ d = Next1(todo[c]) /\ d \notin open[c]
  /\ call[c].files[d].kind = "doc"
  /\ \A q \in Calls \ {c} : ~LocksRow(q, d)
  /\ open' = [open EXCEPT ![c] = open[c] \cup {d}]
  /\ UNCHANGED <<tables, pc, call, todo, plan, got, ok, wrote, errs, alone>>

IndexChunks(c, d) ==
  /\ pc[c] = "files" /\ d \in todo[c] \cap open[c]
  /\ \A q \in Calls \ {c} : ~DeleteWaits(c, d, q)
  /\ plan' = [plan EXCEPT ![c][d] = Writes(chunk[d], call[c].files[d])]
  /\ todo' = [todo EXCEPT ![c] = todo[c] \ {d}]
  /\ UNCHANGED <<tables, pc, call, open, got, ok, wrote, errs, alone>>

(* No provider, or no document touched: straight to the run's last UPDATE. *)
SkipEmbedding(c) ==
  /\ pc[c] = "files" /\ todo[c] = {}
  /\ call[c].model = None \/ open[c] = {}
  /\ Goto(c, "write")
  /\ UNCHANGED <<tables, call, todo, open, plan, got, ok, wrote, errs, alone>>

MutGather(c) ==
  /\ pc[c] = "files" /\ todo[c] = {}
  /\ call[c].model # None /\ open[c] # {}
  /\ got' = [got EXCEPT ![c] = [d \in Docs |-> [i \in Idx |->
       IF d \in open[c] /\ emb[d][i] = NoVector THEN Rows(c)[d][i] ELSE NoRow]]]
  /\ Goto(c, "gathered")
  /\ UNCHANGED <<tables, call, todo, open, plan, ok, wrote, errs, alone>>
(* _gather_chunks_needing_embed: rows of the touched documents whose hash  *)
(* is not the one on their embedding.                                      *)
Gather(c) ==
  /\ pc[c] = "files" /\ todo[c] = {}
  /\ call[c].model # None /\ open[c] # {}
  /\ got' = [got EXCEPT ![c] = [d \in Docs |-> [i \in Idx |->
       IF d \in open[c] /\ Rows(c)[d][i].text # emb[d][i].hash
         THEN Rows(c)[d][i] ELSE NoRow]]]
  /\ Goto(c, "gathered")
  /\ UNCHANGED <<tables, call, todo, open, plan, ok, wrote, errs, alone>>

MutCommitChunks(c) ==
  /\ pc[c] = "gathered"
  /\ Goto(c, IF Wanted(c) = {} THEN "write" ELSE "embed")
  /\ UNCHANGED <<tables, call, todo, open, plan, got, ok, wrote, errs, alone>>
(* The COMMIT before the provider is awaited.                              *)
CommitChunks(c) ==
  /\ pc[c] = "gathered"
  /\ chunk' = Rows(c)
  /\ emb' = Vectors(c, Rows(c))
  /\ open' = [open EXCEPT ![c] = {}]
  /\ plan' = [plan EXCEPT ![c] = NoWrites]
  /\ Goto(c, IF Wanted(c) = {} THEN "write" ELSE "embed")
  /\ UNCHANGED <<call, todo, got, ok, wrote, errs, alone>>

(* The provider's answer.  Any batch may fail (batch_size can be 1).  When *)
(* all do, run_source notes the error and ends its run; reembed raises.    *)
Embed(c) ==
  /\ pc[c] = "embed"
  /\ \E vs \in SUBSET Wanted(c) :
       IF vs = {} /\ call[c].kind = "reembed" THEN Rollback(c, "raised")
       ELSE /\ ok' = [ok EXCEPT ![c] = vs]
            /\ todo' = [todo EXCEPT ![c] = {d \in Docs : \E i \in Idx : <<d, i>> \in vs}]
            /\ errs' = [errs EXCEPT ![c] = errs[c] \/ vs # Wanted(c)]
            /\ Goto(c, "write")
            /\ UNCHANGED <<tables, call, open, plan, got, wrote, alone>>

StillThere(c, d) == \A i \in Returned(c, d) :
  Exists(chunk[d][i]) /\ chunk[d][i].id = got[c][d][i].id

(* _write_embeddings, one document's vectors: rows of one document are     *)
(* always taken by index, so only the order of documents can matter.  The  *)
(* rows are those read before the wait.  A row deleted since violates the  *)
(* foreign key; run_source catches that, but its last UPDATE then fails in *)
(* the aborted transaction and raises.                                     *)
WriteVectors(c, d) ==
  /\ pc[c] = "write" /\ MayWrite(c, d)
  /\ \A q \in Calls \ {c} : ~UpsertWaits(c, d, q)
  /\ IF StillThere(c, d)
       THEN /\ wrote' = [wrote EXCEPT ![c] = wrote[c] \cup {d}]
            /\ todo' = [todo EXCEPT ![c] = todo[c] \ {d}]
            /\ UNCHANGED <<tables, pc, call, open, plan, got, ok, errs, alone>>
       ELSE Rollback(c, "raised")

(* The run's last UPDATE, or the end of reembed's block: the COMMIT.       *)
Finish(c) ==
  /\ pc[c] = "write" /\ todo[c] = {}
  /\ chunk' = Rows(c)
  /\ emb' = Vectors(c, Rows(c))
  /\ End(c, "done")

(* reembed reads every row and writes every vector in one transaction.     *)
StartReembed(c) ==
  /\ \E m \in Models :
       Begin(c, [kind |-> "reembed", model |-> m, files |-> [d \in Docs |-> None]])
  /\ got' = [got EXCEPT ![c] = [d \in Docs |-> [i \in Idx |->
       IF Exists(chunk[d][i]) THEN chunk[d][i] ELSE NoRow]]]
  /\ Goto(c, IF \E s \in Slots : Exists(chunk[s[1]][s[2]]) THEN "embed" ELSE "write")
  /\ UNCHANGED <<tables, todo, open, plan, ok, wrote, errs>>

(* The process dies, or an exception (a commit that fails, a provider that *)
(* cannot be closed, a deadlock of which this call is the victim) rolls    *)
(* the transaction back.                                                   *)
Crash(c) == Active(c) /\ Rollback(c, "aborted")
(* Of these, the one that Postgres does bring about when there is a cycle  *)
(* of lock waits.                                                          *)
DeadlockVictim(c) == InCycle(c) /\ Rollback(c, "aborted")

Rest == (\A c \in Calls : pc[c] \in {"done", "raised", "aborted"}) /\ UNCHANGED vars

Steps(c) ==
  \/ \E d \in Docs : \/ SkipFile(c, d) \/ UpsertDocument(c, d) \/ IndexChunks(c, d)
                     \/ WriteVectors(c, d)
  \/ SkipEmbedding(c) \/ Gather(c) \/ CommitChunks(c) \/ Embed(c) \/ Finish(c)

Next ==
  \/ \E c \in Calls : StartRun(c) \/ StartReembed(c) \/ Steps(c) \/ Crash(c)
  \/ Rest

Spec == Init /\ [][Next]_vars
(* A coroutine that can go on is resumed, the provider answers or times    *)
(* out, and Postgres detects deadlocks.                                    *)
FairSpec == Spec /\ \A c \in Calls :
  WF_vars(Steps(c)) /\ WF_vars(DeadlockVictim(c))

----------------------------------------------------------------------------
TypeOK ==
  /\ chunk \in [Docs -> [Idx -> Row]]
  /\ emb \in [Docs -> [Idx -> Vector]]
  /\ pc \in [Calls -> PCs]
  /\ call \in [Calls -> [kind : {"none", "ingest", "reembed"},
                         model : Models \cup {None}, files : [Docs -> Files \cup {None}]]]
  /\ todo \in [Calls -> SUBSET Docs]
  /\ open \in [Calls -> SUBSET Docs]
  /\ plan \in [Calls -> [Docs -> [Idx -> Row \cup {None}]]]
  /\ got \in [Calls -> [Docs -> [Idx -> Row]]]
  /\ ok \in [Calls -> SUBSET Slots]
  /\ wrote \in [Calls -> SUBSET Docs]
  /\ errs \in [Calls -> BOOLEAN]
  /\ alone \in [Calls -> BOOLEAN]

(* An embedding whose hash is its chunk's is of that chunk's text: what    *)
(* the pipeline's skip of unchanged hashes relies on (#18), although text, *)
(* hash and vector are read, computed and written in three transactions.   *)
CurrentHashMeansCurrentVector ==
  \A d \in Docs, i \in Idx :
    Exists(chunk[d][i]) /\ emb[d][i].hash = chunk[d][i].text
      => emb[d][i].vec = chunk[d][i].text

TextsOf(rows) == [i \in Idx |-> rows[i].text]
TextsIn(f)    == [i \in Idx |-> IF i <= Len(f.chunks) THEN f.chunks[i].text ELSE None]

(* A document's chunks are those of one version of its file: two runs of   *)
(* one source, row by row upserts and deletes, never mix two versions.     *)
DocumentIsOneVersion ==
  \A d \in Docs :
    \/ TextsOf(chunk[d]) = [i \in Idx |-> None]
    \/ \E f \in Files : f.kind = "doc" /\ TextsOf(chunk[d]) = TextsIn(f)

(* The inductive invariant.  Between its first upsert and its COMMIT a     *)
(* transaction owns the rows of the documents it has opened, in the order  *)
(* of their paths, so the rows it compared a file with are those it        *)
(* changes; while it waits for the provider it owns nothing.               *)
VectorsNamed == \A d \in Docs, i \in Idx : emb[d][i].vec = emb[d][i].hash
LocksExclusive == \A c, q \in Calls : c # q => open[c] \cap open[q] = {}
LocksInOrder ==
  \A c \in Calls : pc[c] = "files" => \A d \in open[c], e \in todo[c] : d <= e
PhaseHolds ==
  \A c \in Calls :
    /\ pc[c] # "write" => wrote[c] = {}
    /\ pc[c] \notin {"files", "gathered", "write"} => open[c] = {}
    /\ pc[c] = "gathered" \/ (pc[c] = "write" /\ open[c] # {}) => todo[c] = {}
FilesKnown ==
  \A c \in Calls : pc[c] = "files" \/ open[c] # {} =>
    /\ call[c].files \in [Docs -> Files]
    /\ \A d \in open[c] : call[c].files[d].kind = "doc"
WritesFit ==
  \A c \in Calls, d \in Docs :
    /\ d \notin open[c] \/ d \in todo[c] => plan[c][d] = NoWrites[d]
    /\ d \in open[c] \ todo[c] => TextsOf(Rows(c)[d]) = TextsIn(call[c].files[d])
CorpusInv ==
  /\ TypeOK
  /\ VectorsNamed
  /\ LocksExclusive
  /\ LocksInOrder
  /\ PhaseHolds
  /\ FilesKnown
  /\ WritesFit
  /\ DocumentIsOneVersion

(* Files come in sorted order from every fetch, so that runs which index   *)
(* the same documents never wait for each other's document rows.           *)
NoDocumentDeadlock ==
  \A c, q \in Calls :
    c # q /\ pc[c] = "files" /\ pc[q] = "files" /\ todo[c] # {} /\ todo[q] # {}
      => ~ (LocksRow(q, Next1(todo[c])) /\ LocksRow(c, Next1(todo[q])))

(* No transaction waits for one that awaits the provider (#239, #286).     *)
NobodyWaitsForTheProvider ==
  \A c, q \in Calls : q \in WaitsFor(c) => pc[q] # "embed"

Settled(rows, vectors, f) ==
  /\ TextsOf(rows) = TextsIn(f)
  /\ \A i \in Idx : vectors[i].vec = rows[i].text

(* An undisturbed run that reports success leaves every document it could  *)
(* read as it fetched it, each chunk with a vector of its present text.    *)
QuietRunSettles ==
  [][\A c \in Calls :
       /\ pc[c] = "write" /\ pc'[c] = "done"
       /\ call[c].kind = "ingest" /\ call[c].model # None /\ alone[c] /\ ~errs[c]
       => \A d \in Docs : call[c].files[d].kind = "doc"
                            => Settled(chunk'[d], emb'[d], call[c].files[d])]_vars

(* Every call ends, whatever locks it meets.                               *)
EveryCallEnds == \A c \in Calls : Active(c) ~> ~Active(c)

(* The comment in run_source: "the embed pass raises only when EVERY batch *)
(* failed, which means no partial-success work is at risk".                *)
EmbedPassRaisesOnlyInVain ==
  [][\A c \in Calls : call[c].kind = "ingest" /\ pc'[c] = "raised"
       => pc[c] = "embed"]_vars
=============================================================================
