---------------------------- MODULE CorpusProofs ----------------------------
(***************************************************************************)
(* Invariance proofs for Corpus, for any number of calls, documents and    *)
(* chunks, any set of texts, models and files.                             *)
(***************************************************************************)
EXTENDS Corpus, NaturalsInduction, WellFoundedInduction, TLAPS

(* A fetched file's chunks are typed; a document has at most MaxChunks.    *)
LEMMA FileChunks ==
  ASSUME NEW f \in Files, NEW i \in Idx, ~(i > Len(f.chunks))
  PROVE  f.chunks[i].text \in Texts /\ f.chunks[i].head \in Heads
<1>1. f.chunks \in Seq(Chunk)
  BY FilesAssumption
<1>2. i \in 1..Len(f.chunks)
  BY <1>1, SizeAssumption DEF Idx
<1>3. f.chunks[i] \in Chunk
  BY <1>1, <1>2
<1>4. QED
  BY <1>3 DEF Chunk

(* Indexing a file leaves rows whose texts are the file's.                 *)
LEMMA IndexedRows ==
  ASSUME NEW rows \in [Idx -> Row], NEW f \in Files
  PROVE  /\ Indexed(rows, f) \in [Idx -> Row]
         /\ TextsOf(Indexed(rows, f)) = TextsIn(f)
<1>1. ASSUME NEW i \in Idx
      PROVE  /\ Indexed(rows, f)[i] \in Row
             /\ Indexed(rows, f)[i].text = TextsIn(f)[i]
  <2>1. rows[i] \in Row /\ rows[i].id \in Nat /\ rows[i].id + 1 \in Nat
    BY DEF Row
  <2>2. f.chunks \in Seq(Chunk)
    BY FilesAssumption
  <2>3. CASE i > Len(f.chunks)
    <3>1. ~(i <= Len(f.chunks))
      BY <2>2, <2>3 DEF Idx
    <3>2. QED
      BY <2>1, <2>3, <3>1 DEF Indexed, TextsIn, Row
  <2>4. CASE ~(i > Len(f.chunks))
    <3>1. i <= Len(f.chunks)
      BY <2>2, <2>4 DEF Idx
    <3>2. QED
      BY <2>1, <2>4, <3>1, FileChunks DEF Indexed, TextsIn, Row, Exists
  <2>5. QED
    BY <2>3, <2>4
<1>2. Indexed(rows, f) = [i \in Idx |-> Indexed(rows, f)[i]]
  BY DEF Indexed
<1>3. QED
  BY <1>1, <1>2 DEF TextsOf, TextsIn

(* What a transaction writes, laid over the rows it read, is the index of  *)
(* the file.                                                               *)
LEMMA WritesOverlay ==
  ASSUME NEW rows \in [Idx -> Row], NEW f \in Files
  PROVE  /\ Writes(rows, f) \in [Idx -> Row \cup {None}]
         /\ [i \in Idx |-> IF Writes(rows, f)[i] = None THEN rows[i]
                           ELSE Writes(rows, f)[i]] = Indexed(rows, f)
<1>1. /\ Indexed(rows, f) \in [Idx -> Row]
      /\ None \notin Row
  BY IndexedRows, NoneAssumption
<1>2. \A i \in Idx : Writes(rows, f)[i] = (IF Indexed(rows, f)[i] = rows[i] THEN None
                                           ELSE Indexed(rows, f)[i])
  BY DEF Writes
<1>3. Writes(rows, f) = [i \in Idx |-> Writes(rows, f)[i]]
  BY DEF Writes
<1>4. ASSUME NEW i \in Idx
      PROVE  /\ Writes(rows, f)[i] \in Row \cup {None}
             /\ (IF Writes(rows, f)[i] = None THEN rows[i] ELSE Writes(rows, f)[i])
                  = Indexed(rows, f)[i]
  BY <1>1, <1>2
<1>5. Indexed(rows, f) = [i \in Idx |-> Indexed(rows, f)[i]]
  BY <1>1
<1>6. Writes(rows, f) \in [Idx -> Row \cup {None}]
  BY <1>3, <1>4
<1>7. QED
  BY <1>4, <1>5, <1>6

(* The rows a transaction sees are rows; it sees the committed ones of the *)
(* documents it has written nothing of.                                    *)
LEMMA RowsSeen ==
  ASSUME TypeOK, NEW c \in Calls
  PROVE  /\ Rows(c) \in [Docs -> [Idx -> Row]]
         /\ \A d \in Docs : plan[c][d] = NoWrites[d] => Rows(c)[d] = chunk[d]
<1>1. \A d \in Docs, i \in Idx : Rows(c)[d][i] \in Row
  BY DEF TypeOK, Rows
<1>2. Rows(c) \in [Docs -> [Idx -> Row]]
  BY <1>1 DEF Rows
<1>3. ASSUME NEW d \in Docs, plan[c][d] = NoWrites[d]
      PROVE  Rows(c)[d] = chunk[d]
  <2>1. \A i \in Idx : Rows(c)[d][i] = chunk[d][i]
    BY <1>3 DEF Rows, NoWrites
  <2>2. chunk[d] \in [Idx -> Row] /\ Rows(c)[d] \in [Idx -> Row]
    BY <1>2 DEF TypeOK
  <2>3. QED
    BY <2>1, <2>2
<1>4. QED
  BY <1>2, <1>3

(* The embeddings a COMMIT leaves are typed, and named if those before it  *)
(* are.                                                                    *)
LEMMA VectorsLeft ==
  ASSUME TypeOK, NEW c \in Calls, NEW rows
  PROVE  /\ Vectors(c, rows) \in [Docs -> [Idx -> Vector]]
         /\ VectorsNamed => \A d \in Docs, i \in Idx :
              Vectors(c, rows)[d][i].vec = Vectors(c, rows)[d][i].hash
<1>1. ASSUME NEW d \in Docs, NEW i \in Idx
      PROVE  /\ Upserted(c, d, i) \in Vector
             /\ Upserted(c, d, i).vec = Upserted(c, d, i).hash
  <2>1. got[c][d][i] \in Row /\ call[c].model \in Models \cup {None}
    BY DEF TypeOK
  <2>2. got[c][d][i].text \in Texts \cup {None}
    BY <2>1 DEF Row
  <2>3. QED
    BY <2>1, <2>2 DEF Upserted, Vector
<1>2. NoVector \in Vector /\ NoVector.vec = NoVector.hash
  BY DEF NoVector, Vector
<1>3. \A d \in Docs, i \in Idx : emb[d][i] \in Vector
  BY DEF TypeOK
<1>4. ASSUME NEW d \in Docs, NEW i \in Idx
      PROVE  Vectors(c, rows)[d][i] \in {NoVector, Upserted(c, d, i), emb[d][i]}
  BY DEF Vectors
<1>5. \A d \in Docs, i \in Idx : Vectors(c, rows)[d][i] \in Vector
  BY <1>1, <1>2, <1>3, <1>4
<1>6. Vectors(c, rows) \in [Docs -> [Idx -> Vector]]
  BY <1>5 DEF Vectors
<1>7. ASSUME VectorsNamed, NEW d \in Docs, NEW i \in Idx
      PROVE  Vectors(c, rows)[d][i].vec = Vectors(c, rows)[d][i].hash
  BY <1>1, <1>2, <1>4, <1>7 DEF VectorsNamed
<1>8. QED
  BY <1>6, <1>7

(* Ending a call resets what it kept and leaves the other calls alone.     *)
LEMMA EndTyped ==
  ASSUME TypeOK, NEW c \in Calls, NEW l \in {"done", "raised", "aborted"}, End(c, l)
  PROVE  /\ pc' \in [Calls -> PCs] /\ pc'[c] = l
         /\ call' \in [Calls -> [kind : {"none", "ingest", "reembed"},
              model : Models \cup {None}, files : [Docs -> Files \cup {None}]]]
         /\ todo' \in [Calls -> SUBSET Docs] /\ todo'[c] = {}
         /\ open' \in [Calls -> SUBSET Docs] /\ open'[c] = {}
         /\ plan' \in [Calls -> [Docs -> [Idx -> Row \cup {None}]]]
         /\ plan'[c] = NoWrites
         /\ got' \in [Calls -> [Docs -> [Idx -> Row]]]
         /\ ok' \in [Calls -> SUBSET Slots]
         /\ wrote' \in [Calls -> SUBSET Docs] /\ wrote'[c] = {}
         /\ errs' \in [Calls -> BOOLEAN]
         /\ alone' \in [Calls -> BOOLEAN]
         /\ \A q \in Calls \ {c} :
              /\ pc'[q] = pc[q] /\ call'[q] = call[q] /\ todo'[q] = todo[q]
              /\ open'[q] = open[q] /\ plan'[q] = plan[q] /\ wrote'[q] = wrote[q]
<1>1. [d \in Docs |-> NoRows] \in [Docs -> [Idx -> Row]]
  BY DEF NoRows, NoRow, Row
<1>2. NoWrites \in [Docs -> [Idx -> Row \cup {None}]]
  BY DEF NoWrites
<1>3. NoCall \in [kind : {"none", "ingest", "reembed"},
              model : Models \cup {None}, files : [Docs -> Files \cup {None}]]
  BY DEF NoCall
<1>4. l \in PCs
  BY DEF PCs
<1>5. got' \in [Calls -> [Docs -> [Idx -> Row]]]
  BY <1>1 DEF End, TypeOK
<1>6. /\ plan' \in [Calls -> [Docs -> [Idx -> Row \cup {None}]]]
      /\ plan'[c] = NoWrites /\ \A q \in Calls \ {c} : plan'[q] = plan[q]
  BY <1>2 DEF End, TypeOK
<1>7. /\ call' \in [Calls -> [kind : {"none", "ingest", "reembed"},
              model : Models \cup {None}, files : [Docs -> Files \cup {None}]]]
      /\ \A q \in Calls \ {c} : call'[q] = call[q]
  BY <1>3 DEF End, TypeOK
<1>8. pc' \in [Calls -> PCs] /\ pc'[c] = l /\ \A q \in Calls \ {c} : pc'[q] = pc[q]
  BY <1>4 DEF End, TypeOK, Goto
<1>9. QED
  BY <1>5, <1>6, <1>7, <1>8 DEF End, TypeOK

(* A call that starts is recorded as such.                                 *)
LEMMA BeginTyped ==
  ASSUME TypeOK, NEW c \in Calls, NEW how, Begin(c, how),
         how \in [kind : {"none", "ingest", "reembed"}, model : Models \cup {None},
                  files : [Docs -> Files \cup {None}]]
  PROVE  /\ call' \in [Calls -> [kind : {"none", "ingest", "reembed"},
              model : Models \cup {None}, files : [Docs -> Files \cup {None}]]]
         /\ call'[c] = how
         /\ \A q \in Calls \ {c} : call'[q] = call[q]
         /\ alone' \in [Calls -> BOOLEAN]
<1>1. \A q \in Calls : alone'[q] \in BOOLEAN
  BY DEF Begin, TypeOK
<1>2. QED
  BY <1>1 DEF Begin, TypeOK

(* A call that starts keeps the types.                                     *)
LEMMA StartTyped ==
  ASSUME TypeOK, NEW c \in Calls, StartRun(c) \/ StartReembed(c)
  PROVE  TypeOK'
<1>1. CASE StartRun(c)
  <2>1. PICK m \in Models \cup {None}, fs \in [Docs -> Files] :
          /\ Begin(c, [kind |-> "ingest", model |-> m, files |-> fs])
          /\ todo' = [todo EXCEPT ![c] = {d \in Docs : fs[d].kind # "absent"}]
    BY <1>1 DEF StartRun
  <2>2. [kind |-> "ingest", model |-> m, files |-> fs] \in
          [kind : {"none", "ingest", "reembed"}, model : Models \cup {None},
           files : [Docs -> Files \cup {None}]]
    OBVIOUS
  <2>3. QED
    BY <1>1, <2>1, <2>2, BeginTyped DEF TypeOK, StartRun, Goto, PCs, tables
<1>2. CASE StartReembed(c)
  <2>1. PICK m \in Models :
          Begin(c, [kind |-> "reembed", model |-> m, files |-> [d \in Docs |-> None]])
    BY <1>2 DEF StartReembed
  <2>2. [kind |-> "reembed", model |-> m, files |-> [d \in Docs |-> None]] \in
          [kind : {"none", "ingest", "reembed"}, model : Models \cup {None},
           files : [Docs -> Files \cup {None}]]
    OBVIOUS
  <2>3. [d \in Docs |-> [i \in Idx |->
          IF Exists(chunk[d][i]) THEN chunk[d][i] ELSE NoRow]] \in [Docs -> [Idx -> Row]]
    BY DEF TypeOK, NoRow, Row
  <2>4. got' \in [Calls -> [Docs -> [Idx -> Row]]]
    BY <1>2, <2>3 DEF TypeOK, StartReembed
  <2>5. QED
    BY <1>2, <2>1, <2>2, <2>4, BeginTyped DEF TypeOK, StartReembed, Goto, PCs, tables
<1>3. QED
  BY <1>1, <1>2

(* The stages of _process_file keep the types.                             *)
LEMMA IndexTyped ==
  ASSUME TypeOK, NEW c \in Calls, NEW d \in Docs, FilesKnown,
         SkipFile(c, d) \/ UpsertDocument(c, d) \/ IndexChunks(c, d)
  PROVE  TypeOK'
<1>1. CASE SkipFile(c, d)
  BY <1>1 DEF TypeOK, SkipFile, tables
<1>2. CASE UpsertDocument(c, d)
  BY <1>2 DEF TypeOK, UpsertDocument, tables
<1>3. CASE IndexChunks(c, d)
  <2>1. call[c].files[d] \in Files
    BY <1>3 DEF IndexChunks, FilesKnown
  <2>2. Writes(chunk[d], call[c].files[d]) \in [Idx -> Row \cup {None}]
    BY <2>1, WritesOverlay DEF TypeOK
  <2>3. plan' \in [Calls -> [Docs -> [Idx -> Row \cup {None}]]]
    BY <1>3, <2>2 DEF TypeOK, IndexChunks
  <2>4. QED
    BY <1>3, <2>3 DEF TypeOK, IndexChunks, tables
<1>4. QED
  BY <1>1, <1>2, <1>3

(* The stages up to the COMMIT before the provider keep the types.         *)
LEMMA GatherTyped ==
  ASSUME TypeOK, NEW c \in Calls, SkipEmbedding(c) \/ Gather(c) \/ CommitChunks(c)
  PROVE  TypeOK'
<1>1. CASE SkipEmbedding(c)
  BY <1>1 DEF TypeOK, SkipEmbedding, Goto, PCs, tables
<1>2. CASE Gather(c)
  <2>1. [d \in Docs |-> [i \in Idx |->
          IF d \in open[c] /\ Rows(c)[d][i].text # emb[d][i].hash
            THEN Rows(c)[d][i] ELSE NoRow]] \in [Docs -> [Idx -> Row]]
    BY RowsSeen DEF NoRow, Row
  <2>2. got' \in [Calls -> [Docs -> [Idx -> Row]]]
    BY <1>2, <2>1 DEF TypeOK, Gather
  <2>3. QED
    BY <1>2, <2>2 DEF TypeOK, Gather, Goto, PCs, tables
<1>3. CASE CommitChunks(c)
  <2>1. NoWrites \in [Docs -> [Idx -> Row \cup {None}]]
    BY DEF NoWrites
  <2>2. plan' \in [Calls -> [Docs -> [Idx -> Row \cup {None}]]]
    BY <1>3, <2>1 DEF TypeOK, CommitChunks
  <2>3. chunk' \in [Docs -> [Idx -> Row]] /\ emb' \in [Docs -> [Idx -> Vector]]
    BY <1>3, RowsSeen, VectorsLeft DEF CommitChunks
  <2>4. QED
    BY <1>3, <2>2, <2>3 DEF TypeOK, CommitChunks, Goto, PCs
<1>4. QED
  BY <1>1, <1>2, <1>3

(* A rollback keeps the types.                                             *)
LEMMA RollbackTyped ==
  ASSUME TypeOK, NEW c \in Calls, NEW l \in {"raised", "aborted"}, Rollback(c, l)
  PROVE  TypeOK'
BY EndTyped DEF Rollback, TypeOK, tables

(* The stages after the COMMIT keep the types.                             *)
LEMMA WriteTyped ==
  ASSUME TypeOK, NEW c \in Calls,
         Embed(c) \/ (\E d \in Docs : WriteVectors(c, d)) \/ Finish(c)
  PROVE  TypeOK'
<1>1. CASE Embed(c)
  <2>1. PICK vs \in SUBSET Wanted(c) :
          IF vs = {} /\ call[c].kind = "reembed" THEN Rollback(c, "raised")
          ELSE /\ ok' = [ok EXCEPT ![c] = vs]
               /\ todo' = [todo EXCEPT ![c] = {d \in Docs : \E i \in Idx : <<d, i>> \in vs}]
               /\ errs' = [errs EXCEPT ![c] = errs[c] \/ vs # Wanted(c)]
               /\ Goto(c, "write")
               /\ UNCHANGED <<tables, call, open, plan, got, wrote, alone>>
    BY <1>1 DEF Embed
  <2>2. vs \subseteq Slots
    BY DEF Wanted
  <2>3. CASE vs = {} /\ call[c].kind = "reembed"
    BY <2>1, <2>3, RollbackTyped
  <2>4. CASE ~(vs = {} /\ call[c].kind = "reembed")
    <3> DEFINE T == {d \in Docs : \E i \in Idx : <<d, i>> \in vs}
    <3>1. /\ todo' = [todo EXCEPT ![c] = T] /\ ok' = [ok EXCEPT ![c] = vs]
          /\ T \in SUBSET Docs /\ vs \in SUBSET Slots
      BY <2>1, <2>2, <2>4
    <3> HIDE DEF T
    <3>2. todo' \in [Calls -> SUBSET Docs] /\ ok' \in [Calls -> SUBSET Slots]
      BY <3>1 DEF TypeOK
    <3>3. (errs[c] \/ vs # Wanted(c)) \in BOOLEAN
      OBVIOUS
    <3>4. errs' \in [Calls -> BOOLEAN]
      BY <2>1, <2>4, <3>3, Zenon DEF TypeOK
    <3>5. QED
      BY <2>1, <2>4, <3>2, <3>4 DEF TypeOK, Goto, PCs, tables
  <2>5. QED
    BY <2>3, <2>4
<1>2. ASSUME NEW d \in Docs, WriteVectors(c, d)
      PROVE  TypeOK'
  <2>1. CASE StillThere(c, d)
    <3>1. /\ wrote' = [wrote EXCEPT ![c] = wrote[c] \cup {d}]
          /\ todo' = [todo EXCEPT ![c] = todo[c] \ {d}]
          /\ UNCHANGED <<tables, pc, call, open, plan, got, ok, errs, alone>>
      BY <1>2, <2>1 DEF WriteVectors
    <3>2. QED
      BY <3>1 DEF TypeOK, tables
  <2>2. CASE ~StillThere(c, d)
    BY <1>2, <2>2, RollbackTyped DEF WriteVectors
  <2>3. QED
    BY <2>1, <2>2
<1>3. CASE Finish(c)
  <2>1. chunk' \in [Docs -> [Idx -> Row]] /\ emb' \in [Docs -> [Idx -> Vector]]
    BY <1>3, RowsSeen, VectorsLeft DEF Finish
  <2>2. QED
    BY <1>3, <2>1, EndTyped DEF Finish, TypeOK
<1>4. QED
  BY <1>1, <1>2, <1>3

(* A transaction sees a document as before while neither its writes nor    *)
(* the committed rows change.                                              *)
LEMMA RowsKept ==
  ASSUME NEW q \in Calls, NEW d \in Docs, plan'[q][d] = plan[q][d], chunk'[d] = chunk[d]
  PROVE  Rows(q)'[d] = Rows(q)[d]
BY DEF Rows

Owned == /\ LocksExclusive /\ LocksInOrder /\ PhaseHolds /\ FilesKnown /\ WritesFit

(* Ending a call disturbs no other, since a commit changes the rows of     *)
(* documents that the call alone has opened.                               *)
LEMMA EndOwned ==
  ASSUME TypeOK, Owned, NEW c \in Calls, NEW l \in {"done", "raised", "aborted"}, End(c, l),
         \A d \in Docs \ open[c] : chunk'[d] = chunk[d]
  PROVE  Owned'
<1> USE DEF Owned
<1>1. /\ pc'[c] = l /\ open'[c] = {} /\ plan'[c] = NoWrites /\ wrote'[c] = {}
      /\ todo'[c] = {}
      /\ \A q \in Calls \ {c} :
           /\ pc'[q] = pc[q] /\ call'[q] = call[q] /\ todo'[q] = todo[q]
           /\ open'[q] = open[q] /\ plan'[q] = plan[q] /\ wrote'[q] = wrote[q]
  BY EndTyped
<1>2. LocksExclusive'
  BY <1>1 DEF LocksExclusive
<1>3. LocksInOrder'
  BY <1>1 DEF LocksInOrder
<1>4. PhaseHolds'
  BY <1>1 DEF PhaseHolds
<1>5. FilesKnown'
  BY <1>1 DEF FilesKnown
<1>6. ASSUME NEW q \in Calls, NEW d \in Docs
      PROVE  /\ d \notin open'[q] \/ d \in todo'[q] => plan'[q][d] = NoWrites[d]
             /\ d \in open'[q] \ todo'[q]
                  => TextsOf(Rows(q)'[d]) = TextsIn(call'[q].files[d])
  <2>1. CASE q = c
    BY <1>1, <2>1
  <2>2. CASE q # c
    <3>1. d \in open[q] => d \notin open[c]
      BY <2>2 DEF LocksExclusive
    <3>2. d \in open[q] => Rows(q)'[d] = Rows(q)[d]
      BY <1>1, <2>2, <3>1, RowsKept
    <3>3. QED
      BY <1>1, <2>2, <3>2 DEF WritesFit
  <2>3. QED
    BY <2>1, <2>2
<1>7. WritesFit'
  BY <1>6 DEF WritesFit, TextsOf, NoWrites
<1>8. QED
  BY <1>2, <1>3, <1>4, <1>5, <1>7

(* Committing what a call wrote: the documents it opened become its files, *)
(* the others stay.                                                        *)
LEMMA CommitRows ==
  ASSUME TypeOK, Owned, NEW c \in Calls, todo[c] = {}, chunk' = Rows(c)
  PROVE  /\ \A d \in Docs \ open[c] : chunk'[d] = chunk[d]
         /\ DocumentIsOneVersion => DocumentIsOneVersion'
<1>1. ASSUME NEW d \in Docs \ open[c]
      PROVE  chunk'[d] = chunk[d]
  BY <1>1, RowsSeen DEF Owned, WritesFit
<1>2. ASSUME NEW d \in open[c]
      PROVE  /\ call[c].files[d] \in Files /\ call[c].files[d].kind = "doc"
             /\ TextsOf(chunk'[d]) = TextsIn(call[c].files[d])
  <2>1. d \in Docs
    BY DEF TypeOK
  <2>2. QED
    BY <2>1 DEF Owned, WritesFit, FilesKnown
<1>3. ASSUME DocumentIsOneVersion, NEW d \in Docs
      PROVE  \/ TextsOf(chunk'[d]) = [i \in Idx |-> None]
             \/ \E f \in Files : f.kind = "doc" /\ TextsOf(chunk'[d]) = TextsIn(f)
  BY <1>1, <1>2, <1>3 DEF DocumentIsOneVersion
<1>4. DocumentIsOneVersion => DocumentIsOneVersion'
  BY <1>3 DEF DocumentIsOneVersion, TextsOf
<1>5. QED
  BY <1>1, <1>4

(* A transaction rolled back gives up its locks and what it wrote.         *)
LEMMA RollbackInv ==
  ASSUME CorpusInv, NEW c \in Calls, NEW l \in {"raised", "aborted"}, Rollback(c, l)
  PROVE  CorpusInv'
<1>1. Owned'
  BY EndOwned DEF CorpusInv, Owned, Rollback, tables
<1>2. VectorsNamed' /\ DocumentIsOneVersion'
  BY DEF CorpusInv, Rollback, tables, VectorsNamed, DocumentIsOneVersion, TextsOf
<1>3. QED
  BY <1>1, <1>2, RollbackTyped DEF CorpusInv, Owned

(* A call starts without locks.                                            *)
LEMMA StartInv ==
  ASSUME CorpusInv, NEW c \in Calls, StartRun(c) \/ StartReembed(c)
  PROVE  CorpusInv'
<1>1. TypeOK'
  BY StartTyped DEF CorpusInv
<1>2. /\ UNCHANGED <<chunk, emb, open, plan, wrote>>
      /\ pc[c] = "idle" /\ open[c] = {} /\ wrote[c] = {}
      /\ pc'[c] \in {"files", "embed", "write"}
      /\ \A q \in Calls \ {c} : /\ call'[q] = call[q] /\ todo'[q] = todo[q]
                                /\ pc'[q] = pc[q]
  <2>1. pc[c] = "idle" /\ UNCHANGED <<chunk, emb, open, plan, wrote>>
    BY DEF StartRun, StartReembed, Begin, tables
  <2>2. open[c] = {} /\ wrote[c] = {}
    BY <2>1 DEF CorpusInv, PhaseHolds
  <2>3. /\ pc'[c] \in {"files", "embed", "write"}
        /\ \A q \in Calls \ {c} : pc'[q] = pc[q] /\ todo'[q] = todo[q]
    BY DEF StartRun, StartReembed, Goto, CorpusInv, TypeOK
  <2>4. \A q \in Calls \ {c} : call'[q] = call[q]
    BY DEF StartRun, StartReembed, Begin, CorpusInv, TypeOK
  <2>5. QED
    BY <2>1, <2>2, <2>3, <2>4
<1>3. pc'[c] = "files" => call'[c].files \in [Docs -> Files]
  <2>1. CASE StartRun(c)
    <3>1. PICK m \in Models \cup {None}, fs \in [Docs -> Files] :
            call' = [call EXCEPT ![c] = [kind |-> "ingest", model |-> m, files |-> fs]]
      BY <2>1 DEF StartRun, Begin
    <3>2. QED
      BY <3>1 DEF CorpusInv, TypeOK
  <2>2. CASE StartReembed(c)
    BY <2>2 DEF StartReembed, Goto, CorpusInv, TypeOK
  <2>3. QED
    BY <2>1, <2>2
<1>4. VectorsNamed' /\ DocumentIsOneVersion'
  BY <1>2 DEF CorpusInv, VectorsNamed, DocumentIsOneVersion, TextsOf
<1>5. LocksExclusive' /\ LocksInOrder'
  BY <1>2 DEF CorpusInv, TypeOK, LocksExclusive, LocksInOrder
<1>6. PhaseHolds'
  <2>1. \A q \in Calls : open'[q] = open[q] /\ wrote'[q] = wrote[q]
    BY <1>2
  <2>2. ASSUME NEW q \in Calls
        PROVE  /\ pc'[q] # "write" => wrote'[q] = {}
               /\ pc'[q] \notin {"files", "gathered", "write"} => open'[q] = {}
               /\ pc'[q] = "gathered" \/ (pc'[q] = "write" /\ open'[q] # {})
                    => todo'[q] = {}
    <3>1. CASE q = c
      BY <1>2, <2>1, <3>1
    <3>2. CASE q # c
      BY <1>2, <2>1, <3>2 DEF CorpusInv, PhaseHolds
    <3>3. QED
      BY <3>1, <3>2
  <2>3. QED
    BY <2>2 DEF PhaseHolds
<1>7. FilesKnown'
  <2>1. ASSUME NEW q \in Calls, pc'[q] = "files" \/ open'[q] # {}
        PROVE  /\ call'[q].files \in [Docs -> Files]
               /\ \A d \in open'[q] : call'[q].files[d].kind = "doc"
    <3>1. CASE q = c
      BY <1>2, <1>3, <2>1, <3>1
    <3>2. CASE q # c
      BY <1>2, <2>1, <3>2 DEF CorpusInv, FilesKnown
    <3>3. QED
      BY <3>1, <3>2
  <2>2. QED
    BY <2>1 DEF FilesKnown
<1>8. WritesFit'
  <2>1. ASSUME NEW q \in Calls, NEW d \in Docs
        PROVE  /\ d \notin open'[q] \/ d \in todo'[q] => plan'[q][d] = NoWrites[d]
               /\ d \in open'[q] \ todo'[q]
                    => TextsOf(Rows(q)'[d]) = TextsIn(call'[q].files[d])
    BY <1>2, RowsKept DEF CorpusInv, WritesFit
  <2>2. QED
    BY <2>1 DEF WritesFit, TextsOf, NoWrites
<1>9. QED
  BY <1>1, <1>4, <1>5, <1>6, <1>7, <1>8 DEF CorpusInv

(* Steps of one call that neither commit nor write rows: what they owe the *)
(* invariant is only about that call.                                      *)
LEMMA LocalInv ==
  ASSUME CorpusInv, NEW c \in Calls, TypeOK',
         UNCHANGED <<chunk, emb, call, open, plan>>,
         \A q \in Calls \ {c} : /\ pc'[q] = pc[q] /\ todo'[q] = todo[q]
                                /\ wrote'[q] = wrote[q],
         pc'[c] = "files" => pc[c] = "files" /\ todo'[c] \subseteq todo[c],
         pc'[c] # "write" => wrote'[c] = {},
         pc'[c] \notin {"files", "gathered", "write"} => open[c] = {},
         pc'[c] = "gathered" \/ (pc'[c] = "write" /\ open[c] # {}) => todo'[c] = {},
         todo'[c] \cap open[c] = todo[c] \cap open[c]
  PROVE  CorpusInv'
<1>1. \A q \in Calls : /\ open'[q] = open[q] /\ call'[q] = call[q]
                       /\ plan'[q] = plan[q]
                       /\ todo'[q] \cap open[q] = todo[q] \cap open[q]
  OBVIOUS
<1>2. VectorsNamed' /\ DocumentIsOneVersion' /\ LocksExclusive'
  BY DEF CorpusInv, VectorsNamed, DocumentIsOneVersion, LocksExclusive, TextsOf
<1>3. LocksInOrder'
  <2>1. ASSUME NEW q \in Calls, pc'[q] = "files", NEW d \in open'[q], NEW e \in todo'[q]
        PROVE  d <= e
    <3>1. pc[q] = "files" /\ d \in open[q] /\ e \in todo[q]
      BY <1>1, <2>1
    <3>2. QED
      BY <3>1 DEF CorpusInv, LocksInOrder
  <2>2. QED
    BY <2>1 DEF LocksInOrder
<1>4. PhaseHolds'
  <2>1. ASSUME NEW q \in Calls
        PROVE  /\ pc'[q] # "write" => wrote'[q] = {}
               /\ pc'[q] \notin {"files", "gathered", "write"} => open'[q] = {}
               /\ pc'[q] = "gathered" \/ (pc'[q] = "write" /\ open'[q] # {})
                    => todo'[q] = {}
    <3>1. CASE q = c
      BY <1>1, <3>1
    <3>2. CASE q # c
      BY <1>1, <3>2 DEF CorpusInv, PhaseHolds
    <3>3. QED
      BY <3>1, <3>2
  <2>2. QED
    BY <2>1 DEF PhaseHolds
<1>5. FilesKnown'
  <2>1. ASSUME NEW q \in Calls, pc'[q] = "files" \/ open'[q] # {}
        PROVE  /\ call'[q].files \in [Docs -> Files]
               /\ \A d \in open'[q] : call'[q].files[d].kind = "doc"
    <3>1. pc[q] = "files" \/ open[q] # {}
      BY <1>1, <2>1
    <3>2. QED
      BY <1>1, <3>1 DEF CorpusInv, FilesKnown
  <2>2. QED
    BY <2>1 DEF FilesKnown
<1>6. WritesFit'
  <2>1. ASSUME NEW q \in Calls, NEW d \in Docs
        PROVE  /\ d \notin open'[q] \/ d \in todo'[q] => plan'[q][d] = NoWrites[d]
               /\ d \in open'[q] \ todo'[q]
                    => TextsOf(Rows(q)'[d]) = TextsIn(call'[q].files[d])
    <3>1. /\ d \notin open'[q] \/ d \in todo'[q] => d \notin open[q] \/ d \in todo[q]
          /\ d \in open'[q] \ todo'[q] => d \in open[q] \ todo[q]
      BY <1>1
    <3>2. Rows(q)'[d] = Rows(q)[d]
      BY <1>1, RowsKept
    <3>3. QED
      BY <1>1, <3>1, <3>2 DEF CorpusInv, WritesFit
  <2>2. QED
    BY <2>1 DEF WritesFit, TextsOf, NoWrites
<1>7. QED
  BY <1>2, <1>3, <1>4, <1>5, <1>6 DEF CorpusInv

(* A file that is skipped opens no document.                               *)
LEMMA SkipInv ==
  ASSUME CorpusInv, NEW c \in Calls, NEW d \in Docs, SkipFile(c, d)
  PROVE  CorpusInv'
<1>1. TypeOK'
  BY IndexTyped DEF CorpusInv
<1>2. /\ UNCHANGED <<chunk, emb, call, open, plan, pc, wrote>>
      /\ pc[c] = "files" /\ call[c].files[d].kind # "doc"
  BY DEF SkipFile, tables
<1>3. todo'[c] = todo[c] \ {d} /\ \A q \in Calls \ {c} : todo'[q] = todo[q]
  BY DEF SkipFile, CorpusInv, TypeOK
<1>4. d \notin open[c]
  BY <1>2 DEF CorpusInv, FilesKnown
<1>5. wrote[c] = {}
  BY <1>2 DEF CorpusInv, PhaseHolds
<1>6. QED
  BY <1>1, <1>2, <1>3, <1>4, <1>5, LocalInv

(* What is gathered to be embedded is read, not locked.                    *)
LEMMA GatherInv ==
  ASSUME CorpusInv, NEW c \in Calls, SkipEmbedding(c) \/ Gather(c)
  PROVE  CorpusInv'
<1>1. TypeOK'
  BY GatherTyped DEF CorpusInv
<1>2. /\ UNCHANGED <<chunk, emb, call, open, plan, todo, wrote>>
      /\ pc[c] = "files" /\ todo[c] = {}
  BY DEF SkipEmbedding, Gather, tables
<1>3. pc'[c] \in {"gathered", "write"} /\ \A q \in Calls \ {c} : pc'[q] = pc[q]
  BY DEF SkipEmbedding, Gather, Goto, CorpusInv, TypeOK
<1>4. wrote[c] = {}
  BY <1>2 DEF CorpusInv, PhaseHolds
<1>5. QED
  BY <1>1, <1>2, <1>3, <1>4, LocalInv

(* While the provider works the call holds nothing.                        *)
LEMMA EmbedInv ==
  ASSUME CorpusInv, NEW c \in Calls, Embed(c)
  PROVE  CorpusInv'
<1>1. TypeOK'
  BY WriteTyped DEF CorpusInv
<1>2. pc[c] = "embed" /\ open[c] = {} /\ wrote[c] = {}
  BY DEF Embed, CorpusInv, PhaseHolds
<1>3. CASE Rollback(c, "raised")
  BY <1>3, RollbackInv
<1>4. CASE ~Rollback(c, "raised")
  <2>1. PICK T : /\ todo' = [todo EXCEPT ![c] = T] /\ Goto(c, "write")
                 /\ UNCHANGED <<tables, call, open, plan, got, wrote, alone>>
    BY <1>4 DEF Embed
  <2>2. /\ pc'[c] = "write"
        /\ \A q \in Calls \ {c} : pc'[q] = pc[q] /\ todo'[q] = todo[q]
    BY <2>1 DEF Goto, CorpusInv, TypeOK
  <2>3. UNCHANGED <<chunk, emb, call, open, plan, wrote>>
    BY <2>1 DEF tables
  <2>4. QED
    BY <1>1, <1>2, <2>2, <2>3, LocalInv
<1>5. QED
  BY <1>3, <1>4

(* Vectors are written with the hash of the text they are of.              *)
LEMMA WriteInv ==
  ASSUME CorpusInv, NEW c \in Calls, NEW d \in Docs, WriteVectors(c, d)
  PROVE  CorpusInv'
<1>1. TypeOK'
  BY WriteTyped DEF CorpusInv
<1>2. pc[c] = "write" /\ d \in todo[c]
  BY DEF WriteVectors, MayWrite
<1>3. open[c] = {}
  BY <1>2 DEF CorpusInv, PhaseHolds
<1>4. CASE StillThere(c, d)
  <2>1. /\ wrote' = [wrote EXCEPT ![c] = wrote[c] \cup {d}]
        /\ todo' = [todo EXCEPT ![c] = todo[c] \ {d}]
        /\ UNCHANGED <<chunk, emb, pc, call, open, plan>>
    BY <1>4 DEF WriteVectors, tables
  <2>2. \A q \in Calls \ {c} : todo'[q] = todo[q] /\ wrote'[q] = wrote[q]
    BY <2>1 DEF CorpusInv, TypeOK
  <2>3. QED
    BY <1>1, <1>2, <1>3, <2>1, <2>2, LocalInv
<1>5. CASE ~StillThere(c, d)
  BY <1>5, RollbackInv DEF WriteVectors
<1>6. QED
  BY <1>4, <1>5

(* A nonempty set of paths has a first one.                                *)
LEMMA NatMinimum ==
  ASSUME NEW S \in SUBSET Nat, S # {}
  PROVE  \E m \in S : \A e \in S : m <= e
<1> DEFINE Less == {ss \in Nat \X Nat : ss[1] < ss[2]}
<1>1. IsWellFoundedOn(Less, Nat)
  BY NatLessThanWellFounded DEF OpToRel
<1> HIDE DEF Less
<1>2. \E x \in S : \A y \in S : ~(<<y, x>> \in Less)
  <2>1. \A R, T, U : IsWellFoundedOn(R, T) /\ U \subseteq T /\ U # {}
                        => \E x \in U : \A y \in U : ~(<<y, x>> \in R)
    BY WFMin, Zenon
  <2>2. S \subseteq Nat /\ S # {}
    OBVIOUS
  <2>3. QED
    BY <1>1, <2>1, <2>2, Zenon
<1>3. PICK m \in S : \A e \in S : ~(<<e, m>> \in Less)
  BY <1>2
<1>4. ASSUME NEW e \in S
      PROVE  m <= e
  <2>1. m \in Nat /\ e \in Nat /\ ~(<<e, m>> \in Less)
    BY <1>3
  <2>2. <<e, m>> \in Nat \X Nat /\ ~(e < m)
    BY <2>1 DEF Less
  <2>3. QED
    BY <2>1, <2>2
<1>5. QED
  BY <1>4

(* Locking the next document: it is nobody else's, its path comes after    *)
(* those already opened, and nothing of it has been written yet.           *)
LEMMA UpsertInv ==
  ASSUME CorpusInv, NEW c \in Calls, NEW d \in Docs, UpsertDocument(c, d)
  PROVE  CorpusInv'
<1>1. TypeOK'
  BY IndexTyped DEF CorpusInv
<1>2. /\ UNCHANGED <<chunk, emb, pc, call, todo, plan, wrote>>
      /\ pc[c] = "files" /\ todo[c] # {} /\ d = Next1(todo[c]) /\ d \notin open[c]
      /\ call[c].files[d].kind = "doc"
      /\ \A q \in Calls \ {c} : d \notin open[q]
  BY DEF UpsertDocument, tables, LocksRow
<1>3. open'[c] = open[c] \cup {d} /\ \A q \in Calls \ {c} : open'[q] = open[q]
  BY DEF UpsertDocument, CorpusInv, TypeOK
<1>4. d \in todo[c] /\ \A e \in todo[c] : d <= e
  <2>1. todo[c] \subseteq Docs /\ todo[c] \subseteq Nat
    BY SizeAssumption DEF CorpusInv, TypeOK
  <2>2. \E m \in todo[c] : \A e \in todo[c] : m <= e
    BY <1>2, <2>1, NatMinimum
  <2>3. QED
    BY <1>2, <2>2 DEF Next1
<1>5. VectorsNamed' /\ DocumentIsOneVersion'
  BY <1>2 DEF CorpusInv, VectorsNamed, DocumentIsOneVersion, TextsOf
<1>6. LocksExclusive'
  BY <1>2, <1>3 DEF CorpusInv, LocksExclusive
<1>7. LocksInOrder'
  BY <1>2, <1>3, <1>4 DEF CorpusInv, LocksInOrder
<1>8. PhaseHolds'
  <2>1. ASSUME NEW q \in Calls
        PROVE  /\ pc'[q] # "write" => wrote'[q] = {}
               /\ pc'[q] \notin {"files", "gathered", "write"} => open'[q] = {}
               /\ pc'[q] = "gathered" \/ (pc'[q] = "write" /\ open'[q] # {})
                    => todo'[q] = {}
    BY <1>2, <1>3 DEF CorpusInv, PhaseHolds
  <2>2. QED
    BY <2>1 DEF PhaseHolds
<1>9. FilesKnown'
  <2>1. ASSUME NEW q \in Calls, pc'[q] = "files" \/ open'[q] # {}
        PROVE  /\ call'[q].files \in [Docs -> Files]
               /\ \A e \in open'[q] : call'[q].files[e].kind = "doc"
    BY <1>2, <1>3, <2>1 DEF CorpusInv, FilesKnown
  <2>2. QED
    BY <2>1 DEF FilesKnown
<1>10. WritesFit'
  <2>1. ASSUME NEW q \in Calls, NEW e \in Docs
        PROVE  /\ e \notin open'[q] \/ e \in todo'[q] => plan'[q][e] = NoWrites[e]
               /\ e \in open'[q] \ todo'[q]
                    => TextsOf(Rows(q)'[e]) = TextsIn(call'[q].files[e])
    <3>1. Rows(q)'[e] = Rows(q)[e]
      BY <1>2, RowsKept
    <3>2. /\ e \notin open'[q] \/ e \in todo'[q] => e \notin open[q] \/ e \in todo[q]
          /\ e \in open'[q] \ todo'[q] => e \in open[q] \ todo[q]
      BY <1>2, <1>3, <1>4
    <3>3. QED
      BY <1>2, <3>1, <3>2 DEF CorpusInv, WritesFit
  <2>2. QED
    BY <2>1 DEF WritesFit, TextsOf, NoWrites
<1>11. QED
  BY <1>1, <1>5, <1>6, <1>7, <1>8, <1>9, <1>10 DEF CorpusInv

(* Indexing an opened document: what the call now sees of it is the file.  *)
LEMMA IndexInv ==
  ASSUME CorpusInv, NEW c \in Calls, NEW d \in Docs, IndexChunks(c, d)
  PROVE  CorpusInv'
<1>1. TypeOK'
  BY IndexTyped DEF CorpusInv
<1>2. /\ UNCHANGED <<chunk, emb, pc, call, open, wrote>>
      /\ pc[c] = "files" /\ d \in todo[c] /\ d \in open[c]
  BY DEF IndexChunks, tables
<1>3. /\ todo'[c] = todo[c] \ {d} /\ plan'[c][d] = Writes(chunk[d], call[c].files[d])
      /\ \A e \in Docs \ {d} : plan'[c][e] = plan[c][e]
      /\ \A q \in Calls \ {c} : todo'[q] = todo[q] /\ plan'[q] = plan[q]
  BY DEF IndexChunks, CorpusInv, TypeOK
<1>4. call[c].files[d] \in Files
  BY <1>2 DEF CorpusInv, FilesKnown
<1>5. Rows(c)'[d] = Indexed(chunk[d], call[c].files[d])
  <2>1. Rows(c)'[d] = [i \in Idx |-> IF Writes(chunk[d], call[c].files[d])[i] = None
                                     THEN chunk[d][i]
                                     ELSE Writes(chunk[d], call[c].files[d])[i]]
    BY <1>2, <1>3 DEF Rows
  <2>2. chunk[d] \in [Idx -> Row]
    BY DEF CorpusInv, TypeOK
  <2>3. QED
    BY <1>4, <2>1, <2>2, WritesOverlay
<1>6. TextsOf(Rows(c)'[d]) = TextsIn(call[c].files[d])
  BY <1>4, <1>5, IndexedRows DEF CorpusInv, TypeOK
<1>7. VectorsNamed' /\ DocumentIsOneVersion'
  BY <1>2 DEF CorpusInv, VectorsNamed, DocumentIsOneVersion, TextsOf
<1>8. LocksExclusive' /\ LocksInOrder'
  BY <1>2, <1>3 DEF CorpusInv, LocksExclusive, LocksInOrder
<1>9. PhaseHolds'
  <2>1. ASSUME NEW q \in Calls
        PROVE  /\ pc'[q] # "write" => wrote'[q] = {}
               /\ pc'[q] \notin {"files", "gathered", "write"} => open'[q] = {}
               /\ pc'[q] = "gathered" \/ (pc'[q] = "write" /\ open'[q] # {})
                    => todo'[q] = {}
    BY <1>2, <1>3 DEF CorpusInv, PhaseHolds
  <2>2. QED
    BY <2>1 DEF PhaseHolds
<1>10. FilesKnown'
  BY <1>2 DEF CorpusInv, FilesKnown
<1>11. WritesFit'
  <2>1. ASSUME NEW q \in Calls, NEW e \in Docs
        PROVE  /\ e \notin open'[q] \/ e \in todo'[q] => plan'[q][e] = NoWrites[e]
               /\ e \in open'[q] \ todo'[q]
                    => TextsOf(Rows(q)'[e]) = TextsIn(call'[q].files[e])
    <3>1. CASE q = c /\ e = d
      BY <1>2, <1>3, <1>6, <3>1
    <3>2. CASE ~(q = c /\ e = d)
      <4>1. plan'[q][e] = plan[q][e] /\ chunk'[e] = chunk[e]
        BY <1>2, <1>3, <3>2
      <4>2. Rows(q)'[e] = Rows(q)[e]
        BY <4>1, RowsKept
      <4>3. e \in todo'[q] <=> e \in todo[q]
        BY <1>3, <3>2
      <4>4. QED
        BY <1>2, <4>1, <4>2, <4>3 DEF CorpusInv, WritesFit
    <3>3. QED
      BY <3>1, <3>2
  <2>2. QED
    BY <2>1 DEF WritesFit, TextsOf, NoWrites
<1>12. QED
  BY <1>1, <1>7, <1>8, <1>9, <1>10, <1>11 DEF CorpusInv

(* The COMMIT before the provider is awaited gives up every lock.          *)
LEMMA CommitInv ==
  ASSUME CorpusInv, NEW c \in Calls, CommitChunks(c)
  PROVE  CorpusInv'
<1>1. TypeOK'
  BY GatherTyped DEF CorpusInv
<1>2. /\ UNCHANGED <<call, todo, wrote>> /\ chunk' = Rows(c) /\ emb' = Vectors(c, Rows(c))
      /\ pc[c] = "gathered"
  BY DEF CommitChunks
<1>3. /\ open'[c] = {} /\ plan'[c] = NoWrites /\ pc'[c] \in {"embed", "write"}
      /\ \A q \in Calls \ {c} : /\ open'[q] = open[q] /\ plan'[q] = plan[q]
                                /\ pc'[q] = pc[q]
  BY DEF CommitChunks, Goto, CorpusInv, TypeOK
<1>4. todo[c] = {} /\ wrote[c] = {}
  BY <1>2 DEF CorpusInv, PhaseHolds
<1>5. /\ \A d \in Docs \ open[c] : chunk'[d] = chunk[d]
      /\ DocumentIsOneVersion'
  BY <1>2, <1>4, CommitRows DEF CorpusInv, Owned
<1>6. VectorsNamed'
  BY <1>2, VectorsLeft DEF CorpusInv, VectorsNamed
<1>7. LocksExclusive' /\ LocksInOrder'
  BY <1>2, <1>3 DEF CorpusInv, LocksExclusive, LocksInOrder
<1>8. PhaseHolds'
  <2>1. ASSUME NEW q \in Calls
        PROVE  /\ pc'[q] # "write" => wrote'[q] = {}
               /\ pc'[q] \notin {"files", "gathered", "write"} => open'[q] = {}
               /\ pc'[q] = "gathered" \/ (pc'[q] = "write" /\ open'[q] # {})
                    => todo'[q] = {}
    <3>1. CASE q = c
      BY <1>2, <1>3, <1>4, <3>1
    <3>2. CASE q # c
      BY <1>2, <1>3, <3>2 DEF CorpusInv, PhaseHolds
    <3>3. QED
      BY <3>1, <3>2
  <2>2. QED
    BY <2>1 DEF PhaseHolds
<1>9. FilesKnown'
  BY <1>2, <1>3 DEF CorpusInv, FilesKnown
<1>10. WritesFit'
  <2>1. ASSUME NEW q \in Calls, NEW d \in Docs
        PROVE  /\ d \notin open'[q] \/ d \in todo'[q] => plan'[q][d] = NoWrites[d]
               /\ d \in open'[q] \ todo'[q]
                    => TextsOf(Rows(q)'[d]) = TextsIn(call'[q].files[d])
    <3>1. CASE q = c
      BY <1>3, <3>1
    <3>2. CASE q # c
      <4>1. d \in open[q] => d \notin open[c]
        BY <3>2 DEF CorpusInv, LocksExclusive
      <4>2. d \in open[q] => Rows(q)'[d] = Rows(q)[d]
        BY <1>3, <1>5, <3>2, <4>1, RowsKept
      <4>3. QED
        BY <1>2, <1>3, <3>2, <4>2 DEF CorpusInv, WritesFit
    <3>3. QED
      BY <3>1, <3>2
  <2>2. QED
    BY <2>1 DEF WritesFit, TextsOf, NoWrites
<1>11. QED
  BY <1>1, <1>5, <1>6, <1>7, <1>8, <1>9, <1>10 DEF CorpusInv

(* A call that ends commits what it holds and lets go.                     *)
LEMMA FinishInv ==
  ASSUME CorpusInv, NEW c \in Calls, Finish(c)
  PROVE  CorpusInv'
<1>1. /\ todo[c] = {} /\ chunk' = Rows(c) /\ emb' = Vectors(c, Rows(c))
      /\ End(c, "done")
  BY DEF Finish
<1>2. /\ \A d \in Docs \ open[c] : chunk'[d] = chunk[d]
      /\ DocumentIsOneVersion'
  BY <1>1, CommitRows DEF CorpusInv, Owned
<1>3. Owned'
  BY <1>1, <1>2, EndOwned DEF CorpusInv, Owned
<1>4. VectorsNamed'
  BY <1>1, VectorsLeft DEF CorpusInv, VectorsNamed
<1>5. TypeOK'
  BY WriteTyped DEF CorpusInv
<1>6. QED
  BY <1>2, <1>3, <1>4, <1>5 DEF CorpusInv, Owned

----------------------------------------------------------------------------
(* The invariant holds initially and every step preserves it.              *)

(* An empty corpus with no calls is in the invariant.                      *)
LEMMA InitInv ==
  ASSUME Init
  PROVE  CorpusInv
<1>1. NoRow \in Row /\ NoVector \in Vector /\ NoRows \in [Idx -> Row]
  BY DEF NoRow, NoVector, Row, Vector, NoRows
<1>2. /\ chunk \in [Docs -> [Idx -> Row]]
      /\ emb \in [Docs -> [Idx -> Vector]]
      /\ VectorsNamed /\ DocumentIsOneVersion
  <2>1. CASE chunk = [d \in Docs |-> NoRows] /\ emb = [d \in Docs |-> [i \in Idx |-> NoVector]]
    BY <1>1, <2>1 DEF VectorsNamed, DocumentIsOneVersion, TextsOf, NoRows, NoRow, NoVector
  <2>2. CASE \E fs \in [Docs -> Files], m \in Models :
               /\ chunk = [d \in Docs |-> IF fs[d].kind = "doc" THEN Indexed(NoRows, fs[d])
                                                                ELSE NoRows]
               /\ emb = [d \in Docs |-> [i \in Idx |->
                    IF Exists(chunk[d][i])
                      THEN [vec |-> chunk[d][i].text, hash |-> chunk[d][i].text, model |-> m]
                      ELSE NoVector]]
    <3>1. PICK fs \in [Docs -> Files], m \in Models :
               /\ chunk = [d \in Docs |-> IF fs[d].kind = "doc" THEN Indexed(NoRows, fs[d])
                                                                ELSE NoRows]
               /\ emb = [d \in Docs |-> [i \in Idx |->
                    IF Exists(chunk[d][i])
                      THEN [vec |-> chunk[d][i].text, hash |-> chunk[d][i].text, model |-> m]
                      ELSE NoVector]]
      BY <2>2
    <3>2. ASSUME NEW d \in Docs
          PROVE  /\ chunk[d] \in [Idx -> Row]
                 /\ \/ TextsOf(chunk[d]) = [i \in Idx |-> None]
                    \/ fs[d].kind = "doc" /\ TextsOf(chunk[d]) = TextsIn(fs[d])
      <4>1. CASE fs[d].kind = "doc"
        BY <1>1, <3>1, <4>1, IndexedRows
      <4>2. CASE fs[d].kind # "doc"
        BY <1>1, <3>1, <4>2 DEF TextsOf, NoRows, NoRow
      <4>3. QED
        BY <4>1, <4>2
    <3>3. chunk \in [Docs -> [Idx -> Row]]
      BY <3>1, <3>2
    <3>4. ASSUME NEW d \in Docs, NEW i \in Idx
          PROVE  emb[d][i] \in Vector /\ emb[d][i].vec = emb[d][i].hash
      <4>1. chunk[d][i].text \in Texts \cup {None}
        BY <3>3 DEF Row
      <4>2. emb[d][i] = (IF Exists(chunk[d][i])
                         THEN [vec |-> chunk[d][i].text, hash |-> chunk[d][i].text, model |-> m]
                         ELSE NoVector)
        BY <3>1
      <4>3. QED
        BY <4>1, <4>2 DEF Vector, NoVector
    <3>5. emb \in [Docs -> [Idx -> Vector]]
      BY <3>1, <3>4
    <3>6. QED
      BY <3>2, <3>3, <3>4, <3>5 DEF VectorsNamed, DocumentIsOneVersion
  <2>3. QED
    BY <2>1, <2>2 DEF Init
<1>3. /\ pc = [c \in Calls |-> "idle"] /\ call = [c \in Calls |-> NoCall]
      /\ todo = [c \in Calls |-> {}] /\ open = [c \in Calls |-> {}]
      /\ plan = [c \in Calls |-> NoWrites]
      /\ got = [c \in Calls |-> [d \in Docs |-> NoRows]]
      /\ ok = [c \in Calls |-> {}] /\ wrote = [c \in Calls |-> {}]
      /\ errs = [c \in Calls |-> FALSE] /\ alone = [c \in Calls |-> FALSE]
  BY DEF Init
<1>4. NoCall \in [kind : {"none", "ingest", "reembed"},
                  model : Models \cup {None}, files : [Docs -> Files \cup {None}]]
  BY DEF NoCall
<1>5. NoWrites \in [Docs -> [Idx -> Row \cup {None}]]
  BY DEF NoWrites
<1>6. TypeOK
  BY <1>1, <1>2, <1>3, <1>4, <1>5 DEF TypeOK, PCs
<1>7. LocksExclusive /\ LocksInOrder /\ PhaseHolds /\ FilesKnown
  BY <1>3 DEF LocksExclusive, LocksInOrder, PhaseHolds, FilesKnown
<1>8. WritesFit
  BY <1>3 DEF WritesFit
<1>9. QED
  BY <1>2, <1>6, <1>7, <1>8 DEF CorpusInv

(* The invariant is about the variables.                                   *)
LEMMA StutterInv ==
  ASSUME CorpusInv, UNCHANGED vars
  PROVE  CorpusInv'
<1>1. UNCHANGED <<chunk, emb, pc, call, todo, open, plan, got, ok, wrote, errs, alone>>
  BY DEF vars, tables, locals
<1>2. TypeOK'
  BY <1>1 DEF CorpusInv, TypeOK
<1>3. VectorsNamed' /\ DocumentIsOneVersion'
  BY <1>1 DEF CorpusInv, VectorsNamed, DocumentIsOneVersion, TextsOf
<1>4. LocksExclusive' /\ LocksInOrder' /\ PhaseHolds' /\ FilesKnown'
  BY <1>1 DEF CorpusInv, LocksExclusive, LocksInOrder, PhaseHolds, FilesKnown
<1>5. WritesFit'
  <2>1. \A c \in Calls, d \in Docs : Rows(c)'[d] = Rows(c)[d]
    BY <1>1 DEF Rows
  <2>2. QED
    BY <1>1, <2>1 DEF CorpusInv, WritesFit, TextsOf, NoWrites
<1>6. QED
  BY <1>2, <1>3, <1>4, <1>5 DEF CorpusInv

(* CorpusInv is inductive.                                                 *)
LEMMA StepInv ==
  ASSUME CorpusInv, [Next]_vars
  PROVE  CorpusInv'
<1>1. CASE \E c \in Calls : StartRun(c) \/ StartReembed(c)
  BY <1>1, StartInv
<1>2. CASE \E c \in Calls, d \in Docs : SkipFile(c, d)
  BY <1>2, SkipInv
<1>3. CASE \E c \in Calls, d \in Docs : UpsertDocument(c, d)
  BY <1>3, UpsertInv
<1>4. CASE \E c \in Calls, d \in Docs : IndexChunks(c, d)
  BY <1>4, IndexInv
<1>5. CASE \E c \in Calls, d \in Docs : WriteVectors(c, d)
  BY <1>5, WriteInv
<1>6. CASE \E c \in Calls : SkipEmbedding(c) \/ Gather(c)
  BY <1>6, GatherInv
<1>7. CASE \E c \in Calls : CommitChunks(c)
  BY <1>7, CommitInv
<1>8. CASE \E c \in Calls : Embed(c)
  BY <1>8, EmbedInv
<1>9. CASE \E c \in Calls : Finish(c)
  BY <1>9, FinishInv
<1>10. CASE \E c \in Calls : Crash(c)
  BY <1>10, RollbackInv DEF Crash
<1>11. CASE Rest \/ UNCHANGED vars
  BY <1>11, StutterInv DEF Rest
<1>12. QED
  BY <1>1, <1>2, <1>3, <1>4, <1>5, <1>6, <1>7, <1>8, <1>9, <1>10, <1>11
     DEF Next, Steps

(* In every reachable state each transaction owns the rows of the          *)
(* documents it has opened and nothing while it awaits the provider.       *)
THEOREM CorpusInvariance == Spec => []CorpusInv
<1>1. Init => CorpusInv
  BY InitInv
<1>2. CorpusInv /\ [Next]_vars => CorpusInv'
  BY StepInv
<1>3. QED
  BY <1>1, <1>2, PTL DEF Spec

(* The type invariant of the corpus.                                       *)
THEOREM TypeCorrectness == Spec => []TypeOK
<1>1. CorpusInv => TypeOK
  BY DEF CorpusInv
<1>2. QED
  BY <1>1, CorpusInvariance, PTL

(* The pipeline skips a chunk whose embedding carries its hash (#18): that *)
(* embedding is always of the chunk's present text.                        *)
THEOREM SkippedChunksAreEmbedded == Spec => []CurrentHashMeansCurrentVector
<1>1. CorpusInv => CurrentHashMeansCurrentVector
  BY DEF CorpusInv, VectorsNamed, CurrentHashMeansCurrentVector
<1>2. QED
  BY <1>1, CorpusInvariance, PTL

(* Concurrent runs of _process_file never leave a document whose chunks    *)
(* mix two versions of its file.                                           *)
THEOREM DocumentsAreNotMixed == Spec => []DocumentIsOneVersion
<1>1. CorpusInv => DocumentIsOneVersion
  BY DEF CorpusInv
<1>2. QED
  BY <1>1, CorpusInvariance, PTL

(* run_source and reembed_all_chunks hold no row lock while the embedding  *)
(* provider is awaited.                                                    *)
THEOREM ProviderWaitHoldsNoLock == Spec => []NobodyWaitsForTheProvider
<1>1. ASSUME CorpusInv, NEW q \in Calls, pc[q] = "embed"
      PROVE  \A c \in Calls : q \notin WaitsFor(c)
  <2>1. open[q] = {} /\ wrote[q] = {}
    BY <1>1 DEF CorpusInv, PhaseHolds
  <2>2. ASSUME NEW d \in Docs
        PROVE  Deletes(q, d) = {} /\ Holds(q, d) = {}
    <3>1. plan[q][d] = NoWrites[d]
      BY <1>1, <2>1 DEF CorpusInv, WritesFit
    <3>2. QED
      BY <2>1, <3>1 DEF Deletes, Holds, NoWrites
  <2>3. ASSUME NEW c \in Calls, NEW d \in Docs
        PROVE  ~LocksRow(q, d) /\ ~DeleteWaits(c, d, q) /\ ~UpsertWaits(c, d, q)
    BY <2>1, <2>2 DEF LocksRow, DeleteWaits, UpsertWaits
  <2>4. ASSUME NEW c \in Calls, pc[c] = "files", todo[c] # {}
        PROVE  Next1(todo[c]) \in Docs
    <3>1. todo[c] \subseteq Docs /\ todo[c] \subseteq Nat
      BY <1>1, SizeAssumption DEF CorpusInv, TypeOK
    <3>2. \E m \in todo[c] : \A e \in todo[c] : m <= e
      BY <2>4, <3>1, NatMinimum
    <3>3. QED
      BY <3>1, <3>2 DEF Next1
  <2>5. QED
    BY <2>3, <2>4 DEF WaitsFor
<1>2. CorpusInv => NobodyWaitsForTheProvider
  BY <1>1 DEF NobodyWaitsForTheProvider
<1>3. QED
  BY <1>2, CorpusInvariance, PTL

(* Two runs of _process_file never wait for each other's document rows.    *)
THEOREM DocumentRowsCannotDeadlock == Spec => []NoDocumentDeadlock
<1>1. ASSUME CorpusInv, NEW c \in Calls, NEW q \in Calls, c # q,
             pc[c] = "files", pc[q] = "files", todo[c] # {}, todo[q] # {},
             LocksRow(q, Next1(todo[c])), LocksRow(c, Next1(todo[q]))
      PROVE  FALSE
  <2> DEFINE a == Next1(todo[c])
             b == Next1(todo[q])
  <2>1. ASSUME NEW p \in Calls, todo[p] # {}
        PROVE  Next1(todo[p]) \in todo[p] /\ Next1(todo[p]) \in Docs
    <3>1. todo[p] \subseteq Docs /\ todo[p] \subseteq Nat
      BY <1>1, SizeAssumption DEF CorpusInv, TypeOK
    <3>2. \E m \in todo[p] : \A e \in todo[p] : m <= e
      BY <2>1, <3>1, NatMinimum
    <3>3. QED
      BY <3>1, <3>2 DEF Next1
  <2>2. a \in todo[c] /\ b \in todo[q] /\ a \in Nat /\ b \in Nat
    BY <1>1, <2>1, SizeAssumption
  <2>3. a \in open[q] /\ b \in open[c]
    BY <1>1 DEF LocksRow
  <2> HIDE DEF a, b
  <2>4. a <= b /\ b <= a
    BY <1>1, <2>2, <2>3 DEF CorpusInv, LocksInOrder
  <2>5. a = b
    BY <2>2, <2>4
  <2>6. QED
    BY <1>1, <2>3, <2>5 DEF CorpusInv, LocksExclusive
<1>2. CorpusInv => NoDocumentDeadlock
  BY <1>1, Zenon DEF NoDocumentDeadlock
<1>3. QED
  BY <1>2, CorpusInvariance, PTL
----------------------------------------------------------------------------
(* A run that nobody disturbs.                                             *)

(* Calls that have not read a row or have no answer yet hold none; a call  *)
(* that is alone is the only active one.                                   *)
MemoryHolds ==
  \A c \in Calls :
    /\ pc[c] \in {"idle", "files"} => got[c] = [d \in Docs |-> NoRows]
    /\ pc[c] # "write" => ok[c] = {}
    /\ ok[c] \subseteq Wanted(c)
    /\ Active(c) /\ alone[c] => \A q \in Calls \ {c} : ~Active(q)

(* A run with a provider that nobody has disturbed and nothing has failed. *)
Quiet(c) ==
  /\ Active(c) /\ alone[c] /\ ~errs[c]
  /\ call[c].kind = "ingest" /\ call[c].model # None

(* How far a quiet run has brought a document it could read: taken up,     *)
(* compared with its vectors, embedded where they differ.                  *)
TakenUp(c, d) ==
  pc[c] = "files" => d \in todo[c] \cup open[c]
Compared(c, d) ==
  pc[c] = "gathered" =>
    /\ d \in open[c]
    /\ \A i \in Idx : got[c][d][i] =
         (IF Rows(c)[d][i].text # emb[d][i].hash THEN Rows(c)[d][i] ELSE NoRow)
Embedded(c, d) ==
  pc[c] \in {"embed", "write"} =>
    /\ open[c] = {} /\ TextsOf(chunk[d]) = TextsIn(call[c].files[d])
    /\ \A i \in Idx :
         IF Exists(got[c][d][i])
         THEN /\ got[c][d][i].text = chunk[d][i].text
              /\ pc[c] = "write" => <<d, i>> \in ok[c] /\ d \in todo[c] \cup wrote[c]
         ELSE emb[d][i].vec = chunk[d][i].text

QuietInv ==
  /\ MemoryHolds
  /\ \A c \in Calls : Quiet(c) => \A d \in Docs :
       call[c].files[d].kind = "doc" => TakenUp(c, d) /\ Compared(c, d) /\ Embedded(c, d)

(* A step of an active call, which leaves the others' memory alone, keeps  *)
(* what is known of every call's memory if it keeps what is known of its   *)
(* own.                                                                    *)
LEMMA MemoryStep ==
  ASSUME MemoryHolds, NEW c \in Calls, Active(c),
         \A q \in Calls \ {c} : /\ pc'[q] = pc[q] /\ got'[q] = got[q]
                                /\ ok'[q] = ok[q] /\ alone'[q] = alone[q],
         pc'[c] \in {"idle", "files"} => got'[c] = [d \in Docs |-> NoRows],
         pc'[c] # "write" => ok'[c] = {},
         ok'[c] \subseteq Wanted(c)',
         Active(c)' => alone'[c] = alone[c]
  PROVE  MemoryHolds'
<1>1. ASSUME NEW q \in Calls
      PROVE  /\ pc'[q] \in {"idle", "files"} => got'[q] = [d \in Docs |-> NoRows]
             /\ pc'[q] # "write" => ok'[q] = {}
             /\ ok'[q] \subseteq Wanted(q)'
  <2>1. CASE q = c
    BY <2>1
  <2>2. CASE q # c
    <3>1. Wanted(q)' = Wanted(q)
      BY <2>2 DEF Wanted, Slots
    <3>2. QED
      BY <2>2, <3>1 DEF MemoryHolds
  <2>3. QED
    BY <2>1, <2>2
<1>2. ASSUME NEW q \in Calls, Active(q)', alone'[q], NEW r \in Calls \ {q}, Active(r)'
      PROVE  FALSE
  <2>1. CASE q = c
    BY <1>2, <2>1 DEF MemoryHolds, Active
  <2>2. CASE q # c
    BY <1>2, <2>2 DEF MemoryHolds, Active
  <2>3. QED
    BY <2>1, <2>2
<1>3. QED
  BY <1>1, <1>2 DEF MemoryHolds

(* What a quiet run has done so far with each document it could read.      *)
Progress(c) ==
  \A d \in Docs : call[c].files[d].kind = "doc" =>
     TakenUp(c, d) /\ Compared(c, d) /\ Embedded(c, d)

(* No other run is quiet while a call is active: only the call that takes  *)
(* the step matters.                                                       *)
LEMMA QuietStep ==
  ASSUME QuietInv, MemoryHolds', NEW c \in Calls, Active(c),
         \A q \in Calls \ {c} : pc'[q] = pc[q] /\ alone'[q] = alone[q],
         Quiet(c)' => Progress(c)'
  PROVE  QuietInv'
<1>1. ASSUME NEW q \in Calls \ {c}
      PROVE  ~Quiet(q)'
  BY <1>1 DEF QuietInv, MemoryHolds, Quiet, Active
<1>2. QED
  BY <1>1 DEF QuietInv, Progress

(* A rolled-back or finished call is not active, so it is not quiet, and   *)
(* what it kept in memory is gone.                                         *)
LEMMA EndQuiet ==
  ASSUME TypeOK, QuietInv, NEW c \in Calls, Active(c),
         NEW l \in {"done", "raised", "aborted"}, End(c, l)
  PROVE  QuietInv'
<1>1. /\ pc'[c] = l /\ ok'[c] = {}
      /\ \A q \in Calls \ {c} : /\ pc'[q] = pc[q] /\ got'[q] = got[q]
                                /\ ok'[q] = ok[q] /\ alone'[q] = alone[q]
  BY DEF End, Goto, TypeOK
<1>2. ~Active(c)'
  BY <1>1 DEF Active
<1>3. MemoryHolds'
  BY <1>1, <1>2, MemoryStep DEF QuietInv
<1>4. QED
  BY <1>1, <1>2, <1>3, QuietStep DEF Quiet

(* A call that starts ends the solitude of the others; a run has all the   *)
(* files it could read before it.                                          *)
LEMMA StartQuiet ==
  ASSUME TypeOK, TypeOK', QuietInv, NEW c \in Calls, StartRun(c) \/ StartReembed(c)
  PROVE  QuietInv'
<1>1. /\ pc[c] = "idle" /\ ok' = ok /\ ok[c] = {}
      /\ alone' = [q \in Calls |-> IF q = c THEN \A p \in Calls : ~Active(p)
                                            ELSE alone[q] /\ ~Active(q)]
  BY DEF StartRun, StartReembed, Begin, QuietInv, MemoryHolds
<1>2. /\ \A q \in Calls \ {c} : pc'[q] = pc[q] /\ got'[q] = got[q]
      /\ pc'[c] \in {"files", "embed", "write"}
  BY DEF StartRun, StartReembed, Goto, TypeOK
<1>3. \A q \in Calls \ {c} : ~(Active(q)' /\ alone'[q])
  BY <1>1, <1>2 DEF Active
<1>4. alone'[c] => \A q \in Calls \ {c} : ~Active(q)'
  BY <1>1, <1>2 DEF Active
<1>5. pc'[c] = "files" => got'[c] = [d \in Docs |-> NoRows]
  BY <1>1 DEF StartRun, StartReembed, Goto, TypeOK, QuietInv, MemoryHolds
<1>6. MemoryHolds'
  <2>1. ASSUME NEW q \in Calls
        PROVE  /\ pc'[q] \in {"idle", "files"} => got'[q] = [d \in Docs |-> NoRows]
               /\ pc'[q] # "write" => ok'[q] = {}
               /\ ok'[q] \subseteq Wanted(q)'
    <3>1. CASE q = c
      BY <1>1, <1>2, <1>5, <3>1
    <3>2. CASE q # c
      <4>1. Wanted(q)' = Wanted(q)
        BY <1>2, <3>2 DEF Wanted, Slots
      <4>2. QED
        BY <1>1, <1>2, <3>2, <4>1 DEF QuietInv, MemoryHolds
    <3>3. QED
      BY <3>1, <3>2
  <2>2. QED
    BY <1>3, <1>4, <2>1 DEF MemoryHolds
<1>7. Quiet(c)' => Progress(c)'
  <2>1. CASE StartReembed(c)
    <3>1. call'[c].kind = "reembed"
      BY <2>1 DEF StartReembed, Begin, TypeOK
    <3>2. QED
      BY <3>1 DEF Quiet
  <2>2. CASE StartRun(c)
    <3>1. PICK m \in Models \cup {None}, fs \in [Docs -> Files] :
            /\ call' = [call EXCEPT ![c] = [kind |-> "ingest", model |-> m, files |-> fs]]
            /\ todo' = [todo EXCEPT ![c] = {d \in Docs : fs[d].kind # "absent"}]
      BY <2>2 DEF StartRun, Begin
    <3>2. call'[c].files = fs /\ todo'[c] = {d \in Docs : fs[d].kind # "absent"}
      BY <3>1 DEF TypeOK
    <3>3. pc'[c] = "files"
      BY <2>2 DEF StartRun, Goto, TypeOK
    <3>4. QED
      BY <3>2, <3>3 DEF Progress, TakenUp, Compared, Embedded
  <2>3. QED
    BY <2>1, <2>2
<1>8. QED
  BY <1>3, <1>6, <1>7 DEF QuietInv, Quiet, Progress

(* Taking up the files: a document that could be read is still to do or    *)
(* open.                                                                   *)
LEMMA FilesQuiet ==
  ASSUME TypeOK, QuietInv, NEW c \in Calls, NEW d \in Docs,
         SkipFile(c, d) \/ UpsertDocument(c, d) \/ IndexChunks(c, d)
  PROVE  QuietInv'
<1>1. /\ pc[c] = "files" /\ UNCHANGED <<pc, call, got, ok, alone>>
      /\ errs[c] => errs'[c]
  BY DEF SkipFile, UpsertDocument, IndexChunks, TypeOK
<1>2. Active(c) /\ Wanted(c)' = Wanted(c)
  BY <1>1 DEF Active, Wanted, Slots
<1>3. MemoryHolds'
  BY <1>1, <1>2, MemoryStep DEF QuietInv, MemoryHolds
<1>4. ASSUME NEW e \in Docs, call[c].files[e].kind = "doc", e \in todo[c] \cup open[c]
      PROVE  e \in todo'[c] \cup open'[c]
  BY <1>4 DEF SkipFile, UpsertDocument, IndexChunks, TypeOK
<1>5. Quiet(c)' => Quiet(c)
  BY <1>1 DEF Quiet, Active
<1>6. Quiet(c)' => Progress(c)'
  BY <1>1, <1>4, <1>5 DEF QuietInv, Progress, TakenUp, Compared, Embedded
<1>7. QED
  BY <1>1, <1>2, <1>3, <1>6, QuietStep

(* Gathering: all of them are open, and the rows whose vectors are not of  *)
(* their hash are read; with nothing open there was nothing to do.         *)
LEMMA GatherQuiet ==
  ASSUME TypeOK, CorpusInv, QuietInv, NEW c \in Calls, SkipEmbedding(c) \/ Gather(c)
  PROVE  QuietInv'
<1>1. /\ pc[c] = "files" /\ todo[c] = {}
      /\ UNCHANGED <<tables, call, todo, open, plan, ok, wrote, errs, alone>>
  BY DEF SkipEmbedding, Gather
<1>2. /\ pc'[c] \in {"gathered", "write"} /\ ok[c] = {}
      /\ \A q \in Calls \ {c} : pc'[q] = pc[q] /\ got'[q] = got[q]
  BY <1>1 DEF SkipEmbedding, Gather, Goto, TypeOK, QuietInv, MemoryHolds
<1>3. Active(c)
  BY <1>1 DEF Active
<1>4. MemoryHolds'
  BY <1>1, <1>2, <1>3, MemoryStep DEF QuietInv
<1>5. Quiet(c)' => Quiet(c)
  BY <1>1, <1>3 DEF Quiet
<1>6. Quiet(c) => \A d \in Docs : call[c].files[d].kind = "doc" => d \in open[c]
  BY <1>1 DEF QuietInv, TakenUp
<1>7. CASE SkipEmbedding(c)
  <2>1. Quiet(c) => open[c] = {}
    BY <1>7 DEF SkipEmbedding, Quiet
  <2>2. Quiet(c)' => Progress(c)'
    BY <1>1, <1>5, <1>6, <2>1 DEF Progress
  <2>3. QED
    BY <1>1, <1>2, <1>3, <1>4, <2>2, QuietStep
<1>8. CASE Gather(c)
  <2>1. pc'[c] = "gathered"
    BY <1>8 DEF Gather, Goto, TypeOK
  <2>2. got'[c] = [d \in Docs |-> [i \in Idx |->
          IF d \in open[c] /\ Rows(c)[d][i].text # emb[d][i].hash
            THEN Rows(c)[d][i] ELSE NoRow]]
    BY <1>8 DEF Gather, TypeOK
  <2>3. \A d \in Docs : Rows(c)'[d] = Rows(c)[d]
    BY <1>1, RowsKept DEF tables
  <2>4. ASSUME Quiet(c), NEW d \in Docs, call[c].files[d].kind = "doc"
        PROVE  /\ d \in open'[c]
               /\ \A i \in Idx : got'[c][d][i] =
                    (IF Rows(c)'[d][i].text # emb'[d][i].hash THEN Rows(c)'[d][i] ELSE NoRow)
    BY <1>1, <1>6, <2>2, <2>3, <2>4 DEF tables
  <2>5. Quiet(c)' => Progress(c)'
    BY <1>1, <1>5, <2>1, <2>4 DEF Progress, TakenUp, Compared, Embedded
  <2>6. QED
    BY <1>1, <1>2, <1>3, <1>4, <2>5, QuietStep
<1>9. QED
  BY <1>7, <1>8


(* The COMMIT before the provider is awaited: the documents are as the run *)
(* fetched them, and a row without a vector of its text was read.          *)
LEMMA CommitQuiet ==
  ASSUME TypeOK, CorpusInv, QuietInv, NEW c \in Calls, CommitChunks(c)
  PROVE  QuietInv'
<1>1. /\ pc[c] = "gathered" /\ chunk' = Rows(c) /\ emb' = Vectors(c, Rows(c))
      /\ UNCHANGED <<call, todo, got, ok, wrote, errs, alone>>
  BY DEF CommitChunks
<1>2. /\ open'[c] = {} /\ pc'[c] \in {"embed", "write"}
      /\ pc'[c] = "write" => Wanted(c) = {}
      /\ \A q \in Calls \ {c} : pc'[q] = pc[q]
  BY DEF CommitChunks, Goto, TypeOK
<1>3. Active(c) /\ Wanted(c)' = Wanted(c)
  BY <1>1 DEF Active, Wanted, Slots
<1>4. todo[c] = {} /\ wrote[c] = {} /\ ok[c] = {}
  BY <1>1 DEF CorpusInv, PhaseHolds, QuietInv, MemoryHolds
<1>5. MemoryHolds'
  BY <1>1, <1>2, <1>3, <1>4, MemoryStep DEF QuietInv
<1>6. ASSUME Quiet(c), NEW d \in Docs, call[c].files[d].kind = "doc"
      PROVE  /\ TextsOf(chunk'[d]) = TextsIn(call[c].files[d])
             /\ \A i \in Idx :
                  IF Exists(got[c][d][i]) THEN got[c][d][i].text = chunk'[d][i].text
                                          ELSE emb'[d][i].vec = chunk'[d][i].text
  <2>1. /\ d \in open[c]
        /\ \A i \in Idx : got[c][d][i] =
             (IF Rows(c)[d][i].text # emb[d][i].hash THEN Rows(c)[d][i] ELSE NoRow)
    BY <1>1, <1>6 DEF QuietInv, Compared
  <2>2. TextsOf(Rows(c)[d]) = TextsIn(call[c].files[d])
    BY <1>4, <2>1 DEF CorpusInv, WritesFit
  <2>3. ASSUME NEW i \in Idx
        PROVE  IF Exists(got[c][d][i]) THEN got[c][d][i].text = Rows(c)[d][i].text
                                       ELSE emb'[d][i].vec = Rows(c)[d][i].text
    <3>1. ~Exists(NoRow) /\ NoVector.vec = None
      BY DEF Exists, NoRow, NoVector
    <3>2. i \notin Holds(c, d)
      BY <1>4 DEF Holds
    <3>3. emb'[d][i] = IF Exists(Rows(c)[d][i]) THEN emb[d][i] ELSE NoVector
      BY <1>1, <3>2 DEF Vectors
    <3>4. emb[d][i].vec = emb[d][i].hash
      BY DEF CorpusInv, VectorsNamed
    <3>5. QED
      BY <2>1, <3>1, <3>3, <3>4 DEF Exists
  <2>4. QED
    BY <1>1, <2>2, <2>3
<1>7. Quiet(c)' => Quiet(c)
  BY <1>1, <1>3 DEF Quiet
<1>8. ASSUME Quiet(c)', NEW d \in Docs, call[c].files[d].kind = "doc"
      PROVE  Embedded(c, d)'
  <2>1. ASSUME NEW i \in Idx, pc'[c] = "write"
        PROVE  ~Exists(got[c][d][i])
    <3>1. Wanted(c) = {}
      BY <1>2, <2>1
    <3>2. <<d, i>> \in Slots /\ <<d, i>> \notin Wanted(c)
      BY <3>1 DEF Slots
    <3>3. QED
      BY <3>2 DEF Wanted
  <2>2. QED
    BY <1>1, <1>2, <1>6, <1>7, <1>8, <2>1 DEF Embedded, TextsOf, TextsIn, Exists
<1>9. Quiet(c)' => Progress(c)'
  BY <1>1, <1>2, <1>8 DEF Progress, TakenUp, Compared
<1>10. QED
  BY <1>1, <1>2, <1>3, <1>5, <1>9, QuietStep

(* The provider's answer: with no error it is a vector for every row.      *)
LEMMA EmbedQuiet ==
  ASSUME TypeOK, CorpusInv, QuietInv, NEW c \in Calls, Embed(c)
  PROVE  QuietInv'
<1>1. pc[c] = "embed" /\ Active(c)
  BY DEF Embed, Active
<1>2. CASE Rollback(c, "raised")
  BY <1>1, <1>2, EndQuiet DEF Rollback
<1>3. CASE ~Rollback(c, "raised")
  <2>1. PICK vs \in SUBSET Wanted(c) :
          /\ ok' = [ok EXCEPT ![c] = vs]
          /\ todo' = [todo EXCEPT ![c] = {d \in Docs : \E i \in Idx : <<d, i>> \in vs}]
          /\ errs' = [errs EXCEPT ![c] = errs[c] \/ vs # Wanted(c)]
          /\ Goto(c, "write")
          /\ UNCHANGED <<tables, call, open, plan, got, wrote, alone>>
    BY <1>3 DEF Embed
  <2>2. /\ pc'[c] = "write" /\ ok'[c] = vs
        /\ todo'[c] = {d \in Docs : \E i \in Idx : <<d, i>> \in vs}
        /\ \A q \in Calls \ {c} : pc'[q] = pc[q] /\ ok'[q] = ok[q]
    BY <2>1 DEF Goto, TypeOK
  <2>3. Wanted(c)' = Wanted(c)
    BY <2>1 DEF Wanted, Slots
  <2>4. MemoryHolds'
    BY <1>1, <2>1, <2>2, <2>3, MemoryStep DEF QuietInv
  <2>5. ~errs'[c] => ~errs[c] /\ vs = Wanted(c)
    BY <2>1 DEF TypeOK
  <2>6. Quiet(c)' => Quiet(c) /\ vs = Wanted(c)
    BY <1>1, <2>1, <2>5 DEF Quiet
  <2>7. ASSUME Quiet(c)', NEW d \in Docs, call[c].files[d].kind = "doc"
        PROVE  Embedded(c, d)'
    <3>1. Embedded(c, d) /\ vs = Wanted(c)
      BY <2>6, <2>7 DEF QuietInv
    <3>2. ASSUME NEW i \in Idx, Exists(got[c][d][i])
          PROVE  <<d, i>> \in ok'[c] /\ d \in todo'[c]
      <4>1. <<d, i>> \in vs
        BY <3>1, <3>2 DEF Wanted, Slots
      <4>2. QED
        BY <2>2, <4>1
    <3>3. QED
      BY <1>1, <2>1, <3>1, <3>2 DEF Embedded, tables, TextsOf, TextsIn, Exists
  <2>8. Quiet(c)' => Progress(c)'
    BY <2>1, <2>2, <2>7 DEF Progress, TakenUp, Compared
  <2>9. QED
    BY <1>1, <2>1, <2>2, <2>4, <2>8, QuietStep
<1>4. QED
  BY <1>2, <1>3

(* Writing the vectors of a document.                                      *)
LEMMA WriteQuiet ==
  ASSUME TypeOK, CorpusInv, QuietInv, NEW c \in Calls, NEW d \in Docs, WriteVectors(c, d)
  PROVE  QuietInv'
<1>1. pc[c] = "write" /\ Active(c)
  BY DEF WriteVectors, Active
<1>2. CASE ~StillThere(c, d)
  BY <1>1, <1>2, EndQuiet DEF WriteVectors, Rollback
<1>3. CASE StillThere(c, d)
  <2>1. /\ wrote' = [wrote EXCEPT ![c] = wrote[c] \cup {d}]
        /\ todo' = [todo EXCEPT ![c] = todo[c] \ {d}]
        /\ UNCHANGED <<tables, pc, call, open, plan, got, ok, errs, alone>>
    BY <1>3 DEF WriteVectors
  <2>2. todo'[c] \cup wrote'[c] = todo[c] \cup wrote[c] \cup {d}
    BY <2>1 DEF TypeOK
  <2>3. Wanted(c)' = Wanted(c)
    BY <2>1 DEF Wanted, Slots
  <2>4. MemoryHolds'
    BY <1>1, <2>1, <2>3, MemoryStep DEF QuietInv, MemoryHolds
  <2>5. Quiet(c)' => Quiet(c)
    BY <2>1, <1>1 DEF Quiet
  <2>6. ASSUME NEW e \in Docs, Embedded(c, e)
        PROVE  Embedded(c, e)'
    BY <2>1, <2>2, <2>6 DEF Embedded, tables, TextsOf, TextsIn, Exists
  <2>7. Quiet(c)' => Progress(c)'
    BY <1>1, <2>1, <2>5, <2>6 DEF QuietInv, Progress, TakenUp, Compared
  <2>8. QED
    BY <1>1, <2>1, <2>4, <2>7, QuietStep
<1>4. QED
  BY <1>2, <1>3

(* At first no call is under way.                                          *)
LEMMA QuietInit == ASSUME Init PROVE QuietInv
<1>1. \A c \in Calls : /\ pc[c] = "idle" /\ ok[c] = {} /\ ~alone[c]
                       /\ got[c] = [d \in Docs |-> NoRows]
  BY DEF Init
<1>2. QED
  BY <1>1 DEF QuietInv, MemoryHolds, Quiet

(* QuietInv is inductive beside CorpusInv.                                 *)
LEMMA QuietStays ==
  ASSUME CorpusInv, CorpusInv', QuietInv, [Next]_vars
  PROVE  QuietInv'
<1> USE DEF CorpusInv
<1>1. CASE \E c \in Calls : StartRun(c) \/ StartReembed(c)
  BY <1>1, StartQuiet
<1>2. CASE \E c \in Calls, d \in Docs :
             SkipFile(c, d) \/ UpsertDocument(c, d) \/ IndexChunks(c, d)
  BY <1>2, FilesQuiet
<1>3. CASE \E c \in Calls : SkipEmbedding(c) \/ Gather(c)
  BY <1>3, GatherQuiet
<1>4. CASE \E c \in Calls : CommitChunks(c)
  BY <1>4, CommitQuiet
<1>5. CASE \E c \in Calls : Embed(c)
  BY <1>5, EmbedQuiet
<1>6. CASE \E c \in Calls, d \in Docs : WriteVectors(c, d)
  BY <1>6, WriteQuiet
<1>7. CASE \E c \in Calls : Finish(c)
  BY <1>7, EndQuiet DEF Finish, Active
<1>8. CASE \E c \in Calls : Crash(c)
  BY <1>8, EndQuiet DEF Crash, Rollback
<1>9. CASE Rest \/ UNCHANGED vars
  <2>1. UNCHANGED <<chunk, emb, pc, call, todo, open, plan, got, ok, wrote, errs, alone>>
    BY <1>9 DEF Rest, vars, tables, locals
  <2>2. \A c \in Calls : /\ Wanted(c)' = Wanted(c) /\ (Active(c)' <=> Active(c))
                         /\ (Quiet(c)' <=> Quiet(c))
    BY <2>1 DEF Wanted, Slots, Active, Quiet
  <2>3. MemoryHolds'
    BY <2>1, <2>2 DEF QuietInv, MemoryHolds
  <2>4. \A c \in Calls, d \in Docs : Rows(c)'[d] = Rows(c)[d]
    BY <2>1 DEF Rows
  <2>5. ASSUME NEW c \in Calls, NEW d \in Docs,
               TakenUp(c, d), Compared(c, d), Embedded(c, d)
        PROVE  TakenUp(c, d)' /\ Compared(c, d)' /\ Embedded(c, d)'
    BY <2>1, <2>4, <2>5 DEF TakenUp, Compared, Embedded, TextsOf, TextsIn, Exists
  <2>6. QED
    BY <2>1, <2>2, <2>3, <2>5 DEF QuietInv
<1>10. QED
  BY <1>1, <1>2, <1>3, <1>4, <1>5, <1>6, <1>7, <1>8, <1>9 DEF Next, Steps

(* What the last COMMIT of a quiet run leaves.                             *)
LEMMA QuietFinish ==
  ASSUME CorpusInv, QuietInv, NEW c \in Calls, Finish(c), Quiet(c),
         NEW d \in Docs, call[c].files[d].kind = "doc"
  PROVE  Settled(chunk'[d], emb'[d], call[c].files[d])
<1>1. /\ pc[c] = "write" /\ todo[c] = {}
      /\ chunk' = Rows(c) /\ emb' = Vectors(c, Rows(c))
  BY DEF Finish
<1>2. Embedded(c, d)
  BY DEF QuietInv
<1>3. open[c] = {} /\ TextsOf(chunk[d]) = TextsIn(call[c].files[d])
  BY <1>1, <1>2 DEF Embedded
<1>4. chunk'[d] = chunk[d]
  <2>1. plan[c][d] = NoWrites[d]
    BY <1>3 DEF CorpusInv, WritesFit
  <2>2. QED
    BY <1>1, <2>1, RowsSeen DEF CorpusInv
<1>5. ASSUME NEW i \in Idx
      PROVE  emb'[d][i].vec = chunk'[d][i].text
  <2>1. emb'[d][i] = IF ~Exists(chunk[d][i]) THEN NoVector
                     ELSE IF i \in Holds(c, d) THEN Upserted(c, d, i) ELSE emb[d][i]
    BY <1>1, <1>4 DEF Vectors
  <2>2. CASE ~Exists(chunk[d][i])
    BY <1>4, <2>1, <2>2 DEF Exists, NoVector
  <2>3. CASE Exists(chunk[d][i]) /\ i \in Holds(c, d)
    <3>1. <<d, i>> \in ok[c]
      BY <2>3 DEF Holds, Returned
    <3>2. <<d, i>> \in Wanted(c)
      BY <3>1 DEF QuietInv, MemoryHolds
    <3>3. Exists(got[c][d][i])
      BY <3>2 DEF Wanted
    <3>4. got[c][d][i].text = chunk[d][i].text
      BY <1>1, <1>2, <3>3 DEF Embedded
    <3>5. QED
      BY <1>4, <2>1, <2>3, <3>4 DEF Upserted
  <2>4. CASE Exists(chunk[d][i]) /\ i \notin Holds(c, d)
    <3>1. ~Exists(got[c][d][i])
      BY <1>1, <1>2, <2>4 DEF Embedded, Holds, Returned
    <3>2. QED
      BY <1>1, <1>2, <1>4, <2>1, <2>4, <3>1 DEF Embedded
  <2>5. QED
    BY <2>2, <2>3, <2>4
<1>6. QED
  BY <1>3, <1>4, <1>5 DEF Settled

(* Only its last COMMIT ends a call as done.                               *)
LEMMA OnlyFinishEnds ==
  ASSUME CorpusInv, Next, NEW c \in Calls, pc[c] = "write", pc'[c] = "done"
  PROVE  Finish(c)
<1> USE DEF CorpusInv, TypeOK
<1>1. ASSUME NEW q \in Calls, StartRun(q) \/ StartReembed(q)
      PROVE  FALSE
  BY <1>1 DEF StartRun, StartReembed, Begin, Goto
<1>2. ASSUME NEW q \in Calls, NEW d \in Docs,
             SkipFile(q, d) \/ UpsertDocument(q, d) \/ IndexChunks(q, d)
      PROVE  FALSE
  BY <1>2 DEF SkipFile, UpsertDocument, IndexChunks
<1>3. ASSUME NEW q \in Calls,
             SkipEmbedding(q) \/ Gather(q) \/ CommitChunks(q) \/ Crash(q) \/ Embed(q)
      PROVE  FALSE
  <2>1. CASE SkipEmbedding(q) \/ Gather(q)
    BY <2>1 DEF SkipEmbedding, Gather, Goto
  <2>2. CASE CommitChunks(q)
    BY <2>2 DEF CommitChunks, Goto
  <2>3. CASE Crash(q)
    BY <2>3 DEF Crash, Rollback, End, Goto
  <2>4. CASE Embed(q)
    <3>1. pc' = [pc EXCEPT ![q] = "raised"] \/ pc' = [pc EXCEPT ![q] = "write"]
      BY <2>4 DEF Embed, Rollback, End, Goto
    <3>2. QED
      BY <3>1
  <2>5. QED
    BY <1>3, <2>1, <2>2, <2>3, <2>4
<1>4. ASSUME NEW q \in Calls, NEW d \in Docs, WriteVectors(q, d)
      PROVE  FALSE
  <2>1. pc' = pc \/ pc' = [pc EXCEPT ![q] = "raised"]
    BY <1>4 DEF WriteVectors, Rollback, End, Goto
  <2>2. QED
    BY <2>1
<1>5. ASSUME NEW q \in Calls, Finish(q)
      PROVE  q = c
  BY <1>5 DEF Finish, End, Goto
<1>6. ~Rest
  BY DEF Rest
<1>7. QED
  BY <1>1, <1>2, <1>3, <1>4, <1>5, <1>6 DEF Next, Steps

(* run_source: a run with a provider that nobody disturbs and that reports *)
(* no error leaves every document it could read as it fetched it, each     *)
(* chunk with a vector of its present text.                                *)
THEOREM QuietRunsSettle == Spec => QuietRunSettles
<1>1. Init => QuietInv
  BY QuietInit
<1>2. CorpusInv /\ CorpusInv' /\ QuietInv /\ [Next]_vars => QuietInv'
  BY QuietStays
<1>3. ASSUME CorpusInv, QuietInv, Next, NEW c \in Calls,
             pc[c] = "write", pc'[c] = "done", call[c].kind = "ingest",
             call[c].model # None, alone[c], ~errs[c],
             NEW d \in Docs, call[c].files[d].kind = "doc"
      PROVE  Settled(chunk'[d], emb'[d], call[c].files[d])
  BY <1>3, OnlyFinishEnds, QuietFinish DEF Quiet, Active
<1>4. CorpusInv /\ QuietInv /\ [Next]_vars =>
        [\A c \in Calls :
           /\ pc[c] = "write" /\ pc'[c] = "done"
           /\ call[c].kind = "ingest" /\ call[c].model # None /\ alone[c] /\ ~errs[c]
           => \A d \in Docs : call[c].files[d].kind = "doc"
                => Settled(chunk'[d], emb'[d], call[c].files[d])]_vars
  BY <1>3
<1>5. QED
  BY <1>1, <1>2, <1>4, CorpusInvariance, PTL DEF Spec, QuietRunSettles

=============================================================================
