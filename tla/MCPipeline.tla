----------------------------- MODULE MCPipeline -----------------------------
(***************************************************************************)
(* From a source to a reader, for TLC: fetch the files of a source, cut    *)
(* each into chunks; make a search, a context pack or an answer of what    *)
(* was stored; show it to people.  The four share no state (what passes    *)
(* from the first two to the others is in the database, which is Corpus's  *)
(* part); focus says which of them moves in a behaviour.                   *)
(***************************************************************************)
EXTENDS Fetch, Chunking, ContextPack, SearchPage, TLC

----------------------------------------------------------------------------
(* Chunking: headings and blocks of two sizes; every kind of line; nested  *)
(* fences.                                                                 *)
L(kind, n, info, indented, tokens) ==
  [kind |-> kind, n |-> n, info |-> info, indented |-> indented, tokens |-> tokens]
Plain(kind, tokens) == L(kind, 0, FALSE, FALSE, tokens)
H(n) == L("heading", n, FALSE, FALSE, 1)
Bare(n) == L("tick", n, FALSE, FALSE, 1)
Info(n) == L("tick", n, TRUE, FALSE, 1)
Outline == {Plain("blank", 0), Plain("text", 1), Plain("text", 4), H(1), H(2), H(3)}
Layout == {Plain("blank", 0), Plain("text", 1), H(1), Plain("item", 1),
           L("text", 0, FALSE, TRUE, 1), Plain("pipe", 1), Plain("separator", 1),
           Bare(3), Info(3), L("tilde", 3, FALSE, TRUE, 1)}
Nesting == {Bare(3), Info(3), Bare(4), H(1)}
NoDocument == [meta |-> "too_large", lines |-> <<>>]
MCDocuments ==
  {[meta |-> "bare", lines |-> s] : s \in [1..5 -> Outline] \cup [1..4 -> Layout] \cup [1..6 -> Nesting]}
  \cup {NoDocument, [meta |-> "titled", lines |-> <<H(1), Plain("text", 1)>>]}

----------------------------------------------------------------------------
(* Fetch: trees of up to four files, three URLs.                           *)
File(marks, size) == [marks |-> marks, size |-> size]
Trees == UNION {[1..n -> {File({}, 1), File({}, 2), File({}, 4),
                          File({"other_suffix"}, 1), File({"escapes", "dotfile"}, 4)}] : n \in 0..4}
Urls == {<<[host |-> there], [host |-> "here"], [host |-> "here"]>> : there \in Hosts}
HttpSources == {[kind |-> "http", items |-> u, allowlist |-> {"here"}] : u \in Urls}
NoSource == [kind |-> "local", items |-> <<>>, allowlist |-> {}]
MCSources ==
  {[kind |-> kind, items |-> tree, allowlist |-> {}] : kind \in {"local", "git"}, tree \in Trees}
  \cup HttpSources

----------------------------------------------------------------------------
(* ContextPack: four chunks of two documents, of which a SELECT returns    *)
(* three, with rrf_k and the weights of the default configuration, a stale *)
(* window of two days and small limits.                                    *)
CONSTANTS p, q, h
MCChunks == 1..4
MCDocs   == {p, q}
MCHeads  == {h}
MCUnit   == 61 * 62
MCWeight ==
  [s \in Statuses |->
     CASE s = "active" -> 100 [] s = "approved" -> 95 [] s = "draft" -> 50
       [] s = "deprecated" -> 20 [] s = "archived" -> 10 [] s = "superseded" -> 5]

D(status, reviewed, age) == [status |-> status, reviewed |-> reviewed, age |-> age]
(* On the edge of the stale window, unreviewed, draft and retired; fresh   *)
(* and just overdue.                                                       *)
MCDoc ==
  {[d \in MCDocs |-> IF d = p THEN x ELSE y] :
     x \in {D("active", TRUE, 2), D("active", FALSE, 0), D("draft", TRUE, 0),
            D("deprecated", TRUE, 0)},
     y \in {D("active", TRUE, 0), D("draft", TRUE, 3)}}
(* What the scanners may have flagged.                                     *)
MCChunk ==
  {[c \in MCChunks |->
      [doc |-> IF c \in {1, 4} THEN p ELSE q, head |-> IF c = 3 THEN None ELSE h,
       tokens |-> IF c = 2 THEN 1 ELSE 2,
       injected |-> c \in i, sensitive |-> c \in s]] :
   i \in {{}, {1}, {2}}, s \in {{}, {1}, {3}}}
MCCorpora == [chunk : MCChunk, doc : MCDoc]

A(kind, query, embeds, n, tokens) ==
  [kind |-> kind, query |-> query, provider |-> embeds, maxChunks |-> n, maxTokens |-> tokens]
MCAsks ==
  {A("answer", "plain", TRUE, 3, 3), A("answer", "plain", TRUE, 2, 1),
   A("answer", "mixed", FALSE, 3, 4), A("search", "plain", TRUE, 2, 0),
   A("pack", "markers", TRUE, 1, 1)}
MCFtsScores == {1000, 4000, 9000}

----------------------------------------------------------------------------
(* SearchPage: one chunk of the rail's repository, one of another.         *)
MCStatusOf == [c \in Cards |-> IF c \in InRepo THEN "active" ELSE "deprecated"]

----------------------------------------------------------------------------
VARIABLE focus
pipeline == <<fetching, chunking, vars, searchpage, focus>>

PipelineInit ==
  /\ focus \in {"fetching", "chunking", "packing", "showing"}
  /\ IF focus = "fetching" THEN FetchInit
                           ELSE source = [f \in Fetchers |-> NoSource] /\ Unfetched
  /\ IF focus = "chunking" THEN ChunkingInit ELSE doc = NoDocument /\ Unparsed
  /\ focus # "packing" => corpus = (CHOOSE c \in Corpora : TRUE) /\ ask = (CHOOSE a \in Asks : TRUE)
  /\ Init
  /\ PageInit
PipelineNext ==
  \/ focus = "fetching" /\ FetchNext /\ UNCHANGED <<chunking, vars, searchpage, focus>>
  \/ focus = "chunking" /\ ChunkingNext /\ UNCHANGED <<fetching, vars, searchpage, focus>>
  \/ focus = "packing" /\ Next /\ UNCHANGED <<fetching, chunking, searchpage, focus>>
  \/ focus = "showing" /\ PageNext /\ UNCHANGED <<fetching, chunking, vars, focus>>
PipelineSpec == PipelineInit /\ [][PipelineNext]_pipeline
=============================================================================
