------------------------------ MODULE MCCorpus ------------------------------
(* Small instances of Corpus for TLC: "a" and "b" are texts, "h" and "k"   *)
(* the headings above them.                                                *)
EXTENDS Corpus, TLC

CONSTANTS a, b, h, k

OneDoc  == {1}
TwoDocs == {1, 2}

Doc(s)  == [kind |-> "doc", chunks |-> s]
Other(l) == [kind |-> l, chunks |-> <<>>]
Par(t, p) == [text |-> t, head |-> p]

(* One path: it grows, shrinks, is edited, moves under another heading,    *)
(* becomes unreadable, loses its chunks or vanishes.                       *)
EditedFiles ==
  {Doc(<<Par(a, h)>>), Doc(<<Par(b, h), Par(a, h)>>), Doc(<<Par(a, k)>>)}
    \cup {Other(l) : l \in {"absent", "garbled", "empty"}}
(* Two paths: enough to swap texts and to drop a chunk.                    *)
TwoFiles == {Doc(<<Par(a, h), Par(b, h)>>), Doc(<<Par(b, h)>>)}

CallSymmetry == Permutations(Calls)
=============================================================================
