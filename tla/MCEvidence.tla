----------------------------- MODULE MCEvidence -----------------------------
(* Chunks of a document and of two recordings for Evidence.                 *)
EXTENDS Evidence

Chunk(doc, clause) ==
    [doc |-> doc, clause |-> clause, foreign |-> FALSE, low |-> FALSE, artifact |-> FALSE]

MCSources ==
    {Chunk("page", clause) : clause \in {"states", "more", "against", "close"}}
    \cup {Chunk("call", clause) : clause \in {"states", "faint", "none"}}
    \cup {[Chunk("call", clause) EXCEPT !.low = TRUE] : clause \in {"states", "more"}}
    \cup {[Chunk("memo", "more") EXCEPT !.artifact = TRUE], Chunk("memo", "thin"),
          [Chunk("memo", "against") EXCEPT !.foreign = TRUE]}
=============================================================================
