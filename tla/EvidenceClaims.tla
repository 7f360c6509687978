--------------------------- MODULE EvidenceClaims ---------------------------
(***************************************************************************)
(* How the clauses of the source bear on one requirement: what the checks  *)
(* of semantic_quality.py and audio_semantics.py tell apart. A chunk is a  *)
(* record of what they see in it: its document, whether it is a stretch of *)
(* a recording, its language, how sure the transcription was, and what its *)
(* best clause does for the requirement.                                   *)
(***************************************************************************)
EXTENDS Naturals

\* The best clause states the requirement; states it with a further
\* constraint; lacks some of its facts; contradicts it; is close, and hardly
\* so; has nothing to do with it.
Clauses == {"states", "more", "thin", "against", "close", "faint", "none"}

Contents == [doc : {"page", "call", "memo"}, clause : Clauses, foreign : BOOLEAN,
             low : BOOLEAN, artifact : BOOLEAN]

\* Texts of a requirement: complete, cut off by the transcription, a fragment
\* of a clause, or completed from a clause with a further constraint.
Texts == {"whole", "cut", "fragment", "completed"}

IsAudio(c) == c.doc # "page"

NeedsClauseReview(text) == text = "fragment"
AudioTextNeedsReview(text) == text = "cut"

(* Support of the best clause: 3 from 0.60 on, 2 from 0.35, 1 from 0.25.   *)
Strong == 3
Relevant == 2
Support(c) ==
    CASE c.clause \in {"states", "more", "thin", "against"} -> 3
      [] c.clause = "close" -> 2
      [] c.clause = "faint" -> 1
      [] c.clause = "none" -> 0

\* complete_requirement_from_evidence takes over a clause that says more.
CompletedFrom(text, c) == IF c.clause = "more" THEN "completed" ELSE text

\* The requirement makes a numeric claim, names a fact or has a polarity that
\* the clause does not have.
Contradicts(text, c) ==
    c.clause = "against" \/ (text = "completed" /\ c.clause = "states")

CoversFacts(text, c) == c.clause # "thin"

\* Faulty variant of Verifies: the facts and figures are not compared.
VerifiesAnyStrong(text, c) == Support(c) = Strong

\* The checks that a clause has to pass to become a citation.
Verifies(text, c) ==
    Support(c) = Strong /\ ~Contradicts(text, c) /\ CoversFacts(text, c)

\* Retrieval does not ask whether all facts are covered.
Promotes(text, c) == Support(c) = Strong /\ ~Contradicts(text, c)
=============================================================================
