------------------------------ MODULE Evidence ------------------------------
(***************************************************************************)
(* The evidence of one requirement between extraction and its story: the   *)
(* ranking of lexical and vector hits, retrieve_evidence, which scores the *)
(* extracted quotes and adds candidates, and evidence_grounding, which     *)
(* alone decides what is cited and whether a person has to look at it.     *)
(***************************************************************************)
EXTENDS EvidenceClaims, Integers, Sequences, FiniteSets, SequencesExt, FiniteSetsExt

CONSTANTS
    Chunks,         \* the chunks of the job: 1 .. n, by position
    Sources,        \* contents a chunk may have
    TopK,           \* RETRIEVE_TOP_K
    MaxEvidence,    \* MAX_EVIDENCE_PER_REQ
    MaxQuotes       \* spans of the extraction, bounds the model

ASSUME EvidenceAssumption ==
    /\ IsFiniteSet(Chunks) /\ Chunks = 1 .. Cardinality(Chunks)
    /\ Sources \subseteq Contents
    /\ TopK \in Nat /\ MaxEvidence \in Nat /\ MaxQuotes \in Nat

\* A chunk of an earlier attempt, whose embedding is still in the store.
Stale == 0

VARIABLES
    phase,      \* where the requirement is
    lexical,    \* BM25 score of every chunk
    vector,     \* cosine similarity of every embedding that was found
    hits,       \* the chunks retrieval looks at
    source,     \* what the chunks contain
    req,        \* the text of the requirement and its review
    spans,      \* its evidence: candidates until grounding
    verified,   \* what grounding lets through
    issues      \* quality issues of grounding

vars == <<phase, lexical, vector, hits, source, req, spans, verified, issues>>

----------------------------------------------------------------------------
(* Ranking.                                                                *)

Scores == 0 .. 2
Similarities == {-1, 1, 2}

\* A set as a sequence: each element has its place by how many come before it.
InOrder(set, before) ==
    [i \in 1 .. Cardinality(set) |->
        CHOOSE x \in set : Cardinality({y \in set : <<y, x>> \in before}) = i - 1]

\* By score, and then by position.
ByScore(scores) ==
    {p \in (DOMAIN scores) \X (DOMAIN scores) :
        \/ scores[p[1]] > scores[p[2]]
        \/ scores[p[1]] = scores[p[2]] /\ p[1] < p[2]}

FirstOf(s, k) == SubSeq(s, 1, Min({k, Len(s)}))

\* Chunks without a term of the query have score 0 and are dropped.
LexicalHits(scores) ==
    FirstOf(InOrder({c \in DOMAIN scores : scores[c] > 0}, ByScore(scores)), TopK)

VectorHits(scores) == FirstOf(InOrder(DOMAIN scores, ByScore(scores)), TopK)

\* Tenths of the best score of the list; all are 0 when that is not positive.
Normalised(scores, c) ==
    LET top == Max({scores[x] : x \in DOMAIN scores}) IN
    IF top <= 0 THEN 0 ELSE (10 * scores[c]) \div top

\* Faulty variant of Weight: the lexical hits count half as much.
VectorsFirst(kind) == IF kind = "lexical" THEN 3 ELSE 7

\* bm25_weight and vector_weight, in tenths.
Weight(kind) == 5

AgreementBoost == 10

PlaceIn(s, c) == CHOOSE i \in DOMAIN s : s[i] = c

\* What merge_hits gives a chunk of either list.
MergedScore(lscores, vscores, c) ==
    LET part(scores, kind) ==
            IF c \in DOMAIN scores THEN Weight(kind) * Normalised(scores, c) ELSE 0
    IN part(lscores, "lexical") + part(vscores, "vector")
        + (IF c \in DOMAIN lscores \cap DOMAIN vscores THEN AgreementBoost ELSE 0)

\* merge_hits: the lexical hits come first, and the sort is stable.
Merged(lex, vec) ==
    LET lhits == LexicalHits(lex)
        vhits == VectorHits(vec)
        lscores == [c \in ToSet(lhits) |-> lex[c]]
        vscores == [c \in ToSet(vhits) |-> vec[c]]
        found == ToSet(lhits) \cup ToSet(vhits)
        score == [c \in found |-> MergedScore(lscores, vscores, c)]
        place == [c \in found |-> IF c \in ToSet(lhits) THEN PlaceIn(lhits, c)
                                   ELSE Len(lhits) + PlaceIn(vhits, c)]
        before == {p \in found \X found :
                    \/ score[p[1]] > score[p[2]]
                    \/ score[p[1]] = score[p[2]] /\ place[p[1]] < place[p[2]]}
    IN FirstOf(InOrder(found, before), TopK)

\* Hybrid retrieval is an option of the job; an embedder that fails, or finds
\* nothing, leaves the lexical hits.
HitsFor(lex, vec) ==
    IF DOMAIN vec = {} \/ Merged(lex, vec) = <<>> THEN LexicalHits(lex) ELSE Merged(lex, vec)

----------------------------------------------------------------------------
NoScores == [c \in {} |-> 0]

Init ==
    /\ phase = "search"
    /\ lexical = NoScores /\ vector = NoScores
    /\ hits = <<>>
    /\ source = <<>> /\ spans = <<>> /\ verified = <<>>
    /\ req = [text |-> "whole", explicit |-> TRUE, asked |-> FALSE, review |-> FALSE, marks |-> {},
              quoted |-> 0, matched |-> 0, at |-> 1]
    /\ issues = {}

(* The ranking does not depend on the candidates, so it is drawn first.    *)
Flagged(r, mark) == [r EXCEPT !.review = TRUE, !.marks = @ \cup {mark}]

Search ==
    /\ phase = "search" /\ phase' = "ranked"
    /\ lexical' \in [Chunks -> Scores]
    /\ \E found \in SUBSET (Chunks \cup {Stale}) : vector' \in [found -> Similarities]
    /\ UNCHANGED <<hits, source, req, spans, verified, issues>>

\* The scores are local to the search.
Rank ==
    /\ phase = "ranked" /\ phase' = "extract"
    /\ hits' = HitsFor(lexical, vector)
    /\ lexical' = NoScores /\ vector' = NoScores
    /\ UNCHANGED <<source, req, spans, verified, issues>>

\* Spans that name a document of the job.
Spans(contents) ==
    [chunk : Chunks, doc : {contents[c].doc : c \in Chunks}, origin : {"extracted", "fallback"},
     quote : {"extracted"}, support : {0}]

\* What extraction and the merging of duplicates left: at least one span,
\* whose quote is aligned with its chunk while the document is as the model
\* gave it; a span that had to be fixed is marked, and the model may ask for
\* a review with a reason.
Extract ==
    /\ phase = "extract" /\ phase' = "quotes"
    /\ source' \in [Chunks -> Sources]
    /\ \E n \in 1 .. MaxQuotes : spans' \in [1 .. n -> Spans(source')]
    /\ \E text \in {"whole", "cut", "fragment"}, explicit \in BOOLEAN,
          asked \in BOOLEAN, fuzzy \in BOOLEAN :
        LET given == IF asked THEN {"asked"} ELSE {}
            snippet == \E i \in DOMAIN spans' : spans'[i].origin = "fallback"
            fixed == IF fuzzy \/ snippet THEN {"fixed"} ELSE {} IN
        req' = [req EXCEPT !.text = text, !.explicit = explicit, !.asked = asked,
                           !.marks = given \cup fixed, !.review = given \cup fixed # {}]
    /\ UNCHANGED <<lexical, vector, hits, verified, issues>>

At == req.at
Advance(r) == [r EXCEPT !.at = @ + 1]

----------------------------------------------------------------------------
(* retrieve_evidence.                                                      *)

\* _quote_support_score of one span: the quote becomes the best clause of its
\* chunk, and what is only part of the way there is marked.
ScoreQuote ==
    LET span == spans[At]
        c == source[span.chunk]
        foreign == c.foreign
        partial == foreign \/ Support(c) \in {1, 2} \/ (Promotes(req.text, c) /\ c.low)
        counts == foreign \/ Promotes(req.text, c) \/ Support(c) \in {1, 2}
        support == IF counts THEN Support(c) ELSE 0 IN
    /\ phase = "quotes" /\ At <= Len(spans)
    /\ IF span.doc # c.doc
       THEN req' = Advance(req) /\ UNCHANGED spans
       ELSE /\ spans' = [spans EXCEPT ![At].quote = "best", ![At].support = support]
            /\ req' = Advance([IF partial THEN Flagged(req, "weak") ELSE req
                               EXCEPT !.quoted = Max({@, support})])
    /\ UNCHANGED <<phase, lexical, vector, hits, source, verified, issues>>

QuotesScored ==
    /\ phase = "quotes" /\ At > Len(spans) /\ phase' = "hits"
    /\ req' = [req EXCEPT !.at = 1]
    /\ UNCHANGED <<lexical, vector, hits, source, spans, verified, issues>>

\* Without an index nothing is searched, and only the quotes are scored.
NoIndex ==
    /\ phase = "quotes" /\ At > Len(spans) /\ hits = <<>> /\ phase' = "ground"
    /\ req' = [req EXCEPT !.at = 1, !.quoted = 0]
    /\ UNCHANGED <<lexical, vector, hits, source, spans, verified, issues>>

Extracted == SelectSeq(spans, LAMBDA s : s.origin # "retrieved")
Cited(chunk, quote) == \E i \in DOMAIN spans : spans[i].chunk = chunk /\ spans[i].quote = quote

Full == Len(spans) >= MaxEvidence

\* A document chunk that was quoted is not looked at again, a stretch of a
\* recording may yield another clause; a stale hit has no text.
Skipped(chunk) ==
    \/ chunk \notin Chunks
    \/ ~IsAudio(source[chunk]) /\ \E i \in DOMAIN Extracted : Extracted[i].chunk = chunk

WeighHit ==
    LET chunk == hits[At]
        c == source[chunk] IN
    /\ phase = "hits" /\ At <= Len(hits) /\ ~Full
    /\ IF Skipped(chunk) THEN req' = Advance(req) /\ UNCHANGED spans
       ELSE IF c.foreign \/ Support(c) \in {1, 2}
       THEN req' = Advance(Flagged(req, "weak")) /\ UNCHANGED spans
       ELSE IF Promotes(req.text, c) /\ ~Cited(chunk, "best")
       THEN /\ spans' = Append(spans, [chunk |-> chunk, doc |-> c.doc, origin |-> "retrieved",
                                       quote |-> "best", support |-> Strong])
            /\ req' = Advance([IF c.low THEN Flagged(req, "weak") ELSE req
                               EXCEPT !.matched = Strong])
       ELSE req' = Advance(req) /\ UNCHANGED spans
    /\ UNCHANGED <<phase, lexical, vector, hits, source, verified, issues>>

HitsWeighed ==
    LET quoted == Max({spans[i].support : i \in DOMAIN spans} \cup {req.quoted})
        weak == quoted < Relevant /\ req.matched < Relevant IN
    /\ phase = "hits" /\ (At > Len(hits) \/ Full) /\ phase' = "ground"
    /\ req' = [IF weak THEN Flagged(req, "weak") ELSE req EXCEPT !.at = 1, !.quoted = 0, !.matched = 0]
    /\ UNCHANGED <<lexical, vector, hits, source, spans, verified, issues>>

----------------------------------------------------------------------------
(* evidence_grounding.                                                     *)

IncompleteClause ==
    /\ phase = "ground" /\ NeedsClauseReview(req.text) /\ phase' = "done"
    /\ req' = Flagged(req, "incomplete")
    /\ issues' = issues \cup {"requirement_clause_integrity"}
    /\ UNCHANGED <<lexical, vector, hits, source, spans, verified>>

\* An exact quote in another language that came with an explicit extraction.
ExplicitTranslation(span, c) ==
    IsAudio(c) /\ ~c.low /\ req.explicit /\ span.origin = "extracted"

Rejects(span, c) ==
    \/ span.doc # c.doc
    \/ IF c.foreign THEN ~ExplicitTranslation(span, c)
       ELSE ~Verifies(CompletedFrom(req.text, c), c)

Doubtful(c) == (c.low /\ ~c.foreign) \/ (IsAudio(c) /\ c.artifact)

\* One candidate: the text may be completed from its clause before the clause
\* is checked.
VerifySpan ==
    LET span == spans[At]
        c == source[span.chunk]
        same == span.doc = c.doc /\ ~c.foreign
        text == IF same THEN CompletedFrom(req.text, c) ELSE req.text
        r == [req EXCEPT !.text = text] IN
    /\ phase = "ground" /\ ~NeedsClauseReview(req.text) /\ At <= Len(spans)
    /\ IF Rejects(span, c)
       THEN /\ req' = Advance(Flagged(r, "evidence"))
            /\ issues' = issues \cup {"rejected"}
            /\ UNCHANGED verified
       ELSE /\ verified' = Append(verified, [span EXCEPT !.quote = "best", !.support = Strong])
            /\ IF Doubtful(c)
               THEN req' = Advance(Flagged(r, "low")) /\ issues' = issues \cup {"low"}
               ELSE req' = Advance(r) /\ UNCHANGED issues
    /\ UNCHANGED <<phase, lexical, vector, hits, source, spans>>

\* Faulty variant of DeclaredDocuments: every recording is searched.
AnyDocument == {"call", "memo"}

DeclaredDocuments == {spans[i].doc : i \in DOMAIN spans}

Recoverable(chunk) ==
    LET c == source[chunk] IN
    IsAudio(c) /\ c.doc \in DeclaredDocuments /\ ~c.foreign /\ Support(c) = Strong

\* When nothing is left, the best clause of the recordings the candidates
\* named; the text is completed from it even when it then fails a check.
Recover ==
    /\ phase = "ground" /\ ~NeedsClauseReview(req.text)
    /\ At > Len(spans) /\ verified = <<>> /\ phase' = "settle"
    /\ \/ /\ ~\E chunk \in Chunks : Recoverable(chunk)
          /\ UNCHANGED <<req, verified>>
       \/ \E chunk \in {x \in Chunks : Recoverable(x)} :
            LET c == source[chunk]
                r == [req EXCEPT !.text = CompletedFrom(@, c)] IN
            IF Verifies(r.text, c)
            THEN /\ verified' = <<[chunk |-> chunk, doc |-> c.doc, origin |-> "retrieved",
                                   quote |-> "best", support |-> Strong]>>
                 /\ req' = IF c.low \/ c.artifact THEN Flagged(r, "low") ELSE r
            ELSE req' = r /\ UNCHANGED verified
    /\ UNCHANGED <<lexical, vector, hits, source, spans, issues>>

Verified ==
    /\ phase = "ground" /\ ~NeedsClauseReview(req.text)
    /\ At > Len(spans) /\ verified # <<>> /\ phase' = "settle"
    /\ UNCHANGED <<lexical, vector, hits, source, req, spans, verified, issues>>

\* Faulty variant of Cleared: every marker goes.
ClearedOfAll(r) == [r EXCEPT !.marks = {}, !.review = FALSE]

\* The markers of evidence go, and with the last marker the flag.
Cleared(r) ==
    LET marks == r.marks \ {"fixed", "weak", "evidence", "low"} IN
    [r EXCEPT !.marks = marks, !.review = marks # {}]

Settle ==
    LET audio == \E i \in DOMAIN verified : IsAudio(source[verified[i].chunk])
        r == IF audio /\ AudioTextNeedsReview(req.text) THEN Flagged(req, "cut") ELSE req IN
    /\ phase = "settle" /\ phase' = "done"
    /\ IF verified = <<>>
       THEN /\ req' = Flagged(r, "evidence")
            /\ issues' = issues \cup {"missing_verified_evidence"}
       ELSE /\ req' = IF "low" \in issues THEN r ELSE Cleared(r)
            /\ UNCHANGED issues
    /\ UNCHANGED <<lexical, vector, hits, source, spans, verified>>

----------------------------------------------------------------------------
Next ==
    \/ Search \/ Rank \/ Extract
    \/ ScoreQuote \/ QuotesScored \/ NoIndex \/ WeighHit \/ HitsWeighed
    \/ IncompleteClause \/ VerifySpan \/ Recover \/ Verified \/ Settle

Spec == Init /\ [][Next]_vars

----------------------------------------------------------------------------
(* Properties.                                                             *)

\* The best lexical hit stays among the hits and is passed only by chunks
\* that both searches found, unless the embeddings speak against it: "BM25
\* remains authoritative" (merge_hits).
LexicalLeads ==
    phase = "ranked" /\ LexicalHits(lexical) # <<>> =>
        LET ranking == HitsFor(lexical, vector)
            best == LexicalHits(lexical)[1]
            both(c) == c \in DOMAIN lexical /\ c \in DOMAIN vector /\ lexical[c] > 0
            before(i) == \A k \in 1 .. i : ranking[k] # best IN
        \/ best \in DOMAIN vector /\ vector[best] < 0
        \/ \A i \in DOMAIN ranking : before(i) => both(ranking[i])

States(text, c) ==
    ~c.foreign /\ c.clause = IF text = "completed" THEN "more" ELSE "states"

\* What is cited is a clause of the document it names that agrees with the
\* requirement. Where the requirement was completed after a clause had been
\* accepted, another citation carries the completion (evidence_grounding).
PublishedQuotesSupport ==
    phase = "done" =>
        \A i \in DOMAIN verified :
            LET c == source[verified[i].chunk] IN
            /\ verified[i].quote = "best" /\ verified[i].doc = c.doc
            /\ \/ c.foreign /\ req.explicit /\ IsAudio(c)
               \/ States(req.text, c) \/ (c.clause = "states" /\ req.text = "cut")
               \/ /\ req.text = "completed"
                  /\ \E k \in DOMAIN verified : States("completed", source[verified[k].chunk])

\* A clause nobody had proposed is cited only from a recording the candidates
\* named, so one upload never vouches for a requirement of another
\* (_recover_audio_evidence_from_declared_source).
RecoveredFromDeclaredSource ==
    phase = "done" =>
        \A i \in DOMAIN verified : \E k \in DOMAIN spans :
            spans[k].chunk = verified[i].chunk \/ spans[k].doc = source[verified[i].chunk].doc

\* A requirement without a citation is reported and marked for review, the
\* reason the model gave for a review outlives the verification, and a
\* candidate from a doubtful transcription is never cited unmarked.
ReviewIsAccountedFor ==
    phase = "done" =>
        /\ verified = <<>> => /\ req.review
                              /\ issues \cap {"requirement_clause_integrity",
                                              "missing_verified_evidence"} # {}
        /\ req.asked => req.review
        /\ "low" \in issues => req.review

\* "Remove upstream evidence-only review markers after final verification":
\* the marker grounding itself gives a citation of doubtful transcription is
\* not an upstream marker (_clear_resolved_evidence_review).
DoubtfulCitationIsReviewed ==
    phase = "done" =>
        \A i \in DOMAIN verified : Doubtful(source[verified[i].chunk]) => req.review
=============================================================================
