---------------------------- MODULE EvidenceProofs ----------------------------
(***************************************************************************)
(* Proofs about Evidence for any chunks, any contents and any limits: what *)
(* is cited supports the requirement and comes from a declared document,   *)
(* and what needs a person is marked. The ranking plays no part in them;   *)
(* that the best lexical hit leads is a fact about the ranking, and the    *)
(* last part of the module proves it from how a ranking is built.          *)
(***************************************************************************)
EXTENDS Evidence, FiniteSetTheorems, SequenceTheorems, TLAPS

Marks == {"asked", "fixed", "weak", "evidence", "low", "incomplete", "cut"}

Requirement ==
    [text : Texts, explicit : BOOLEAN, asked : BOOLEAN, review : BOOLEAN,
     marks : SUBSET Marks, quoted : Int, matched : Int, at : Nat \ {0}]

Span ==
    [chunk : Chunks, doc : {"page", "call", "memo"},
     origin : {"extracted", "fallback", "retrieved"},
     quote : {"extracted", "best"}, support : Int]

Grounding == {"ground", "settle", "done"}

Typed ==
    /\ req \in Requirement
    /\ spans \in Seq(Span) /\ verified \in Seq(Span)
    /\ phase \in {"quotes", "hits"} \cup Grounding => source \in [Chunks -> Sources]
    /\ phase \in {"search", "ranked", "extract", "quotes", "hits"} \cup Grounding
    /\ phase \notin Grounding => verified = <<>> /\ issues = {} /\ req.text # "completed"

\* A marked requirement is to be reviewed, and the reasons that have to last
\* are marked.
Marked(r) ==
    /\ r.asked => "asked" \in r.marks
    /\ r.marks # {} => r.review

MarksOK ==
    /\ Marked(req)
    /\ "low" \in issues => "low" \in req.marks
    /\ phase = "done" /\ verified = <<>> =>
        /\ req.review
        /\ issues \cap {"requirement_clause_integrity", "missing_verified_evidence"} # {}

CitedClause(s) == source[s.chunk]

SupportsIt(s) ==
    /\ s.quote = "best" /\ s.doc = CitedClause(s).doc
    /\ \/ CitedClause(s).foreign /\ req.explicit /\ IsAudio(CitedClause(s))
       \/ ~CitedClause(s).foreign /\ CitedClause(s).clause = "states"
       \/ /\ ~CitedClause(s).foreign /\ CitedClause(s).clause = "more"
          /\ req.text = "completed"

Completes(s) == ~CitedClause(s).foreign /\ CitedClause(s).clause = "more"

\* A requirement that was completed has the citation it was completed from.
SupportOK ==
    /\ \A i \in DOMAIN verified : SupportsIt(verified[i])
    /\ verified # <<>> => req.text # "fragment"
    /\ req.text = "completed" => \E i \in DOMAIN verified : Completes(verified[i])

DeclaredOK ==
    \A i \in DOMAIN verified : \E k \in DOMAIN spans :
        spans[k].chunk = verified[i].chunk \/ spans[k].doc = source[verified[i].chunk].doc

Grounded == Typed /\ MarksOK /\ SupportOK /\ DeclaredOK

----------------------------------------------------------------------------
(* What the operators on a requirement do.                                 *)

LEMMA FlaggedIs ==
    ASSUME NEW r \in Requirement, NEW m \in Marks
    PROVE  /\ Flagged(r, m) \in Requirement
           /\ Flagged(r, m).text = r.text
           /\ Flagged(r, m).explicit = r.explicit
           /\ Flagged(r, m).asked = r.asked
           /\ Flagged(r, m).marks = r.marks \cup {m}
           /\ Flagged(r, m).review
BY DEF Flagged, Requirement

LEMMA AdvanceIs ==
    ASSUME NEW r \in Requirement
    PROVE  /\ Advance(r) \in Requirement
           /\ Advance(r).text = r.text
           /\ Advance(r).explicit = r.explicit
           /\ Advance(r).asked = r.asked
           /\ Advance(r).marks = r.marks
           /\ Advance(r).review = r.review
BY DEF Advance, Requirement

LEMMA ClearedIs ==
    ASSUME NEW r \in Requirement
    PROVE  /\ Cleared(r) \in Requirement
           /\ Cleared(r).text = r.text
           /\ Cleared(r).explicit = r.explicit
           /\ Cleared(r).asked = r.asked
           /\ Cleared(r).marks = r.marks \ {"fixed", "weak", "evidence", "low"}
           /\ Cleared(r).review <=> Cleared(r).marks # {}
BY DEF Cleared, Requirement

LEMMA RewordedIs ==
    ASSUME NEW r \in Requirement, NEW t \in Texts
    PROVE  LET n == [r EXCEPT !.text = t] IN
           /\ n \in Requirement
           /\ n.text = t
           /\ n.explicit = r.explicit
           /\ n.asked = r.asked
           /\ n.marks = r.marks
           /\ n.review = r.review
BY DEF Requirement

\* Flagging and advancing keep a requirement marked.
LEMMA MarkedStays ==
    ASSUME NEW r \in Requirement, Marked(r)
    PROVE  /\ \A m \in Marks : Marked(Flagged(r, m))
           /\ Marked(Advance(r)) /\ Marked(Cleared(r))
           /\ \A t \in Texts : Marked([r EXCEPT !.text = t])
BY FlaggedIs, AdvanceIs, ClearedIs, RewordedIs DEF Marked

LEMMA SupportIsInt == \A c \in Contents : Support(c) \in Int
BY DEF Contents, Clauses, Support

\* A clause that verifies states the text, or completes it.
LEMMA VerifiedClause ==
    ASSUME NEW c \in Contents, NEW t \in Texts, Verifies(CompletedFrom(t, c), c)
    PROVE  \/ c.clause = "states" /\ CompletedFrom(t, c) = t
           \/ c.clause = "more" /\ CompletedFrom(t, c) = "completed"
BY DEF Contents, Clauses, Texts, Verifies, Support, Strong, Contradicts, CoversFacts, CompletedFrom

\* A clause that says more always verifies the text completed from it.
LEMMA CompletionVerifies ==
    ASSUME NEW c \in Contents, NEW t \in Texts, CompletedFrom(t, c) # t
    PROVE  Verifies(CompletedFrom(t, c), c) /\ c.clause = "more"
BY DEF Contents, Clauses, Texts, Verifies, Support, Strong, Contradicts, CoversFacts, CompletedFrom

----------------------------------------------------------------------------
(* The steps before grounding.                                             *)

LEMMA GroundedInit == Init => Grounded
BY DEF Init, Grounded, Typed, MarksOK, Marked, SupportOK, DeclaredOK, Requirement, Texts, Grounding

\* Before grounding nothing is verified, and the rest of the invariant follows.
LEMMA EarlySuffices ==
    ASSUME Typed, phase \notin Grounding, Marked(req)
    PROVE  Grounded
BY DEF Grounded, Typed, MarksOK, SupportOK, DeclaredOK, Grounding

\* The first step of grounding starts from nothing verified as well.
LEMMA GroundSuffices ==
    ASSUME Typed, phase = "ground", verified = <<>>, issues = {}, Marked(req),
           req.text # "completed"
    PROVE  Grounded
BY DEF Grounded, Typed, MarksOK, SupportOK, DeclaredOK, Grounding

LEMMA MaxOfTwo == \A a, b \in Int : Max({a, b}) \in Int
<1> SUFFICES ASSUME NEW a \in Int, NEW b \in Int PROVE Max({a, b}) \in Int
  OBVIOUS
<1>1. \E x \in {a, b} : \A y \in {a, b} : x >= y
  BY DEF Max
<1> QED BY <1>1 DEF Max

\* What a requirement says and how it is marked, apart from the counters of
\* retrieval.
Same(r, p) ==
    /\ p \in Requirement
    /\ p.text = r.text /\ p.explicit = r.explicit /\ p.asked = r.asked
    /\ p.marks = r.marks /\ p.review = r.review

LEMMA SameMarked ==
    ASSUME NEW r, NEW p, Same(r, p), Marked(r)
    PROVE  Marked(p)
BY DEF Same, Marked

\* Setting a counter changes nothing else.
LEMMA CounterSame ==
    ASSUME NEW r \in Requirement, NEW n \in Int
    PROVE  /\ Same(r, [r EXCEPT !.at = 1])
           /\ Same(r, [r EXCEPT !.quoted = n])
           /\ Same(r, [r EXCEPT !.matched = n])
<1>1. Same(r, [r EXCEPT !.at = 1])
  <2> DEFINE p == [r EXCEPT !.at = 1]
  <2>1. p \in Requirement
    BY DEF Requirement
  <2>2. /\ p.text = r.text /\ p.explicit = r.explicit /\ p.asked = r.asked
        /\ p.marks = r.marks /\ p.review = r.review
    BY Zenon DEF Requirement
  <2> QED BY <2>1, <2>2 DEF Same
<1>2. Same(r, [r EXCEPT !.quoted = n])
  <2> DEFINE p == [r EXCEPT !.quoted = n]
  <2>1. p \in Requirement
    BY DEF Requirement
  <2>2. /\ p.text = r.text /\ p.explicit = r.explicit /\ p.asked = r.asked
        /\ p.marks = r.marks /\ p.review = r.review
    BY Zenon DEF Requirement
  <2> QED BY <2>1, <2>2 DEF Same
<1>3. Same(r, [r EXCEPT !.matched = n])
  <2> DEFINE p == [r EXCEPT !.matched = n]
  <2>1. p \in Requirement
    BY DEF Requirement
  <2>2. /\ p.text = r.text /\ p.explicit = r.explicit /\ p.asked = r.asked
        /\ p.marks = r.marks /\ p.review = r.review
    BY Zenon DEF Requirement
  <2> QED BY <2>1, <2>2 DEF Same
<1> QED BY <1>1, <1>2, <1>3

LEMMA CountersSame ==
    ASSUME NEW r \in Requirement
    PROVE  /\ Same(r, [r EXCEPT !.at = 1])
           /\ Same(r, [r EXCEPT !.at = 1, !.quoted = 0])
           /\ Same(r, [r EXCEPT !.at = 1, !.quoted = 0, !.matched = 0])
<1> DEFINE p == [r EXCEPT !.at = 1]
           q == [p EXCEPT !.quoted = 0]
           s == [q EXCEPT !.matched = 0]
<1>1. [r EXCEPT !.at = 1, !.quoted = 0] = q
  BY Zenon
<1>2. [r EXCEPT !.at = 1, !.quoted = 0, !.matched = 0] = s
  BY Zenon
<1>3. \A x \in Requirement : /\ Same(x, [x EXCEPT !.at = 1])
                             /\ Same(x, [x EXCEPT !.quoted = 0])
                             /\ Same(x, [x EXCEPT !.matched = 0])
  <2>1. 0 \in Int
    OBVIOUS
  <2> QED BY <2>1, CounterSame, Zenon
<1>4. Same(r, p) /\ p \in Requirement
  BY <1>3, Zenon DEF Same
<1>5. Same(p, q) /\ q \in Requirement
  BY <1>3, <1>4, Zenon DEF Same
<1>6. Same(q, s)
  BY <1>3, <1>5, Zenon
<1>7. Same(r, q) /\ Same(r, s)
  BY <1>4, <1>5, <1>6, Zenon DEF Same
<1> QED BY <1>1, <1>2, <1>4, <1>7, Zenon

LEMMA EarlySteps ==
    ASSUME Grounded, Search \/ Rank \/ QuotesScored \/ NoIndex \/ HitsWeighed
    PROVE  Grounded'
<1> USE DEF Grounded
<1>1. CASE Search \/ Rank
  <2>1. Typed' /\ (phase \notin Grounding)' /\ Marked(req)'
    BY <1>1 DEF Search, Rank, Typed, MarksOK, Marked, Grounding
  <2> QED BY <2>1, EarlySuffices, PTL
<1>2. CASE QuotesScored
  <2>1. req' \in Requirement /\ req'.text = req.text /\ Marked(req')
    <3>1. Same(req, req')
      BY <1>2, CountersSame, Zenon DEF QuotesScored, Typed
    <3> QED BY <3>1, SameMarked DEF MarksOK, Same
  <2>2. Typed' /\ (phase \notin Grounding)' /\ Marked(req)'
    BY <1>2, <2>1 DEF QuotesScored, Typed, Grounding, Marked
  <2> QED BY <2>2, EarlySuffices, PTL
<1>3. CASE NoIndex
  <2>0. Same(req, req')
    BY <1>3, CountersSame, Zenon DEF NoIndex, Typed
  <2>1. req' \in Requirement /\ req'.text = req.text /\ Marked(req')
    BY <2>0, SameMarked DEF MarksOK, Same
  <2>2. (/\ Typed /\ phase = "ground" /\ verified = <<>> /\ issues = {} /\ Marked(req)
         /\ req.text # "completed")'
    BY <1>3, <2>1 DEF NoIndex, Typed, Grounding, Marked
  <2> QED BY <2>2, GroundSuffices, PTL
<1>4. CASE HitsWeighed
  <2>1. PICK r \in {Flagged(req, "weak"), req} :
            req' = [r EXCEPT !.at = 1, !.quoted = 0, !.matched = 0]
    BY <1>4 DEF HitsWeighed
  <2>2. req \in Requirement /\ Marked(req)
    BY DEF Typed, MarksOK
  <2>3. r \in Requirement /\ r.text = req.text /\ Marked(r)
    BY <2>2, FlaggedIs, MarkedStays DEF Marks
  <2>4. req' \in Requirement /\ req'.text = req.text /\ Marked(req')
    <3>1. Same(r, req')
      BY <2>1, <2>3, CountersSame, Zenon
    <3> QED BY <2>3, <3>1, SameMarked DEF Same
  <2>5. (/\ Typed /\ phase = "ground" /\ verified = <<>> /\ issues = {} /\ Marked(req)
         /\ req.text # "completed")'
    BY <1>4, <2>4 DEF HitsWeighed, Typed, Grounding, Marked
  <2> QED BY <2>5, GroundSuffices, PTL
<1> QED BY <1>1, <1>2, <1>3, <1>4

LEMMA ExtractStep == ASSUME Grounded, Extract PROVE Grounded'
<1>1. source' \in [Chunks -> Sources] /\ Sources \subseteq Contents
  BY EvidenceAssumption DEF Extract
<1>2. Spans(source') \subseteq Span
  BY <1>1 DEF Spans, Span, Contents
<1>3. spans' \in Seq(Span)
  <2>1. PICK n \in 1 .. MaxQuotes : spans' \in [1 .. n -> Spans(source')]
    BY DEF Extract
  <2>2. n \in Nat
    BY EvidenceAssumption
  <2> QED BY <1>2, <2>1, <2>2
<1>4. req' \in Requirement /\ req'.text # "completed" /\ Marked(req')
  <2>1. PICK text \in {"whole", "cut", "fragment"}, explicit \in BOOLEAN, asked \in BOOLEAN,
             given \in {{"asked"}, {}}, fixed \in {{"fixed"}, {}} :
          /\ asked => given = {"asked"}
          /\ req' = [req EXCEPT !.text = text, !.explicit = explicit, !.asked = asked,
                                !.marks = given \cup fixed, !.review = given \cup fixed # {}]
    BY DEF Extract
  <2>2. req \in Requirement
    BY DEF Grounded, Typed
  <2>3. req'.asked = asked /\ req'.marks = given \cup fixed /\ req'.text = text
    BY <2>1, <2>2 DEF Requirement
  <2>4. req'.review = (given \cup fixed # {})
    BY <2>1, <2>2 DEF Requirement
  <2>5. req' \in Requirement
    BY <2>1, <2>2 DEF Requirement, Texts, Marks
  <2> QED BY <2>1, <2>3, <2>4, <2>5 DEF Marked
<1>5. Typed' /\ (phase \notin Grounding)' /\ Marked(req)'
  BY <1>1, <1>3, <1>4 DEF Extract, Grounded, Typed, Grounding, Marked
<1> QED BY <1>5, EarlySuffices, PTL

LEMMA ScoreQuoteStep == ASSUME Grounded, ScoreQuote PROVE Grounded'
<1> DEFINE c == source[spans[At].chunk]
<1>1. /\ req \in Requirement /\ Marked(req) /\ spans \in Seq(Span)
      /\ source \in [Chunks -> Sources] /\ Sources \subseteq Contents
      /\ phase = "quotes" /\ At \in 1 .. Len(spans)
  BY EvidenceAssumption DEF Grounded, Typed, MarksOK, ScoreQuote, Requirement, At
<1>2. spans[At] \in Span /\ c \in Contents
  <2>1. spans[At] \in Span
    BY <1>1
  <2>2. spans[At].chunk \in Chunks
    BY <2>1 DEF Span
  <2> QED BY <1>1, <2>1, <2>2
<1> HIDE DEF c
<1>3. PICK r \in {Flagged(req, "weak"), req}, n \in {0, Support(c)} :
        \/ req' = Advance(req) /\ UNCHANGED spans
        \/ /\ spans' = [spans EXCEPT ![At].quote = "best", ![At].support = n]
           /\ req' = Advance([r EXCEPT !.quoted = Max({@, n})])
  BY DEF ScoreQuote, c
<1>4. n \in Int
  BY <1>2, <1>3, SupportIsInt
<1>5. spans' \in Seq(Span)
  <2>1. [spans[At] EXCEPT !.quote = "best", !.support = n] \in Span
    BY <1>2, <1>4 DEF Span
  <2>2. [spans EXCEPT ![At] = [spans[At] EXCEPT !.quote = "best", !.support = n]] \in Seq(Span)
    BY <1>1, <2>1
  <2>3. [spans EXCEPT ![At].quote = "best", ![At].support = n]
            = [spans EXCEPT ![At] = [spans[At] EXCEPT !.quote = "best", !.support = n]]
    BY <1>1, <1>2 DEF Span
  <2> QED BY <1>1, <1>3, <2>2, <2>3
<1>6. req' \in Requirement /\ req'.text = req.text /\ Marked(req')
  <2>1. r \in Requirement /\ r.text = req.text /\ Marked(r)
    BY <1>1, FlaggedIs, MarkedStays DEF Marks
  <2>2. Max({r.quoted, n}) \in Int
    BY <1>4, <2>1, MaxOfTwo DEF Requirement
  <2>3. Same(r, [r EXCEPT !.quoted = Max({r.quoted, n})])
    BY <2>1, <2>2, CounterSame, Zenon
  <2>4. \/ req' = Advance(req)
        \/ req' = Advance([r EXCEPT !.quoted = Max({r.quoted, n})])
    BY <1>3
  <2>5. Marked([r EXCEPT !.quoted = Max({r.quoted, n})])
    BY <2>1, <2>3, SameMarked
  <2> DEFINE p == [r EXCEPT !.quoted = Max({r.quoted, n})]
  <2>6. p \in Requirement /\ p.text = req.text /\ Marked(p)
    BY <2>1, <2>3, <2>5 DEF Same
  <2>7. req' = Advance(req) \/ req' = Advance(p)
    BY <2>4
  <2> HIDE DEF p
  <2> QED BY <1>1, <2>6, <2>7, AdvanceIs, MarkedStays
<1>7. Typed' /\ (phase \notin Grounding)' /\ Marked(req)'
  BY <1>1, <1>5, <1>6 DEF ScoreQuote, Grounded, Typed, Grounding, Marked
<1> QED BY <1>7, EarlySuffices, PTL

LEMMA WeighHitStep == ASSUME Grounded, WeighHit PROVE Grounded'
<1> DEFINE chunk == hits[At]
           c == source[chunk]
<1>1. /\ req \in Requirement /\ Marked(req) /\ spans \in Seq(Span)
      /\ source \in [Chunks -> Sources] /\ Sources \subseteq Contents /\ phase = "hits"
  BY EvidenceAssumption DEF Grounded, Typed, MarksOK, WeighHit
<1>2. PICK r \in {Flagged(req, "weak"), req} :
        \/ req' = Advance(r) /\ UNCHANGED spans
        \/ /\ chunk \in Chunks
           /\ spans' = Append(spans, [chunk |-> chunk, doc |-> c.doc, origin |-> "retrieved",
                                      quote |-> "best", support |-> Strong])
           /\ req' = Advance([r EXCEPT !.matched = Strong])
  BY DEF WeighHit, Skipped
<1>3. spans' \in Seq(Span)
  <2>1. CASE chunk \in Chunks
    <3>1. c.doc \in {"page", "call", "memo"}
      BY <1>1, <2>1 DEF Contents
    <3>2. [chunk |-> chunk, doc |-> c.doc, origin |-> "retrieved",
           quote |-> "best", support |-> Strong] \in Span
      BY <2>1, <3>1 DEF Span, Strong
    <3> QED BY <1>1, <1>2, <3>2
  <2> QED BY <1>1, <1>2, <2>1
<1>4. req' \in Requirement /\ req'.text = req.text /\ Marked(req')
  <2>1. r \in Requirement /\ r.text = req.text /\ Marked(r)
    BY <1>1, FlaggedIs, MarkedStays DEF Marks
  <2>2. Same(r, [r EXCEPT !.matched = Strong])
    <3>1. Strong \in Int
      BY DEF Strong
    <3> QED BY <2>1, <3>1, CounterSame, Zenon
  <2>3. req' = Advance(r) \/ req' = Advance([r EXCEPT !.matched = Strong])
    BY <1>2
  <2>4. Marked([r EXCEPT !.matched = Strong])
    BY <2>1, <2>2, SameMarked
  <2> QED BY <2>1, <2>2, <2>3, <2>4, AdvanceIs, MarkedStays DEF Same
<1>5. Typed' /\ (phase \notin Grounding)' /\ Marked(req)'
  BY <1>1, <1>3, <1>4 DEF WeighHit, Grounded, Typed, Grounding, Marked
<1> QED BY <1>5, EarlySuffices, PTL

----------------------------------------------------------------------------
(* The steps of grounding.                                                 *)

\* As long as the text stays and nothing is verified, citations stay good.
LEMMA CitationsStay ==
    ASSUME Grounded, UNCHANGED <<spans, verified, source>>,
           req'.text = req.text, req'.explicit = req.explicit
    PROVE  SupportOK' /\ DeclaredOK'
BY DEF Grounded, SupportOK, DeclaredOK, SupportsIt, Completes, CitedClause

LEMMA IncompleteClauseStep == ASSUME Grounded, IncompleteClause PROVE Grounded'
<1>1. req \in Requirement /\ Marked(req) /\ req.text = "fragment" /\ verified = <<>>
  BY DEF Grounded, Typed, MarksOK, SupportOK, IncompleteClause, NeedsClauseReview
<1>2. /\ req' \in Requirement /\ req'.text = req.text /\ req'.explicit = req.explicit
      /\ Marked(req') /\ req'.review /\ req'.marks = req.marks \cup {"incomplete"}
  BY <1>1, FlaggedIs, MarkedStays DEF IncompleteClause, Marks
<1>3. SupportOK' /\ DeclaredOK'
  BY <1>2, CitationsStay DEF IncompleteClause
<1>4. Typed'
  BY <1>2 DEF Grounded, Typed, IncompleteClause, Grounding
<1>5. MarksOK'
  BY <1>1, <1>2 DEF Grounded, MarksOK, IncompleteClause, Marked
<1> QED BY <1>3, <1>4, <1>5 DEF Grounded

LEMMA VerifiedStep == ASSUME Grounded, Verified PROVE Grounded'
<1>1. SupportOK' /\ DeclaredOK'
  BY CitationsStay DEF Verified
<1> QED BY <1>1 DEF Grounded, Typed, MarksOK, Marked, Verified, Grounding

LEMMA SettleStep == ASSUME Grounded, Settle PROVE Grounded'
<1>1. PICK r \in {Flagged(req, "cut"), req} :
        IF verified = <<>>
        THEN /\ req' = Flagged(r, "evidence")
             /\ issues' = issues \cup {"missing_verified_evidence"}
        ELSE /\ req' = IF "low" \in issues THEN r ELSE Cleared(r)
             /\ UNCHANGED issues
  BY DEF Settle
<1>2. req \in Requirement /\ Marked(req) /\ ("low" \in issues => "low" \in req.marks)
  BY DEF Grounded, Typed, MarksOK
<1>3. /\ r \in Requirement /\ r.text = req.text /\ r.explicit = req.explicit
      /\ Marked(r) /\ ("low" \in issues => "low" \in r.marks)
  BY <1>2, FlaggedIs, MarkedStays DEF Marks
<1>4. /\ req' \in Requirement /\ req'.text = req.text /\ req'.explicit = req.explicit
      /\ Marked(req') /\ ("low" \in issues' => "low" \in req'.marks)
  <2>1. CASE verified = <<>>
    <3>1. req' = Flagged(r, "evidence") /\ ("low" \in issues' => "low" \in issues)
      BY <1>1, <2>1
    <3> QED BY <1>3, <3>1, FlaggedIs, MarkedStays DEF Marks
  <2>2. CASE verified # <<>> /\ "low" \in issues
    BY <1>1, <1>3, <2>2
  <2>3. CASE verified # <<>> /\ "low" \notin issues
    <3>1. req' = Cleared(r) /\ "low" \notin issues'
      BY <1>1, <2>3
    <3> QED BY <1>3, <3>1, ClearedIs, MarkedStays
  <2> QED BY <2>1, <2>2, <2>3
<1>5. verified = <<>> => req'.review /\ "missing_verified_evidence" \in issues'
  BY <1>1, <1>3, FlaggedIs DEF Marks
<1>6. SupportOK' /\ DeclaredOK'
  BY <1>4, CitationsStay DEF Settle
<1>7. Typed'
  BY <1>4 DEF Grounded, Typed, Settle, Grounding
<1>8. MarksOK'
  BY <1>4, <1>5 DEF Settle, MarksOK, Marked
<1> QED BY <1>6, <1>7, <1>8 DEF Grounded

\* One more citation, which supports the text as it now is: the others support
\* it as before, or the new one is what the text was completed from.
LEMMA CitationAdded ==
    ASSUME Grounded, phase \in Grounding, UNCHANGED <<spans, source>>,
           NEW s \in Span, verified' = Append(verified, s),
           req'.explicit = req.explicit, req.text # "fragment",
           SupportsIt(s)',
           \/ req'.text = req.text
           \/ req'.text = "completed" /\ Completes(s),
           \E k \in DOMAIN spans :
                spans[k].chunk = s.chunk \/ spans[k].doc = source[s.chunk].doc
    PROVE  SupportOK' /\ DeclaredOK' /\ verified' \in Seq(Span) /\ verified' # <<>>
<1>1. verified \in Seq(Span)
  BY DEF Grounded, Typed
<1>2. /\ verified' \in Seq(Span) /\ verified' # <<>>
      /\ \A i \in DOMAIN verified : i \in DOMAIN verified' /\ verified'[i] = verified[i]
      /\ \A i \in DOMAIN verified' : i \in DOMAIN verified \/ verified'[i] = s
      /\ \E i \in DOMAIN verified' : verified'[i] = s
  BY <1>1
<1>3. ASSUME NEW x \in Span, SupportsIt(x) PROVE SupportsIt(x)'
  BY <1>3 DEF SupportsIt, CitedClause, Completes
<1>4. \A i \in DOMAIN verified' : SupportsIt(verified[i])'
  <2>1. ASSUME NEW i \in DOMAIN verified', NEW x, x = verified'[i] PROVE SupportsIt(x)'
    BY <1>1, <1>2, <1>3, <2>1 DEF Grounded, SupportOK
  <2> QED BY <2>1 DEF SupportsIt, CitedClause
<1>5. req'.text # "fragment"
  OBVIOUS
<1>6. req'.text = "completed" => \E i \in DOMAIN verified' : Completes(verified[i])'
  <2>1. ASSUME NEW x \in Span, Completes(x) PROVE Completes(x)'
    BY <2>1 DEF Completes, CitedClause
  <2>2. req'.text = "completed" => \E i \in DOMAIN verified' : Completes(verified'[i])
    BY <1>1, <1>2 DEF Grounded, SupportOK
  <2> QED BY <1>2, <2>1, <2>2
<1>7. DeclaredOK'
  BY <1>2 DEF Grounded, DeclaredOK
<1> QED BY <1>2, <1>4, <1>5, <1>6, <1>7 DEF SupportOK

LEMMA CitedIs ==
    ASSUME NEW s \in Span
    PROVE  LET p == [s EXCEPT !.quote = "best", !.support = Strong] IN
           p \in Span /\ p.chunk = s.chunk /\ p.doc = s.doc /\ p.quote = "best"
<1> DEFINE p == [s EXCEPT !.quote = "best", !.support = Strong]
<1>0. Strong \in Int
  BY DEF Strong
<1>1. p \in Span
  BY <1>0, Zenon DEF Span
<1>2. p.chunk = s.chunk /\ p.doc = s.doc /\ p.quote = "best"
  BY Zenon DEF Span
<1> QED BY <1>1, <1>2

LEMMA CompletedIsText == \A t \in Texts, c \in Contents : CompletedFrom(t, c) \in Texts
BY DEF CompletedFrom, Texts

LEMMA VerifySpanStep == ASSUME Grounded, VerifySpan PROVE Grounded'
<1> DEFINE span == spans[At]
           c == source[span.chunk]
           same == span.doc = c.doc /\ ~c.foreign
           text == IF same THEN CompletedFrom(req.text, c) ELSE req.text
           r == [req EXCEPT !.text = text]
<1>1. /\ req \in Requirement /\ Marked(req) /\ spans \in Seq(Span) /\ verified \in Seq(Span)
      /\ source \in [Chunks -> Sources] /\ Sources \subseteq Contents
      /\ phase = "ground" /\ At \in DOMAIN spans
      /\ req.text \in Texts /\ req.text # "fragment"
      /\ ("low" \in issues => "low" \in req.marks)
  BY EvidenceAssumption DEF Grounded, Typed, MarksOK, VerifySpan, Requirement, At, Grounding,
                            NeedsClauseReview
<1>2. span \in Span /\ span.chunk \in Chunks /\ c \in Contents
  <2>1. span \in Span
    BY <1>1
  <2>2. span.chunk \in Chunks
    BY <2>1 DEF Span
  <2> QED BY <1>1, <2>1, <2>2
<1>3. text \in Texts
  BY <1>1, <1>2, CompletedIsText
<1>4. /\ r \in Requirement /\ r.text = text /\ r.explicit = req.explicit /\ Marked(r)
      /\ r.marks = req.marks
  BY <1>1, <1>3, RewordedIs, MarkedStays
<1>5. UNCHANGED <<phase, source, spans>>
  BY DEF VerifySpan
<1>6. CASE Rejects(span, c)
  <2>1. /\ req' = Advance(Flagged(r, "evidence")) /\ issues' = issues \cup {"rejected"}
        /\ verified' = verified
    BY <1>6 DEF VerifySpan
  <2>2. text = req.text
    BY <1>1, <1>2, <1>6, CompletionVerifies DEF Rejects
  <2> HIDE DEF r, text
  <2>3. /\ req' \in Requirement /\ req'.text = req.text /\ req'.explicit = req.explicit
        /\ Marked(req') /\ req.marks \subseteq req'.marks
    <3>1. /\ Flagged(r, "evidence") \in Requirement /\ Marked(Flagged(r, "evidence"))
          /\ Flagged(r, "evidence").text = r.text
          /\ Flagged(r, "evidence").explicit = r.explicit
          /\ Flagged(r, "evidence").marks = r.marks \cup {"evidence"}
      BY <1>4, FlaggedIs, MarkedStays DEF Marks
    <3> QED BY <1>4, <2>1, <2>2, <3>1, AdvanceIs, MarkedStays
  <2>4. SupportOK' /\ DeclaredOK'
    BY <1>5, <2>1, <2>3, CitationsStay
  <2>5. Typed'
    BY <1>1, <1>5, <2>1, <2>3 DEF Typed, Grounding
  <2>6. MarksOK'
    BY <1>1, <1>5, <2>1, <2>3 DEF MarksOK, Marked
  <2> QED BY <2>4, <2>5, <2>6 DEF Grounded
<1>7. CASE ~Rejects(span, c)
  <2> DEFINE cited == [span EXCEPT !.quote = "best", !.support = Strong]
  <2>1. /\ verified' = Append(verified, cited)
        /\ \/ req' = Advance(Flagged(r, "low")) /\ issues' = issues \cup {"low"}
           \/ req' = Advance(r) /\ UNCHANGED issues
    BY <1>7 DEF VerifySpan
  <2>2. /\ cited \in Span /\ cited.chunk = span.chunk /\ cited.doc = span.doc
        /\ cited.quote = "best"
    BY <1>2, CitedIs, Zenon
  <2>3. /\ span.doc = c.doc
        /\ \/ c.foreign /\ req.explicit /\ IsAudio(c) /\ text = req.text
           \/ ~c.foreign /\ c.clause = "states" /\ text = req.text
           \/ ~c.foreign /\ c.clause = "more" /\ text = "completed"
    BY <1>1, <1>2, <1>7, VerifiedClause DEF Rejects, ExplicitTranslation
  <2> HIDE DEF r, text, cited, c, span
  <2>4. /\ req' \in Requirement /\ req'.text = text /\ req'.explicit = req.explicit
        /\ Marked(req') /\ ("low" \in issues' => "low" \in req'.marks)
    <3>1. /\ Flagged(r, "low") \in Requirement /\ Marked(Flagged(r, "low"))
          /\ Flagged(r, "low").text = r.text
          /\ Flagged(r, "low").explicit = r.explicit
          /\ Flagged(r, "low").marks = r.marks \cup {"low"}
      BY <1>4, FlaggedIs, MarkedStays DEF Marks
    <3>2. CASE req' = Advance(Flagged(r, "low")) /\ issues' = issues \cup {"low"}
      BY <1>4, <3>1, <3>2, AdvanceIs, MarkedStays
    <3>3. CASE req' = Advance(r) /\ UNCHANGED issues
      BY <1>1, <1>4, <3>3, AdvanceIs, MarkedStays
    <3> QED BY <2>1, <3>2, <3>3
  <2>5. SupportOK' /\ DeclaredOK' /\ verified' \in Seq(Span) /\ verified' # <<>>
    <3>0. PICK s \in Span : s = cited
      BY <2>2
    <3>1. source[s.chunk] = c /\ s.quote = "best" /\ s.doc = c.doc
      BY <2>2, <2>3, <3>0 DEF c
    <3>2. SupportsIt(s)'
      BY <1>5, <2>3, <2>4, <3>1 DEF SupportsIt, CitedClause
    <3>3. \/ req'.text = req.text
          \/ req'.text = "completed" /\ Completes(s)
      BY <2>3, <2>4, <3>1 DEF Completes, CitedClause
    <3>4. \E k \in DOMAIN spans : spans[k].chunk = s.chunk
      BY <1>1, <2>2, <3>0 DEF span
    <3> QED BY <1>1, <1>5, <2>1, <2>4, <3>0, <3>2, <3>3, <3>4, CitationAdded DEF Grounding
  <2>6. Typed'
    BY <1>1, <1>5, <2>4, <2>5 DEF Typed, Grounding
  <2>7. MarksOK'
    BY <1>1, <1>5, <2>4, <2>5 DEF MarksOK
  <2> QED BY <2>5, <2>6, <2>7 DEF Grounded
<1> QED BY <1>6, <1>7

LEMMA RecoverStep == ASSUME Grounded, Recover PROVE Grounded'
<1>1. /\ req \in Requirement /\ Marked(req) /\ verified \in Seq(Span)
      /\ source \in [Chunks -> Sources] /\ Sources \subseteq Contents
      /\ phase = "ground" /\ phase' = "settle" /\ verified = <<>>
      /\ req.text \in Texts /\ req.text # "fragment" /\ req.text # "completed"
      /\ ("low" \in issues => "low" \in req.marks)
  BY EvidenceAssumption DEF Grounded, Typed, MarksOK, SupportOK, Recover, Requirement, Grounding,
                            NeedsClauseReview
<1>2. UNCHANGED <<source, spans, issues>>
  BY DEF Recover
<1>3. CASE UNCHANGED <<req, verified>>
  <2>1. SupportOK' /\ DeclaredOK'
    BY <1>2, <1>3, CitationsStay
  <2> QED BY <1>1, <1>2, <1>3, <2>1 DEF Grounded, Typed, MarksOK, Marked, Grounding
<1>4. ASSUME NEW chunk \in Chunks, Recoverable(chunk),
             LET c == source[chunk]
                 r == [req EXCEPT !.text = CompletedFrom(@, c)] IN
             IF Verifies(r.text, c)
             THEN /\ verified' = <<[chunk |-> chunk, doc |-> c.doc, origin |-> "retrieved",
                                    quote |-> "best", support |-> Strong]>>
                  /\ req' = IF c.low \/ c.artifact THEN Flagged(r, "low") ELSE r
             ELSE req' = r /\ UNCHANGED verified
      PROVE  Grounded'
  <2> DEFINE c == source[chunk]
             text == CompletedFrom(req.text, c)
             r == [req EXCEPT !.text = text]
             cited == [chunk |-> chunk, doc |-> c.doc, origin |-> "retrieved",
                       quote |-> "best", support |-> Strong]
  <2>1. c \in Contents /\ text \in Texts /\ c.doc \in {"page", "call", "memo"}
    <3>1. c \in Contents
      BY <1>1
    <3> QED BY <1>1, <3>1, CompletedIsText DEF Contents
  <2>2. /\ r \in Requirement /\ r.text = text /\ r.explicit = req.explicit /\ Marked(r)
        /\ r.marks = req.marks
    BY <1>1, <2>1, RewordedIs, MarkedStays
  <2>3. CASE ~Verifies(text, c)
    <3>1. text = req.text
      BY <1>1, <2>1, <2>3, CompletionVerifies
    <3>2. req' = r /\ verified' = verified
      BY <1>4, <2>2, <2>3
    <3>3. SupportOK' /\ DeclaredOK'
      BY <1>2, <2>2, <3>1, <3>2, CitationsStay
    <3> HIDE DEF r
    <3> QED BY <1>1, <1>2, <2>2, <3>1, <3>2, <3>3 DEF Grounded, Typed, MarksOK, Marked, Grounding
  <2>4. CASE Verifies(text, c)
    <3>1. /\ verified' = <<cited>>
          /\ req' = Flagged(r, "low") \/ req' = r
      BY <1>4, <2>2, <2>4
    <3>2. /\ ~c.foreign
          /\ \E k \in DOMAIN spans : spans[k].doc = c.doc
      BY <1>4 DEF Recoverable, DeclaredDocuments
    <3>3. \/ c.clause = "states" /\ text = req.text
          \/ c.clause = "more" /\ text = "completed"
      BY <1>1, <2>1, <2>4, VerifiedClause
    <3>4. PICK s \in Span : s = cited
      <4>1. cited \in Span
        BY <2>1 DEF Span, Strong
      <4> HIDE DEF cited
      <4> QED BY <4>1
    <3>5. source[s.chunk] = c /\ s.quote = "best" /\ s.doc = c.doc
      BY <3>4
    <3>6. verified' = Append(verified, s)
      BY <1>1, <3>1, <3>4
    <3> HIDE DEF r, c, text, cited
    <3>7. /\ req' \in Requirement /\ req'.text = text /\ req'.explicit = req.explicit
          /\ Marked(req') /\ req.marks \subseteq req'.marks
      <4>1. /\ Flagged(r, "low") \in Requirement /\ Marked(Flagged(r, "low"))
            /\ Flagged(r, "low").text = r.text
            /\ Flagged(r, "low").explicit = r.explicit
            /\ Flagged(r, "low").marks = r.marks \cup {"low"}
        BY <2>2, FlaggedIs, MarkedStays DEF Marks
      <4> QED BY <2>2, <3>1, <4>1
    <3>8. SupportsIt(s)'
      BY <1>2, <3>2, <3>3, <3>5, <3>7 DEF SupportsIt, CitedClause
    <3>9. \/ req'.text = req.text
          \/ req'.text = "completed" /\ Completes(s)
      BY <3>2, <3>3, <3>5, <3>7 DEF Completes, CitedClause
    <3>10. SupportOK' /\ DeclaredOK' /\ verified' \in Seq(Span) /\ verified' # <<>>
      BY <1>1, <1>2, <3>2, <3>5, <3>6, <3>7, <3>8, <3>9, CitationAdded DEF Grounding
    <3> QED BY <1>1, <1>2, <3>7, <3>10 DEF Grounded, Typed, MarksOK, Marked, Grounding
  <2> QED BY <2>3, <2>4
<1> QED BY <1>3, <1>4 DEF Recover

----------------------------------------------------------------------------
(* The theorems.                                                           *)

LEMMA GroundedStep == Grounded /\ [Next]_vars => Grounded'
<1> SUFFICES ASSUME Grounded, [Next]_vars PROVE Grounded'
  OBVIOUS
<1>1. CASE UNCHANGED vars
  BY <1>1 DEF vars, Grounded, Typed, MarksOK, Marked, SupportOK, SupportsIt, Completes,
              CitedClause, DeclaredOK
<1>2. CASE Next
  BY <1>2, EarlySteps, ExtractStep, ScoreQuoteStep, WeighHitStep, IncompleteClauseStep,
     VerifySpanStep, RecoverStep, VerifiedStep, SettleStep DEF Next
<1> QED BY <1>1, <1>2

THEOREM EvidenceGrounded == Spec => []Grounded
<1> QED BY GroundedInit, GroundedStep, PTL DEF Spec

\* Whatever extraction proposed, whatever retrieval found and in whatever
\* order, a published citation supports the requirement as it is published,
\* or an explicit translation does (evidence_grounding_node).
THEOREM CitationsSupport == Spec => []PublishedQuotesSupport
<1>1. Grounded => PublishedQuotesSupport
  <2> SUFFICES ASSUME Grounded, NEW i \in DOMAIN verified
               PROVE  LET c == source[verified[i].chunk] IN
                      /\ verified[i].quote = "best" /\ verified[i].doc = c.doc
                      /\ \/ c.foreign /\ req.explicit /\ IsAudio(c)
                         \/ States(req.text, c) \/ (c.clause = "states" /\ req.text = "cut")
                         \/ /\ req.text = "completed"
                            /\ \E k \in DOMAIN verified : States("completed", source[verified[k].chunk])
    BY DEF PublishedQuotesSupport
  <2>1. SupportsIt(verified[i])
    BY DEF Grounded, SupportOK
  <2>2. req.text = "completed" => \E k \in DOMAIN verified : Completes(verified[k])
    BY DEF Grounded, SupportOK
  <2> QED BY <2>1, <2>2 DEF SupportsIt, Completes, CitedClause, States
<1> QED BY <1>1, EvidenceGrounded, PTL

\* Of an upload nobody named, nothing is cited
\* (_recover_audio_evidence_from_declared_source).
THEOREM CitationsAreDeclared == Spec => []RecoveredFromDeclaredSource
<1>1. Grounded => RecoveredFromDeclaredSource
  BY DEF Grounded, DeclaredOK, RecoveredFromDeclaredSource
<1> QED BY <1>1, EvidenceGrounded, PTL

\* A requirement without a citation is reported and marked, a reason for a
\* review is never lost, and a citation from a doubtful transcription is
\* marked (_clear_resolved_evidence_review).
THEOREM ReviewsAreKept == Spec => []ReviewIsAccountedFor
<1>1. Grounded => ReviewIsAccountedFor
  BY DEF Grounded, MarksOK, Marked, ReviewIsAccountedFor
<1> QED BY <1>1, EvidenceGrounded, PTL

----------------------------------------------------------------------------
(* The ranking.                                                            *)

\* A strict total order on a set.
Orders(set, before) ==
    /\ \A x \in set : <<x, x>> \notin before
    /\ \A x, y, z \in set : <<x, y>> \in before /\ <<y, z>> \in before => <<x, z>> \in before
    /\ \A x, y \in set : x = y \/ <<x, y>> \in before \/ <<y, x>> \in before

\* Sorting by a strict total order gives every element once, in that order.
LEMMA InOrderIs ==
    ASSUME NEW set, IsFiniteSet(set), NEW before, Orders(set, before),
           NEW s, s = InOrder(set, before)
    PROVE  /\ s \in Seq(set) /\ Len(s) = Cardinality(set) /\ Cardinality(set) \in Nat
           /\ \A x \in set : \E i \in 1 .. Len(s) : s[i] = x
           /\ \A i, k \in 1 .. Len(s) : i < k => <<s[i], s[k]>> \in before
<1> DEFINE n == Cardinality(set)
           B(x) == {y \in set : <<y, x>> \in before}
           f == [x \in set |-> Cardinality(B(x)) + 1]
<1>1. n \in Nat
  BY FS_CardinalityType
<1>2. ASSUME NEW x \in set
      PROVE  Cardinality(B(x)) \in Nat /\ Cardinality(B(x)) < n /\ IsFiniteSet(B(x))
  <2>1. B(x) \in SUBSET set /\ x \notin B(x)
    BY DEF Orders
  <2>2. IsFiniteSet(B(x)) /\ Cardinality(B(x)) <= n /\ (n = Cardinality(B(x)) => set = B(x))
    BY <2>1, FS_Subset
  <2>3. Cardinality(B(x)) \in Nat
    BY <2>2, FS_CardinalityType
  <2> QED BY <1>1, <2>1, <2>2, <2>3
<1>3. ASSUME NEW x \in set, NEW y \in set, <<x, y>> \in before
      PROVE  Cardinality(B(x)) < Cardinality(B(y))
  <2>1. B(x) \in SUBSET B(y) /\ x \in B(y) /\ x \notin B(x)
    BY <1>3 DEF Orders
  <2>2. Cardinality(B(x)) <= Cardinality(B(y)) /\ (Cardinality(B(y)) = Cardinality(B(x)) => B(y) = B(x))
    BY <1>2, <2>1, FS_Subset
  <2> QED BY <1>2, <2>1, <2>2
<1> HIDE DEF B
<1>4. f \in Injection(set, 1 .. n)
  <2>1. f \in [set -> 1 .. n]
    BY <1>1, <1>2
  <2>2. ASSUME NEW x \in set, NEW y \in set, f[x] = f[y] PROVE x = y
    <3>1. Cardinality(B(x)) = Cardinality(B(y))
      BY <1>2, <2>2
    <3>2. <<x, y>> \notin before /\ <<y, x>> \notin before
      <4>1. Cardinality(B(x)) \in Nat /\ Cardinality(B(y)) \in Nat
        BY <1>2
      <4> HIDE DEF f
      <4> QED BY <1>3, <3>1, <4>1
    <3> HIDE DEF f
    <3> QED BY <3>2 DEF Orders
  <2> HIDE DEF f
  <2>3. DOMAIN f = set
    BY <2>1
  <2> QED BY <2>1, <2>2, <2>3 DEF Injection, IsInjective
<1>5. f \in Surjection(set, 1 .. n)
  <2>1. IsFiniteSet(1 .. n) /\ Cardinality(1 .. n) = n
    BY <1>1, FS_Interval
  <2> QED BY <1>4, <2>1, FS_Injection
<1>6. \A i \in 1 .. n : \E x \in set : Cardinality(B(x)) = i - 1
  <2>1. \A i \in 1 .. n : \E x \in set : f[x] = i
    <3> HIDE DEF f
    <3> QED BY <1>5 DEF Surjection
  <2> QED BY <1>1, <1>2, <2>1
<1>7. s = [i \in 1 .. n |-> CHOOSE x \in set : Cardinality(B(x)) = i - 1]
  BY DEF InOrder, B
<1>8. \A i \in 1 .. n : s[i] \in set /\ Cardinality(B(s[i])) = i - 1
  BY <1>6, <1>7
<1>9. s \in Seq(set) /\ Len(s) = n
  BY <1>1, <1>7, <1>8
<1>10. ASSUME NEW x \in set PROVE \E i \in 1 .. Len(s) : s[i] = x
  <2>1. Cardinality(B(x)) + 1 \in 1 .. n
    BY <1>1, <1>2
  <2>2. PICK i \in 1 .. n : i = Cardinality(B(x)) + 1
    BY <2>1
  <2>3. Cardinality(B(s[i])) = Cardinality(B(x)) /\ s[i] \in set
    BY <1>2, <1>8, <2>2
  <2>4. s[i] = x
    <3>1. <<s[i], x>> \notin before /\ <<x, s[i]>> \notin before
      <4> DEFINE y == s[i]
      <4>1. y \in set /\ Cardinality(B(y)) = Cardinality(B(x)) /\ Cardinality(B(x)) \in Nat
        BY <1>2, <2>3
      <4> HIDE DEF y
      <4>2. <<y, x>> \notin before /\ <<x, y>> \notin before
        BY <1>3, <4>1
      <4> QED BY <4>2 DEF y
    <3> QED BY <2>3, <3>1 DEF Orders
  <2> QED BY <1>9, <2>4
<1>11. ASSUME NEW i \in 1 .. n, NEW k \in 1 .. n, i < k PROVE <<s[i], s[k]>> \in before
  <2>1. s[i] \in set /\ s[k] \in set /\ Cardinality(B(s[i])) = i - 1 /\ Cardinality(B(s[k])) = k - 1
    BY <1>8
  <2>2. s[i] = s[k] \/ <<s[i], s[k]>> \in before \/ <<s[k], s[i]>> \in before
    BY <2>1 DEF Orders
  <2>3. s[i] # s[k]
    BY <1>1, <1>11, <2>1
  <2>4. <<s[k], s[i]>> \notin before
    <3>1. <<s[k], s[i]>> \in before => Cardinality(B(s[k])) < Cardinality(B(s[i]))
      BY <1>3, <2>1
    <3> QED BY <1>1, <1>11, <2>1, <3>1
  <2> QED BY <2>2, <2>3, <2>4
<1> QED BY <1>1, <1>9, <1>10, <1>11

\* Cutting a sequence off keeps its beginning.
LEMMA FirstOfIs ==
    ASSUME NEW S, NEW s \in Seq(S), NEW k \in Nat
    PROVE  /\ FirstOf(s, k) \in Seq(S) /\ Len(FirstOf(s, k)) <= Len(s)
           /\ k > 0 /\ s # <<>> => FirstOf(s, k) # <<>>
           /\ k = 0 => FirstOf(s, k) = <<>>
           /\ \A i \in 1 .. Len(FirstOf(s, k)) : i \in 1 .. Len(s) /\ FirstOf(s, k)[i] = s[i]
<1> DEFINE m == Min({k, Len(s)})
<1>1. m \in {k, Len(s)} /\ m <= k /\ m <= Len(s)
  <2>1. \E x \in {k, Len(s)} : \A y \in {k, Len(s)} : x =< y
    OBVIOUS
  <2> QED BY <2>1 DEF Min
<1>2. m \in Nat /\ FirstOf(s, k) = SubSeq(s, 1, m)
  BY <1>1 DEF FirstOf
<1> HIDE DEF m
<1>3. Len(FirstOf(s, k)) = m /\ \A i \in 1 .. m : FirstOf(s, k)[i] = s[i]
  BY <1>1, <1>2
<1>4. FirstOf(s, k) \in Seq(S)
  BY <1>1, <1>2
<1>5. k > 0 /\ s # <<>> => m > 0
  BY <1>1
<1> HIDE DEF FirstOf
<1> QED BY <1>1, <1>2, <1>3, <1>4, <1>5

\* By score and then by position is a strict total order.
LEMMA ByScoreOrders ==
    ASSUME NEW D \in SUBSET Int, NEW scores \in [D -> Int], NEW set \in SUBSET D
    PROVE  Orders(set, ByScore(scores))
<1>1. \A x, y \in D : <<x, y>> \in ByScore(scores) <=>
            scores[x] > scores[y] \/ (scores[x] = scores[y] /\ x < y)
  BY DEF ByScore
<1>2. \A x \in D : scores[x] \in Int /\ x \in Int
  OBVIOUS
<1>3. \A x \in set : x \in D
  OBVIOUS
<1> HIDE DEF ByScore
<1>4. \A x \in set : <<x, x>> \notin ByScore(scores)
  BY <1>1, <1>2, <1>3
<1>5. ASSUME NEW x \in set, NEW y \in set, NEW z \in set,
             <<x, y>> \in ByScore(scores), <<y, z>> \in ByScore(scores)
      PROVE  <<x, z>> \in ByScore(scores)
  <2>1. /\ scores[x] > scores[y] \/ (scores[x] = scores[y] /\ x < y)
        /\ scores[y] > scores[z] \/ (scores[y] = scores[z] /\ y < z)
    BY <1>1, <1>3, <1>5
  <2>2. scores[x] > scores[z] \/ (scores[x] = scores[z] /\ x < z)
    BY <1>2, <1>3, <2>1
  <2> QED BY <1>1, <1>3, <2>2
<1>6. ASSUME NEW x \in set, NEW y \in set
      PROVE  x = y \/ <<x, y>> \in ByScore(scores) \/ <<y, x>> \in ByScore(scores)
  BY <1>1, <1>2, <1>3
<1> QED BY <1>4, <1>5, <1>6 DEF Orders

\* A ranking cut off: what it holds, in which order, and what comes first.
LEMMA HitsAre ==
    ASSUME NEW D \in SUBSET Int, IsFiniteSet(D), NEW scores \in [D -> Int], NEW set \in SUBSET D,
           NEW h, h = FirstOf(InOrder(set, ByScore(scores)), TopK)
    PROVE  /\ h \in Seq(set) /\ ToSet(h) \subseteq set /\ IsFiniteSet(ToSet(h))
           /\ \A i, k \in 1 .. Len(h) : h[i] = h[k] => i = k
           /\ h # <<>> => TopK > 0 /\ h[1] \in set /\ \A c \in set : scores[h[1]] >= scores[c]
<1> DEFINE r == InOrder(set, ByScore(scores))
<1>1. Orders(set, ByScore(scores)) /\ IsFiniteSet(set)
  BY ByScoreOrders, FS_Subset
<1>2. /\ r \in Seq(set) /\ Len(r) \in Nat
      /\ \A x \in set : \E i \in 1 .. Len(r) : r[i] = x
      /\ \A i, k \in 1 .. Len(r) : i < k => <<r[i], r[k]>> \in ByScore(scores)
  BY <1>1, InOrderIs
<1>3. TopK \in Nat /\ h = FirstOf(r, TopK)
  BY EvidenceAssumption
<1> HIDE DEF r
<1>4. /\ h \in Seq(set) /\ Len(h) <= Len(r)
      /\ TopK = 0 => h = <<>>
      /\ \A i \in 1 .. Len(h) : i \in 1 .. Len(r) /\ h[i] = r[i]
  BY <1>2, <1>3, FirstOfIs
<1>5. ToSet(h) \subseteq set /\ IsFiniteSet(ToSet(h))
  <2>1. ToSet(h) \in SUBSET set
    BY <1>4 DEF ToSet
  <2> QED BY <1>1, <2>1, FS_Subset
<1>6. ASSUME NEW i \in 1 .. Len(h), NEW k \in 1 .. Len(h), h[i] = h[k] PROVE i = k
  <2>1. i \in 1 .. Len(r) /\ k \in 1 .. Len(r) /\ r[i] = r[k] /\ r[i] \in set
    BY <1>2, <1>4, <1>6
  <2>2. ~(i < k) /\ ~(k < i)
    BY <1>1, <1>2, <2>1 DEF Orders
  <2> QED BY <2>1, <2>2
<1>7. ASSUME h # <<>>, NEW c \in set
      PROVE  TopK > 0 /\ h[1] \in set /\ scores[h[1]] >= scores[c]
  <2>1. TopK > 0 /\ 1 \in 1 .. Len(h)
    BY <1>3, <1>4, <1>7
  <2>2. h[1] = r[1] /\ h[1] \in set
    BY <1>4, <2>1
  <2>3. PICK k \in 1 .. Len(r) : r[k] = c
    BY <1>2
  <2>4. k = 1 \/ <<h[1], c>> \in ByScore(scores)
    BY <1>2, <1>4, <2>1, <2>2, <2>3
  <2>5. scores[h[1]] \in Int /\ scores[c] \in Int
    BY <2>2
  <2>6. scores[h[1]] >= scores[c]
    <3>1. k = 1 => h[1] = c
      BY <2>2, <2>3
    <3>2. ASSUME NEW x, NEW y, <<x, y>> \in ByScore(scores)
          PROVE  scores[x] > scores[y] \/ scores[x] = scores[y]
      BY <3>2 DEF ByScore
    <3> QED BY <2>4, <2>5, <3>1, <3>2
  <2> QED BY <2>1, <2>2, <2>6
<1>8. h # <<>> => TopK > 0 /\ h[1] \in set
  <2>1. h # <<>> => 1 \in 1 .. Len(h)
    BY <1>4
  <2> QED BY <1>3, <1>4, <2>1
<1> QED BY <1>4, <1>5, <1>6, <1>7, <1>8

\* A share is at most ten tenths, the best has them all, and a score that is
\* not negative has a share that is not.
LEMMA NormalisedIs ==
    ASSUME NEW D, NEW scores \in [D -> {-1, 0, 1, 2}], NEW c \in D
    PROVE  /\ Normalised(scores, c) \in Int /\ Normalised(scores, c) <= 10
           /\ scores[c] >= 0 => Normalised(scores, c) >= 0
           /\ scores[c] > 0 /\ (\A x \in D : scores[c] >= scores[x]) => Normalised(scores, c) = 10
<1> DEFINE V == {scores[x] : x \in DOMAIN scores}
           top == Max(V)
<1>1. V \subseteq {-1, 0, 1, 2} /\ scores[c] \in V
  OBVIOUS
<1>2. top \in V /\ \A y \in V : top >= y
  <2>1. \E x \in V : \A y \in V : x >= y
    <3> HIDE DEF V
    <3>1. CASE 2 \in V
      BY <1>1, <3>1
    <3>2. CASE 2 \notin V /\ 1 \in V
      BY <1>1, <3>2
    <3>3. CASE 2 \notin V /\ 1 \notin V /\ 0 \in V
      BY <1>1, <3>3
    <3>4. CASE 2 \notin V /\ 1 \notin V /\ 0 \notin V
      BY <1>1, <3>4
    <3> QED BY <3>1, <3>2, <3>3, <3>4
  <2> HIDE DEF V
  <2> QED BY <2>1 DEF Max
<1>3. Normalised(scores, c) = IF top <= 0 THEN 0 ELSE (10 * scores[c]) \div top
  BY DEF Normalised
<1>4. scores[c] > 0 /\ (\A x \in D : scores[c] >= scores[x]) => top = scores[c]
  BY <1>1, <1>2
<1>5. top \in {-1, 0, 1, 2} /\ scores[c] \in {-1, 0, 1, 2} /\ top >= scores[c]
  BY <1>1, <1>2
<1> HIDE DEF top
<1> DEFINE v == scores[c]
<1>6. v \in {-1, 0, 1, 2} /\ top \in {-1, 0, 1, 2} /\ top >= v
  BY <1>5
<1> HIDE DEF v
<1>7. LET q == IF top <= 0 THEN 0 ELSE (10 * v) \div top IN
      q \in Int /\ q <= 10 /\ (v >= 0 => q >= 0) /\ (v > 0 /\ top = v => q = 10)
  <2>1. /\ (10 * (-1)) \div 1 = -10 /\ (10 * (-1)) \div 2 = -5 
        /\ (10 * 0) \div 1 = 0 /\ (10 * 0) \div 2 = 0 /\ (10 * 1) \div 1 = 10
        /\ (10 * 1) \div 2 = 5 /\ (10 * 2) \div 2 = 10
    BY SMTT(30)
  <2> QED BY <1>6, <2>1
<1> QED BY <1>3, <1>4, <1>7 DEF v

\* The place of an element of a sequence without repeats.
LEMMA PlaceIs ==
    ASSUME NEW S, NEW s \in Seq(S), \A i, k \in 1 .. Len(s) : s[i] = s[k] => i = k
    PROVE  /\ \A c \in ToSet(s) : PlaceIn(s, c) \in 1 .. Len(s) /\ s[PlaceIn(s, c)] = c
           /\ s # <<>> => PlaceIn(s, s[1]) = 1 /\ s[1] \in ToSet(s)
<1>1. DOMAIN s = 1 .. Len(s) /\ Len(s) \in Nat
  OBVIOUS
<1>2. ASSUME NEW c \in ToSet(s) PROVE PlaceIn(s, c) \in 1 .. Len(s) /\ s[PlaceIn(s, c)] = c
  <2>1. \E i \in DOMAIN s : s[i] = c
    BY DEF ToSet
  <2> QED BY <1>1, <2>1 DEF PlaceIn
<1>3. ASSUME s # <<>> PROVE PlaceIn(s, s[1]) = 1 /\ s[1] \in ToSet(s)
  <2>1. 1 \in 1 .. Len(s)
    BY <1>3
  <2>2. s[1] \in ToSet(s)
    BY <1>1, <2>1 DEF ToSet
  <2> QED BY <1>2, <2>1, <2>2
<1> QED BY <1>2, <1>3

\* What merge_hits gives a chunk: the best lexical hit at least half of all,
\* and what only one of the searches found at most that.
LEMMA MergedScoreIs ==
    ASSUME NEW L, NEW V, NEW ls \in [L -> {-1, 0, 1, 2}], NEW vs \in [V -> {-1, 0, 1, 2}],
           NEW c \in L \cup V
    PROVE  /\ MergedScore(ls, vs, c) \in Int
           /\ c \notin L \cap V => MergedScore(ls, vs, c) <= 50
           /\ /\ c \in L /\ ls[c] > 0 /\ \A x \in L : ls[c] >= ls[x]
              /\ c \in V => vs[c] >= 0
              => MergedScore(ls, vs, c) >= 50
<1> DEFINE p == IF c \in L THEN 5 * Normalised(ls, c) ELSE 0
           q == IF c \in V THEN 5 * Normalised(vs, c) ELSE 0
<1>1. MergedScore(ls, vs, c) = p + q + (IF c \in L \cap V THEN 10 ELSE 0)
  BY DEF MergedScore, Weight, AgreementBoost
<1>2. /\ p \in Int /\ p <= 50 /\ (c \notin L => p = 0)
      /\ c \in L /\ ls[c] > 0 /\ (\A x \in L : ls[c] >= ls[x]) => p = 50
  BY NormalisedIs
<1>3. /\ q \in Int /\ q <= 50 /\ (c \notin V => q = 0)
      /\ (c \in V => vs[c] >= 0) => q >= 0
  BY NormalisedIs
<1> HIDE DEF p, q
<1> QED BY <1>1, <1>2, <1>3

----------------------------------------------------------------------------
\* The parts of merge_hits.
LScores(lex) == [c \in ToSet(LexicalHits(lex)) |-> lex[c]]
VScores(vec) == [c \in ToSet(VectorHits(vec)) |-> vec[c]]
Found(lex, vec) == ToSet(LexicalHits(lex)) \cup ToSet(VectorHits(vec))
ScoreOf(lex, vec) ==
    [c \in Found(lex, vec) |-> MergedScore(LScores(lex), VScores(vec), c)]
PlaceOf(lex, vec) ==
    [c \in Found(lex, vec) |->
        IF c \in ToSet(LexicalHits(lex)) THEN PlaceIn(LexicalHits(lex), c)
        ELSE Len(LexicalHits(lex)) + PlaceIn(VectorHits(vec), c)]
Above(set, score, place) ==
    {p \in set \X set :
        \/ score[p[1]] > score[p[2]]
        \/ score[p[1]] = score[p[2]] /\ place[p[1]] < place[p[2]]}

\* merge_hits ranks by these scores and places.
LEMMA MergedIs ==
    ASSUME NEW lex, NEW vec
    PROVE  Merged(lex, vec) =
             FirstOf(InOrder(Found(lex, vec),
                             Above(Found(lex, vec), ScoreOf(lex, vec), PlaceOf(lex, vec))), TopK)
BY DEF Merged, LScores, VScores, Found, ScoreOf, PlaceOf, Above

\* By score and then by insertion is a strict total order.
LEMMA AboveOrders ==
    ASSUME NEW set, NEW score \in [set -> Int], NEW place \in [set -> Int],
           \A x, y \in set : place[x] = place[y] => x = y
    PROVE  /\ Orders(set, Above(set, score, place))
           /\ \A x, y \in set : <<x, y>> \in Above(set, score, place) <=>
                    score[x] > score[y] \/ (score[x] = score[y] /\ place[x] < place[y])
<1> DEFINE B == Above(set, score, place)
<1>1. \A x, y \in set : <<x, y>> \in B <=>
            score[x] > score[y] \/ (score[x] = score[y] /\ place[x] < place[y])
  BY DEF Above
<1>2. \A x \in set : score[x] \in Int /\ place[x] \in Int
  OBVIOUS
<1> HIDE DEF B
<1>3. \A x \in set : <<x, x>> \notin B
  BY <1>1, <1>2
<1>4. ASSUME NEW x \in set, NEW y \in set, NEW z \in set, <<x, y>> \in B, <<y, z>> \in B
      PROVE  <<x, z>> \in B
  <2>1. /\ score[x] > score[y] \/ (score[x] = score[y] /\ place[x] < place[y])
        /\ score[y] > score[z] \/ (score[y] = score[z] /\ place[y] < place[z])
    BY <1>1, <1>4
  <2>2. score[x] > score[z] \/ (score[x] = score[z] /\ place[x] < place[z])
    BY <1>2, <2>1
  <2> QED BY <1>1, <2>2
<1>5. ASSUME NEW x \in set, NEW y \in set PROVE x = y \/ <<x, y>> \in B \/ <<y, x>> \in B
  BY <1>1, <1>2
<1>6. Orders(set, B)
  BY <1>3, <1>4, <1>5 DEF Orders
<1> QED BY <1>1, <1>6 DEF B

\* Chunks whose embeddings a search may find.
Fetched == SUBSET (Chunks \cup {Stale})

LEMMA ChunksFinite ==
    /\ Chunks \in SUBSET Int /\ IsFiniteSet(Chunks)
    /\ \A f \in Fetched : f \in SUBSET Int /\ IsFiniteSet(f)
<1>1. Chunks \in SUBSET Int /\ IsFiniteSet(Chunks)
  <2>1. Cardinality(Chunks) \in Nat
    BY EvidenceAssumption, FS_CardinalityType
  <2> QED BY <2>1, EvidenceAssumption
<1>2. IsFiniteSet(Chunks \cup {Stale})
  BY <1>1, FS_Singleton, FS_Union
<1>3. Stale \in Int
  BY DEF Stale
<1> QED BY <1>1, <1>2, <1>3, FS_Subset DEF Fetched

\* What only one search found stays behind the best lexical hit.
LEMMA MergedLeads ==
    ASSUME NEW lex \in [Chunks -> Scores], NEW f \in Fetched, NEW vec \in [f -> Similarities],
           LexicalHits(lex) # <<>>,
           LexicalHits(lex)[1] \in f => vec[LexicalHits(lex)[1]] >= 0,
           NEW i \in DOMAIN Merged(lex, vec),
           \A k \in 1 .. i : Merged(lex, vec)[k] # LexicalHits(lex)[1]
    PROVE  Merged(lex, vec)[i] \in Chunks \cap f /\ lex[Merged(lex, vec)[i]] > 0
<1> DEFINE L == LexicalHits(lex)
           V == VectorHits(vec)
           best == L[1]
           T == {c \in Chunks : lex[c] > 0}
           F == Found(lex, vec)
           score == ScoreOf(lex, vec)
           place == PlaceOf(lex, vec)
           R == InOrder(F, Above(F, score, place))
           M == Merged(lex, vec)
<1>1. /\ L \in Seq(T) /\ ToSet(L) \subseteq T /\ IsFiniteSet(ToSet(L))
      /\ \A j, k \in 1 .. Len(L) : L[j] = L[k] => j = k
      /\ TopK > 0 /\ best \in T /\ \A c \in T : lex[best] >= lex[c]
  <2>1. lex \in [Chunks -> Int] /\ T \in SUBSET Chunks /\ L # <<>>
    BY DEF Scores
  <2>2. L = FirstOf(InOrder(T, ByScore(lex)), TopK)
    BY DEF LexicalHits
  <2> HIDE DEF L, T
  <2> QED BY <2>1, <2>2, ChunksFinite, HitsAre
<1>2. /\ V \in Seq(f) /\ ToSet(V) \subseteq f /\ IsFiniteSet(ToSet(V))
      /\ \A j, k \in 1 .. Len(V) : V[j] = V[k] => j = k
  <2>1. vec \in [f -> Int] /\ f \in SUBSET f /\ f \in SUBSET Int /\ IsFiniteSet(f)
    BY ChunksFinite DEF Similarities
  <2>2. V = FirstOf(InOrder(f, ByScore(vec)), TopK)
    BY DEF VectorHits
  <2> HIDE DEF V
  <2> QED BY <2>1, <2>2, HitsAre
<1>3. /\ LScores(lex) \in [ToSet(L) -> {-1, 0, 1, 2}] /\ VScores(vec) \in [ToSet(V) -> {-1, 0, 1, 2}]
      /\ \A c \in ToSet(L) : LScores(lex)[c] = lex[c]
      /\ \A c \in ToSet(V) : VScores(vec)[c] = vec[c]
  <2>1. \A c \in Chunks : lex[c] \in {-1, 0, 1, 2}
    BY DEF Scores
  <2>2. \A c \in f : vec[c] \in {-1, 0, 1, 2}
    BY DEF Similarities
  <2>3. ToSet(L) \subseteq Chunks
    BY <1>1
  <2> HIDE DEF L, V, T
  <2>4. LScores(lex) = [c \in ToSet(L) |-> lex[c]] /\ VScores(vec) = [c \in ToSet(V) |-> vec[c]]
    BY DEF LScores, VScores, L, V
  <2> QED BY <1>2, <2>1, <2>2, <2>3, <2>4
<1>4. F = ToSet(L) \cup ToSet(V) /\ best \in ToSet(L) /\ IsFiniteSet(F)
  <2>1. F = ToSet(L) \cup ToSet(V)
    BY DEF Found
  <2>2. L # <<>>
    OBVIOUS
  <2> HIDE DEF L, V, F, T
  <2> QED BY <1>1, <1>2, <2>1, <2>2, PlaceIs, FS_Union
<1>5. /\ \A c \in F : score[c] \in Int
      /\ score \in [F -> Int]
      /\ score[best] >= 50
      /\ \A c \in F : c \notin ToSet(L) \cap ToSet(V) => score[c] <= 50
  <2>1. score = [c \in F |-> MergedScore(LScores(lex), VScores(vec), c)]
    BY DEF ScoreOf
  <2>2. \A c \in F : /\ MergedScore(LScores(lex), VScores(vec), c) \in Int
                     /\ c \notin ToSet(L) \cap ToSet(V) =>
                            MergedScore(LScores(lex), VScores(vec), c) <= 50
    <3> HIDE DEF L, V, F
    <3> QED BY <1>3, <1>4, MergedScoreIs
  <2>3. /\ LScores(lex)[best] > 0 /\ \A c \in ToSet(L) : LScores(lex)[best] >= LScores(lex)[c]
        /\ best \in ToSet(V) => VScores(vec)[best] >= 0
    <3>1. best \in ToSet(V) => vec[best] >= 0
      BY <1>2
    <3>2. lex[best] > 0 /\ \A c \in ToSet(L) : lex[best] >= lex[c]
      BY <1>1
    <3> HIDE DEF L, V, T, best
    <3> QED BY <1>3, <1>4, <3>1, <3>2
  <2>4. MergedScore(LScores(lex), VScores(vec), best) >= 50
    <3> HIDE DEF L, V, F, best
    <3> QED BY <1>3, <1>4, <2>3, MergedScoreIs
  <2> HIDE DEF L, V, F, score, best
  <2> QED BY <1>4, <2>1, <2>2, <2>4
<1>6. /\ place \in [F -> Int] /\ place[best] = 1
      /\ \A c \in F : c # best => place[c] > 1
      /\ \A x, y \in F : place[x] = place[y] => x = y
  <2>1. place = [c \in F |-> IF c \in ToSet(L) THEN PlaceIn(L, c) ELSE Len(L) + PlaceIn(V, c)]
    BY DEF PlaceOf
  <2>2. /\ \A c \in ToSet(L) : PlaceIn(L, c) \in 1 .. Len(L) /\ L[PlaceIn(L, c)] = c
        /\ PlaceIn(L, best) = 1
    <3>1. L # <<>>
      OBVIOUS
    <3>2. best = L[1]
      OBVIOUS
    <3> HIDE DEF L, best, T
    <3> QED BY <1>1, <3>1, <3>2, PlaceIs
  <2>3. \A c \in ToSet(V) : PlaceIn(V, c) \in 1 .. Len(V) /\ V[PlaceIn(V, c)] = c
    <3> HIDE DEF V
    <3> QED BY <1>2, PlaceIs
  <2>4. Len(L) \in Nat /\ Len(V) \in Nat /\ Len(L) >= 1
    <3>1. L # <<>>
      OBVIOUS
    <3> HIDE DEF L, V, best, T
    <3> QED BY <1>1, <1>2, <3>1
  <2>5. best = L[1]
    OBVIOUS
  <2> HIDE DEF L, V, F, T, place, best
  <2>6. \A c \in F : c \in ToSet(L) \/ c \in ToSet(V)
    BY <1>4
  <2>7. \A c \in F : /\ c \in ToSet(L) => place[c] \in 1 .. Len(L) /\ L[place[c]] = c
                     /\ c \notin ToSet(L) => /\ place[c] - Len(L) \in 1 .. Len(V)
                                             /\ V[place[c] - Len(L)] = c
                     /\ place[c] \in Int
    <3>1. ASSUME NEW c \in F, c \in ToSet(L) PROVE place[c] \in 1 .. Len(L) /\ L[place[c]] = c
      BY <2>1, <2>2, <3>1
    <3>2. ASSUME NEW c \in F, c \notin ToSet(L)
          PROVE  /\ place[c] - Len(L) \in 1 .. Len(V) /\ V[place[c] - Len(L)] = c
                 /\ place[c] \in Int
      <4>1. place[c] = Len(L) + PlaceIn(V, c) /\ PlaceIn(V, c) \in 1 .. Len(V) /\ V[PlaceIn(V, c)] = c
        BY <2>1, <2>3, <2>6, <3>2
      <4>2. place[c] - Len(L) = PlaceIn(V, c) /\ place[c] \in Int
        BY <2>4, <4>1
      <4> QED BY <4>1, <4>2
    <3> QED BY <3>1, <3>2
  <2>8. place[best] = 1
    BY <1>4, <2>1, <2>2
  <2>9. ASSUME NEW x \in F, NEW y \in F, place[x] = place[y] PROVE x = y
    <3>1. x \in ToSet(L) <=> y \in ToSet(L)
      BY <2>4, <2>7, <2>9
    <3> QED BY <2>7, <2>9, <3>1
  <2>10. ASSUME NEW c \in F, c # best PROVE place[c] > 1
    <3>1. best \in F /\ place[c] # 1
      BY <1>4, <2>8, <2>9, <2>10
    <3>2. place[c] >= 1
      BY <2>4, <2>7
    <3> QED BY <2>7, <3>1, <3>2
  <2>11. place \in [F -> Int]
    BY <2>1, <2>7
  <2> QED BY <2>8, <2>9, <2>10, <2>11
<1>7. /\ R \in Seq(F) /\ \E j \in 1 .. Len(R) : R[j] = best
      /\ \A j, k \in 1 .. Len(R) : j < k =>
            \/ score[R[j]] > score[R[k]]
            \/ score[R[j]] = score[R[k]] /\ place[R[j]] < place[R[k]]
  <2>1. best \in F /\ R = InOrder(F, Above(F, score, place))
    BY <1>4
  <2> HIDE DEF F, score, place, R, best
  <2>2. /\ Orders(F, Above(F, score, place))
        /\ \A x, y \in F : <<x, y>> \in Above(F, score, place) <=>
                score[x] > score[y] \/ (score[x] = score[y] /\ place[x] < place[y])
    BY <1>5, <1>6, AboveOrders
  <2>3. /\ R \in Seq(F) /\ \A x \in F : \E j \in 1 .. Len(R) : R[j] = x
        /\ \A j, k \in 1 .. Len(R) : j < k => <<R[j], R[k]>> \in Above(F, score, place)
    <3> DEFINE b == Above(F, score, place)
    <3>1. IsFiniteSet(F) /\ Orders(F, b) /\ R = InOrder(F, b)
      BY <1>4, <2>1, <2>2
    <3> HIDE DEF b
    <3>2. /\ R \in Seq(F) /\ \A x \in F : \E j \in 1 .. Len(R) : R[j] = x
          /\ \A j, k \in 1 .. Len(R) : j < k => <<R[j], R[k]>> \in b
      BY <3>1, InOrderIs
    <3> QED BY <3>2 DEF b
  <2>4. \A j \in 1 .. Len(R) : R[j] \in F
    BY <2>3
  <2> QED BY <2>1, <2>2, <2>3, <2>4
<1>8. M = FirstOf(R, TopK)
  BY MergedIs
<1>9. i \in DOMAIN M /\ \A k \in 1 .. i : M[k] # best
  OBVIOUS
<1>10. M[i] \in ToSet(L) \cap ToSet(V)
  <2> HIDE DEF L, V, F, T, score, place, R, M, best
  <2>1. /\ M \in Seq(F) /\ \A k \in 1 .. Len(M) : k \in 1 .. Len(R) /\ M[k] = R[k]
    BY <1>7, <1>8, EvidenceAssumption, FirstOfIs
  <2>2. i \in 1 .. Len(M) /\ \A k \in 1 .. i : k \in 1 .. Len(M)
    BY <1>9, <2>1
  <2>3. PICK j \in 1 .. Len(R) : R[j] = best
    BY <1>7
  <2>4. i < j
    <3>1. j \in 1 .. i => M[j] = best
      BY <2>1, <2>2, <2>3
    <3> QED BY <1>9, <2>2, <3>1
  <2>5. R[i] \in F /\ R[i] # best /\ M[i] = R[i]
    <3>1. M[i] = R[i] /\ i \in 1 .. i
      BY <2>1, <2>2
    <3> QED BY <1>7, <1>9, <2>1, <2>2, <3>1
  <2>6. \/ score[R[i]] > score[best]
        \/ score[R[i]] = score[best] /\ place[R[i]] < place[best]
    BY <1>7, <2>1, <2>2, <2>3, <2>4
  <2>7. score[R[i]] \in Int /\ score[best] \in Int /\ place[R[i]] > 1 /\ place[R[i]] \in Int
    BY <1>4, <1>5, <1>6, <2>5
  <2>8. score[R[i]] > 50
    BY <1>5, <1>6, <2>6, <2>7
  <2>9. ~(score[R[i]] <= 50)
    BY <2>7, <2>8
  <2> QED BY <1>5, <2>5, <2>9
<1>11. M[i] \in T /\ M[i] \in f
  BY <1>1, <1>2, <1>10
<1> QED BY <1>11

\* What Rank finds, the two searches returned.
Searched ==
    phase = "ranked" =>
        /\ lexical \in [Chunks -> Scores]
        /\ \E f \in Fetched : vector \in [f -> Similarities]

\* No step but Search leads to the ranking.
LEMMA SearchedAlways == Spec => []Searched
<1>1. Init => Searched
  BY DEF Init, Searched
<1>2. Searched /\ [Next]_vars => Searched'
  <2> SUFFICES ASSUME Searched, [Next]_vars PROVE Searched'
    OBVIOUS
  <2>1. CASE Search
    BY <2>1 DEF Search, Searched, Fetched
  <2>2. CASE UNCHANGED vars
    BY <2>2 DEF vars, Searched
  <2>3. CASE Next /\ ~Search
    <3>1. phase' # "ranked"
      <4>1. Rank \/ Extract \/ QuotesScored \/ NoIndex \/ HitsWeighed \/ IncompleteClause
              \/ Recover \/ Verified \/ Settle => phase' # "ranked"
        BY DEF Rank, Extract, QuotesScored, NoIndex, HitsWeighed, IncompleteClause, Recover,
               Verified, Settle
      <4>2. ScoreQuote \/ WeighHit \/ VerifySpan => phase' = phase /\ phase # "ranked"
        BY DEF ScoreQuote, WeighHit, VerifySpan
      <4> QED BY <2>3, <4>1, <4>2, Zenon DEF Next
    <3> QED BY <3>1 DEF Searched
  <2> QED BY <2>1, <2>2, <2>3
<1> QED BY <1>1, <1>2, PTL DEF Spec

\* "BM25 remains authoritative": no hit that only one of the searches found
\* passes the best lexical hit (merge_hits).
THEOREM LexicalStaysFirst == Spec => []LexicalLeads
<1>1. Searched => LexicalLeads
  <2> SUFFICES ASSUME Searched, phase = "ranked", LexicalHits(lexical) # <<>>,
                      LexicalHits(lexical)[1] \in DOMAIN vector =>
                            ~(vector[LexicalHits(lexical)[1]] < 0),
                      NEW i \in DOMAIN HitsFor(lexical, vector),
                      \A k \in 1 .. i : HitsFor(lexical, vector)[k] # LexicalHits(lexical)[1]
               PROVE  /\ HitsFor(lexical, vector)[i] \in DOMAIN lexical
                      /\ HitsFor(lexical, vector)[i] \in DOMAIN vector
                      /\ lexical[HitsFor(lexical, vector)[i]] > 0
    BY DEF LexicalLeads
  <2>1. lexical \in [Chunks -> Scores]
    BY DEF Searched
  <2>2. PICK f \in Fetched : vector \in [f -> Similarities]
    BY DEF Searched
  <2> DEFINE L == LexicalHits(lexical)
             M == Merged(lexical, vector)
             H == HitsFor(lexical, vector)
             T == {c \in Chunks : lexical[c] > 0}
  <2>3. H = L \/ H = M
    BY DEF HitsFor
  <2>4. H # L
    <3>1. L \in Seq(T)
      <4>1. lexical \in [Chunks -> Int] /\ T \in SUBSET Chunks
        BY <2>1 DEF Scores
      <4>2. L = FirstOf(InOrder(T, ByScore(lexical)), TopK)
        BY <2>1 DEF LexicalHits
      <4> HIDE DEF L, T
      <4> QED BY <4>1, <4>2, ChunksFinite, HitsAre
    <3>2. i \in DOMAIN H /\ \A k \in 1 .. i : H[k] # L[1]
      OBVIOUS
    <3> HIDE DEF L, H, T
    <3> QED BY <3>1, <3>2
  <2>5. H = M
    BY <2>3, <2>4
  <2>6. L[1] \in f => vector[L[1]] >= 0
    <3>1. L[1] \in f => ~(vector[L[1]] < 0)
      BY <2>2
    <3>2. \A c \in f : vector[c] \in Int
      BY <2>2 DEF Similarities
    <3> HIDE DEF L
    <3> QED BY <3>1, <3>2
  <2>7. i \in DOMAIN M /\ \A k \in 1 .. i : M[k] # L[1]
    BY <2>5
  <2>8. M[i] \in Chunks \cap f /\ lexical[M[i]] > 0
    BY <2>1, <2>2, <2>6, <2>7, MergedLeads
  <2> QED BY <2>1, <2>2, <2>5, <2>8
<1> QED BY <1>1, SearchedAlways, PTL
=============================================================================
