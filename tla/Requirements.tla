---------------------------- MODULE Requirements ----------------------------
(***************************************************************************)
(* Requirements as the nodes of the pipeline pass them on. Their wording,  *)
(* actors and priorities are abstracted; what is left is what the nodes    *)
(* branch on. A requirement is known by its position: extraction and every *)
(* merge renumber them 1, 2, 3, ...                                        *)
(***************************************************************************)
EXTENDS Naturals, FiniteSets, Sequences

Dispositions == {"accepted", "deferred", "proposed", "uncertain", "rejected"}

Rank == [accepted |-> 4, deferred |-> 3, proposed |-> 2, uncertain |-> 1,
         rejected |-> 0]

\* Labels that keep a requirement from becoming a story.
Special == {"Out-of-Scope", "Open Question", "Assumption"}

\* origin: the dispositions merged into it; special and label: the special ones
\* among its candidate labels and among its labels; evidence: some of it is
\* verified; conflict: a severe conflict was found for it, before or after a
\* merge.
Requirement ==
    [origin : SUBSET Dispositions, special : SUBSET Special,
     label : SUBSET Special, evidence : BOOLEAN, conflict : BOOLEAN]

\* The highest disposition wins a merge.
Disposition(r) == CHOOSE d \in r.origin : \A e \in r.origin : Rank[e] <= Rank[d]

----------------------------------------------------------------------------
(* Canonicalization. keep maps every requirement to the one it is merged   *)
(* into; which pairs look alike is a matter of wording, and any choice is  *)
(* allowed that respects the dispositions.                                 *)

Mergeable(a, b) == {Disposition(a), Disposition(b)} # {"accepted", "rejected"}

\* A component of the union-find: mergeable pairs link all of it.
Linked(rs, c) ==
    \A part \in SUBSET c \ {{}, c} :
        \E i \in part, j \in c \ part : Mergeable(rs[i], rs[j])

Clusterings(rs) ==
    {keep \in [DOMAIN rs -> DOMAIN rs] :
        \A i \in DOMAIN rs :
            /\ keep[keep[i]] = keep[i]
            /\ Linked(rs, {j \in DOMAIN rs : keep[j] = keep[i]})}

NothingMerged(keep) == \A i \in DOMAIN keep : keep[i] = i

\* The position of requirement i once the merged ones are gone.
NewId(keep, i) ==
    Cardinality({j \in DOMAIN keep : keep[j] = j /\ j <= keep[i]})

Canonical(rs, keep) ==
    LET group(k) == {i \in DOMAIN rs : NewId(keep, i) = k}
    IN  [k \in 1 .. Cardinality({i \in DOMAIN rs : keep[i] = i}) |->
           [origin   |-> UNION {rs[i].origin : i \in group(k)},
            special  |-> UNION {rs[i].special : i \in group(k)},
            label    |-> UNION {rs[i].label : i \in group(k)},
            evidence |-> \E i \in group(k) : rs[i].evidence,
            conflict |-> \E i \in group(k) : rs[i].conflict]]

----------------------------------------------------------------------------
(* What generation does with a requirement.                                *)

\* The row of a requirement that gets no story; "story" if it gets one.
Treatment(r) ==
    CASE Disposition(r) \in {"rejected", "deferred"} -> "non_story"
      [] Disposition(r) \in {"proposed", "uncertain"} -> "needs_review"
      [] Disposition(r) = "accepted" /\ r.special # {} -> "non_story"
      [] Disposition(r) = "accepted" /\ r.special = {} /\ ~r.evidence ->
            "needs_review"
      [] OTHER -> "story"

ToGenerate(rs) == {i \in DOMAIN rs : Treatment(rs[i]) = "story"}

\* Requirements whose severe issues keep a result from being completed.
Actionable(rs) ==
    {i \in DOMAIN rs :
        /\ Disposition(rs[i]) = "accepted"
        /\ rs[i].label \cap {"Out-of-Scope", "Open Question"} = {}}
=============================================================================
