---------------------------- MODULE MCPipelineGraph ----------------------------
\* Nothing, and a document with a recording. Ids are numbered in
\* base 2: the numeral of 1 begins those of 2 and 3, as in base 10 that of 1
\* begins those of 10, 11 and so on.
EXTENDS PipelineGraph

CONSTANTS d1, a1

MCAudio == {a1}
MCInputs == {<<>>, <<d1, a1>>}
OneDocument == {<<d1>>}

Kind(disposition, special) == [origin |-> {disposition}, special |-> special]

\* A requirement that becomes a story, and one of each other treatment.
MCKinds == {Kind("accepted", {}), Kind("accepted", {"Assumption", "Out-of-Scope"}),
            Kind("proposed", {}), Kind("rejected", {})}

One == Kind("accepted", {})

\* One beside any other, or two behind a third: a merge renumbers them.
MCExtractions ==
    {<<>>} \cup {<<k>> : k \in MCKinds} \cup {<<One, k>> : k \in MCKinds}
           \cup {<<Kind("proposed", {}), One, One>>}
TwoAccepted == {<<One, One>>}
=============================================================================
