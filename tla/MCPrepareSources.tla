--------------------------- MODULE MCPrepareSources ---------------------------
\* Submissions without a source, without a recording, with recordings only and
\* mixed; three sources may be processed and one recording transcribed at once.
EXTENDS PrepareSources

CONSTANTS d1, a1, a2, a3

MCSources == {d1, a1, a2, a3}
MCAudio == {a1, a2, a3}
MCInputs == {<<>>, <<d1>>, <<a1, a2>>, <<d1, a1, a2, a3>>}

\* The guards NeverStuck names are those of the actions.
GuardsAreThoseOfTheActions ==
    /\ \A s \in Sources : CanStep(s) <=> ENABLED Step(s)
    /\ verdict = NoVerdict => (NodeCanStep <=> ENABLED Node)
=============================================================================
