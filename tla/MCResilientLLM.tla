---------------------------- MODULE MCResilientLLM ----------------------------
\* Two models of one provider and one of another; the chain names one twice and
\* one without a key.
EXTENDS ResilientLLM

MCConfigured == << <<"groq", "large">>, <<"groq", "small">>, <<"openai", "any">>,
                   <<"groq", "large">>, <<"iti", "any">> >>
MCEndpoints == {MCConfigured[i] : i \in DOMAIN MCConfigured}
MCUsable == {e \in MCEndpoints : e[1] # "openai"}

\* The guards NeverStuck names are those of the actions.
GuardsAreThoseOfTheActions == \A c \in Calls : CanProceed(c) <=> ENABLED Proceed(c)
=============================================================================
