---------------------------- MODULE SourceRecovery ----------------------------
(***************************************************************************)
(* How a worker gets the input of a job back: what the request stashed in  *)
(* the cache, what the manifest in PostgreSQL refers to, what the backend  *)
(* answers when a reference is fetched, and which inputs the worker        *)
(* accepts. Contents are compared with what was submitted: "original",     *)
(* "changed", "empty", or "processed" for the cleaned chunks of an earlier *)
(* execution. Pure operators, used by Artifacts.                           *)
(***************************************************************************)
EXTENDS Naturals, FiniteSets

CONSTANTS
    Docs,       \* the source documents of the submission
    Audio,      \* the recordings among them
    Hashed,     \* those whose reference carries a checksum
    Inline,     \* the document id given to inline text, "doc_001"
    MaxAudio    \* MAX_AUDIO_SOURCES_PER_JOB

ASSUME DocsAssumption ==
    /\ IsFiniteSet(Docs) /\ Docs # {}
    /\ Audio \subseteq Docs /\ Hashed \subseteq Docs
    /\ Inline \notin Docs
ASSUME MaxAudioAssumption == MaxAudio \in Nat /\ Cardinality(Audio) <= MaxAudio

\* text and transcript bring their text inline, an upload its bytes, and
\* references neither.
Kinds == {"text", "transcript", "upload", "references"}
OfBytes(kind) == kind \in {"upload", "references"}

Ref(d) == [doc |-> d, hashed |-> d \in Hashed]

\* What the request lists as source documents.
SubmittedRefs(kind) == IF kind = "text" THEN {} ELSE {Ref(d) : d \in Docs}

----------------------------------------------------------------------------
(* The input cache.                                                        *)

Miss == [hit |-> FALSE, content |-> FALSE, refs |-> {}]
Stashed(kind) ==
    [hit |-> TRUE, content |-> kind # "references", refs |-> SubmittedRefs(kind)]

\* The documents of an input that came with the request.
InlineItems(kind) ==
    {[doc |-> d, copy |-> 0, content |-> "original"] :
        d \in IF OfBytes(kind) THEN Docs ELSE {Inline}}

----------------------------------------------------------------------------
(* The backend client.                                                     *)

Hosts == {"backend", "approved", "other"}
Replies ==
    [host : Hosts, redirect : Hosts \cup {"none"}, ok : BOOLEAN,
     body : {"original", "changed", "empty", "tooLarge"}]

Approved(host) == host \in {"backend", "approved", "none"}

\* Faulty variant of FetchBytes: the checksum is not compared.
FetchBytesUnchecked(ref, r) ==
    IF \/ ~Approved(r.host) \/ ~Approved(r.redirect)
       \/ ~r.ok \/ r.body = "tooLarge"
    THEN "refused" ELSE r.body

\* fetch_document_bytes raises on every failure and compares the checksum of
\* a reference that has one.
FetchBytes(ref, r) ==
    IF \/ ~Approved(r.host) \/ ~Approved(r.redirect)
       \/ ~r.ok \/ r.body = "tooLarge"
       \/ ref.hashed /\ r.body # "original"
    THEN "refused" ELSE r.body

\* fetch_document_text swallows every failure and compares no checksum; it
\* follows no redirect and limits no size. The backend knows no document with
\* the inline id.
FetchText(ref, r) ==
    IF ~Approved(r.host) \/ r.redirect # "none" \/ ~r.ok \/ ref.doc = Inline
    THEN "refused" ELSE IF r.body = "tooLarge" THEN "original" ELSE r.body

Answers(kind, ref) ==
    {IF OfBytes(kind) THEN FetchBytes(ref, r) ELSE FetchText(ref, r) : r \in Replies}

----------------------------------------------------------------------------
(* From references to an input.                                            *)

\* A document with an empty body is left out; rows is a set of manifest rows
\* and answer gives what the backend said for each.
FetchedItems(rows, answer) ==
    {[doc |-> w.ref.doc, copy |-> w.copy, content |-> answer[w]] :
        w \in {v \in rows : answer[v] \notin {"empty", "refused"}}}

\* The download of bytes raises at the first reference that is refused.
DownloadFails(kind, answer) ==
    OfBytes(kind) /\ \E w \in DOMAIN answer : answer[w] = "refused"

AudioItems(items) == {i \in items : i.doc \in Audio}

\* The recordings of a job of type backend_sources (documents and recordings,
\* or several recordings) are counted again after the download.
BackendSources == Audio # {} /\ Cardinality(Docs) > 1
TooManyRecordings(items) ==
    BackendSources /\ Cardinality(AudioItems(items)) > MaxAudio

\* The text of a job can be taken from its chunks; only a text job does so.
ItemsOfChunks(kind, chunks) ==
    IF kind = "text" /\ chunks # {}
    THEN {[doc |-> Inline, copy |-> 0, content |-> "processed"]} ELSE {}
=============================================================================
