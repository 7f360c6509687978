---------------------------- MODULE FileInspection ----------------------------
(***************************************************************************)
(* What the service makes of the bytes of a source: the type its signature *)
(* says, refused when the file name claims another one, the limits on size *)
(* and duration, and the verdict detect_file_type gives in the worker.     *)
(* A file is a record: what its bytes begin with (head), whether "%PDF-"   *)
(* occurs in its first kilobyte (mark), the extension of its name (ext,    *)
(* "none" without one), its content, its size and its length in seconds.   *)
(***************************************************************************)
EXTENDS Integers, Sequences, FiniteSetsExt

CONSTANTS
    MaxDocument,        \* MAX_DOCUMENT_BYTES
    MaxRecording,       \* MAX_AUDIO_BYTES
    MaxAudioSources,    \* MAX_AUDIO_SOURCES_PER_JOB
    MaxSeconds,         \* MAX_AUDIO_DURATION_SECONDS, for one recording
    MaxTotalSeconds,    \* MAX_TOTAL_AUDIO_DURATION_SECONDS, for all of them
    MixedEnabled        \* ENABLE_MIXED_SOURCE_JOBS

ASSUME LimitsAssumption ==
    /\ MaxDocument \in Nat /\ MaxRecording \in Nat
    /\ MaxAudioSources \in Nat /\ MaxSeconds \in Nat /\ MaxTotalSeconds \in Nat
    /\ MixedEnabled \in BOOLEAN

Heads == {"pdf", "docx", "zip", "mp3", "wav", "riff", "ogg", "m4a", "webm",
          "exe", "text", "binary"}
Unknown == -1
Recordings == {"mp3", "wav", "ogg", "m4a", "webm"}

\* The marker of a PDF may come late, but not behind another signature.
IsPdf(f) ==
    \/ f.head = "pdf"
    \/ f.mark /\ f.head \notin {"docx", "zip", "mp3", "wav", "riff", "ogg", "webm", "exe"}

\* The format the bytes have, in the order the signatures are tried.
Format(f) ==
    IF f.size = 0 THEN "unknown"
    ELSE IF IsPdf(f) THEN "pdf"
    ELSE IF f.head \in {"docx", "text"} \cup Recordings THEN f.head
    ELSE "unknown"

\* An extension the service knows must agree with the format; some are always
\* refused, and any other says nothing.
ExtensionAgrees(f) ==
    CASE f.ext \in {"pdf", "docx"} \cup Recordings -> Format(f) = f.ext
      [] f.ext \in {"txt", "md"}   -> Format(f) = "text"
      [] f.ext \in {"zip", "exe"}  -> FALSE
      [] OTHER                     -> TRUE

TypeOfFormat(format) == IF format \in Recordings THEN "audio" ELSE format

\* detect_mime_and_type
DetectedType(f) ==
    IF ExtensionAgrees(f) THEN TypeOfFormat(Format(f)) ELSE "unknown"

IsAudio(f) == DetectedType(f) = "audio"
SizeLimit(f) == IF IsAudio(f) THEN MaxRecording ELSE MaxDocument

\* The header of a wav file tells its length; for the others a host needs
\* ffprobe, and a host that cannot tell lets the recording pass.
Seconds(f, probe) == IF Format(f) = "wav" \/ probe THEN f.seconds ELSE Unknown

AudioOf(files) == {i \in DOMAIN files : IsAudio(files[i])}
HasDocument(files) == \E i \in DOMAIN files : ~IsAudio(files[i])

TotalSeconds(files, probe) ==
    MapThenSumSet(LAMBDA i : IF Seconds(files[i], probe) = Unknown THEN 0 ELSE files[i].seconds,
                  AudioOf(files))

Mixed(files) == AudioOf(files) # {} /\ HasDocument(files)

\* The type of a job made of these files.
InputType(files) ==
    IF Mixed(files) \/ Cardinality(AudioOf(files)) > 1 THEN "backend_sources"
    ELSE IF AudioOf(files) # {} THEN "backend_audio"
    ELSE "backend_document"

----------------------------------------------------------------------------
(* Checks in their order: the first that fails answers the request. A      *)
(* check that passes is "none".                                            *)

Check(fails, why) == IF fails THEN why ELSE "none"
Then(check, next) == IF check # "none" THEN check ELSE next

FirstFailure(checks) ==
    LET failed == {i \in DOMAIN checks : checks[i] # "none"} IN
    IF failed = {} THEN "none"
    ELSE checks[CHOOSE i \in failed : \A j \in failed : i <= j]

\* detect_file_type_node, on the inputs of a job.
DetectVerdict(files, probe) ==
    LET PerFile(f) ==
            FirstFailure(<<Check(f.size = 0, "empty"),
                           Check(DetectedType(f) = "unknown", "unknown type"),
                           Check(f.size > SizeLimit(f), "too large")>>)
        Jointly ==
            FirstFailure(<<
                Check(Cardinality(AudioOf(files)) > MaxAudioSources, "too many recordings"),
                Check(\E i \in AudioOf(files) : Seconds(files[i], probe) > MaxSeconds,
                      "recording too long"),
                Check(TotalSeconds(files, probe) > MaxTotalSeconds, "recordings too long"),
                Check(Mixed(files) /\ ~MixedEnabled, "mixed")>>)
    IN Then(FirstFailure([i \in DOMAIN files |-> PerFile(files[i])]), Jointly)
===============================================================================
