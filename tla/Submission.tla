------------------------------ MODULE Submission ------------------------------
(***************************************************************************)
(* One submission from the request to the worker's first node: the upload  *)
(* endpoints (POST /internal/process and the demo's POST /process) admit   *)
(* or refuse it and give each file its document id, POST /internal/jobs    *)
(* and the JSON endpoints take references or text. The worker inspects the *)
(* same bytes again, on a host of its own, and the client may send the     *)
(* request once more, changed or not, which only its fingerprint tells.    *)
(***************************************************************************)
EXTENDS FileInspection, Functions

CONSTANTS
    Files,          \* the files a client may upload
    Ids, Blank,     \* document ids, and one that is only white space
    None,           \* what a missing field is
    MaxSources,     \* MAX_SOURCES_PER_JOB
    MaxTotal,       \* MAX_TOTAL_UPLOAD_BYTES
    References,     \* references to documents of the backend
    Texts,          \* texts; [text, layout] differs in line ends only
    MaxParts        \* parts of an upload, bounds the model

ASSUME SubmissionAssumption ==
    /\ MaxSources \in Nat /\ MaxTotal \in Nat /\ MaxParts \in Nat
    /\ Blank \notin Ids /\ None \notin Ids \cup {Blank}
    /\ \A f \in Files : f.head \in Heads /\ f.size \in Nat /\ f.seconds \in Nat
    /\ \A f, g \in Files :
          f.content = g.content => f.head = g.head /\ f.mark = g.mark /\ f.size = g.size

VARIABLES
    request,    \* what the client sent
    answer,     \* "pending", "accepted" or why it was refused
    inputs,     \* the validated inputs: a file and its document id each
    verdict,    \* "pending", "none" or why the worker's inspection refused it
    again,      \* the client's second request, or None
    recognized  \* history: how the second was taken

submissionVars == <<request, answer, inputs, verdict, again, recognized>>

----------------------------------------------------------------------------
(* Upload requests.                                                        *)

UpTo(set, n) == UNION {[1 .. k -> set] : k \in 0 .. n}

UploadRequests ==
    [endpoint : {"internal", "demo"}, file : UpTo(Files, 1), files : UpTo(Files, MaxParts),
     ids : UpTo(Ids \cup {Blank}, 2), id : UpTo(Ids \cup {Blank}, 2),
     wellFormed : BOOLEAN, transport : {1}]

\* The job id is not safe, the project id is missing, or the metadata is not
\* a JSON object.
BadForm(q) == ~q.wellFormed

BothFields(q) == q.file # <<>> /\ q.files # <<>>
Uploads(q) == IF q.files # <<>> THEN q.files ELSE q.file

\* The entries of an id field that are not blank, in their order.
NonBlank(s) ==
    LET kept[n \in 0 .. Len(s)] ==
            IF n = 0 THEN <<>>
            ELSE IF s[n] = Blank THEN kept[n - 1]
            ELSE Append(kept[n - 1], s[n])
    IN kept[Len(s)]

\* The framework binds a repeated scalar field to its last value.
DocumentId(q) == IF q.id = <<>> THEN None ELSE q.id[Len(q.id)]

\* Both handlers settle which of the id fields counts.
ResolvedIds(q) ==
    IF NonBlank(q.ids) # <<>> THEN NonBlank(q.ids)
    ELSE IF Len(NonBlank(q.id)) > 1 THEN NonBlank(q.id)
    ELSE IF q.ids # <<>> THEN q.ids
    ELSE IF NonBlank(q.id) # <<>> THEN NonBlank(q.id)
    ELSE IF DocumentId(q) # None THEN <<DocumentId(q)>>
    ELSE <<>>

WrongForm(q) == Check(BadForm(q), "400 form")

WrongIds(q) ==
    FirstFailure(<<
        Check(NonBlank(q.ids) # <<>> /\ NonBlank(q.id) # <<>>, "400 ids"),
        Check(ResolvedIds(q) # <<>> /\ Len(ResolvedIds(q)) # Len(Uploads(q)), "400 ids")>>)

WrongParts(q) ==
    FirstFailure(<<Check(BothFields(q), "400 fields"),
                   Check(Uploads(q) = <<>>, "400 no file"),
                   Check(Len(Uploads(q)) > MaxSources, "400 too many files")>>)

\* The internal handler looks at the fields again, not at what it resolved.
SuppliedId(q, i) == IF q.ids # <<>> THEN q.ids[i] ELSE DocumentId(q)
DemoSuppliedId(q, i) ==
    IF i <= Len(ResolvedIds(q)) THEN ResolvedIds(q)[i] ELSE None

\* The id of a file without one is derived from its bytes.
Derived(f) == <<"doc", f.content>>
InputsOf(q, Supplied(_, _)) ==
    [i \in DOMAIN Uploads(q) |->
        [file |-> Uploads(q)[i],
         doc |-> IF Supplied(q, i) = None THEN Derived(Uploads(q)[i]) ELSE Supplied(q, i)]]

SizeUpTo(files, n) == MapThenSumSet(LAMBDA i : files[i].size, 1 .. n)

\* Faulty variant of WrongFile: documents get the limit of recordings.
WrongFileOneLimit(files, i) ==
    FirstFailure(<<Check(SizeUpTo(files, i) > MaxTotal, "413"),
                   Check(files[i].size = 0, "400 empty"),
                   Check(DetectedType(files[i]) = "unknown", "415"),
                   Check(files[i].size > MaxRecording, "413")>>)

\* The checks on one file while the parts are read in their order.
WrongFile(files, i) ==
    FirstFailure(<<Check(SizeUpTo(files, i) > MaxTotal, "413"),
                   Check(files[i].size = 0, "400 empty"),
                   Check(DetectedType(files[i]) = "unknown", "415"),
                   Check(files[i].size > SizeLimit(files[i]), "413")>>)

WrongTogether(files, docs, probe) ==
    FirstFailure(<<
        Check(Cardinality({docs[i].doc : i \in DOMAIN docs}) # Len(docs), "400 duplicate ids"),
        Check(Cardinality(AudioOf(files)) > MaxAudioSources, "400 recordings"),
        Check(TotalSeconds(files, probe) > MaxTotalSeconds, "400 duration"),
        Check(Mixed(files) /\ ~MixedEnabled, "400 mixed")>>)

\* An index behind the end of the field would raise.
OutOfRange(q, i) == q.ids # <<>> /\ i > Len(q.ids)

\* Faulty variant of WrongId: a blank id is taken.
WrongIdBlankTaken(q, i) == Check(OutOfRange(q, i), "500")

WrongId(q, i) ==
    Then(Check(OutOfRange(q, i), "500"), Check(SuppliedId(q, i) = Blank, "400 blank id"))

\* POST /internal/process: metadata, job and project id come first.
InternalFailure(q, probe) ==
    LET u == Uploads(q)
        EachFile == FirstFailure([i \in DOMAIN u |-> Then(WrongFile(u, i), WrongId(q, i))])
    IN Then(WrongForm(q), Then(WrongParts(q), Then(WrongIds(q),
       Then(EachFile, WrongTogether(u, InputsOf(q, SuppliedId), probe)))))

\* POST /process of the demo: metadata after the fields, the job id at the end.
DemoFailure(q, probe) ==
    LET u == Uploads(q)
        EachFile == FirstFailure([i \in DOMAIN u |-> WrongFile(u, i)])
    IN Then(WrongParts(q), Then(WrongIds(q), Then(WrongForm(q),
       Then(EachFile, WrongTogether(u, InputsOf(q, DemoSuppliedId), probe)))))

----------------------------------------------------------------------------
(* Requests without files.                                                 *)

JobRequests ==
    [endpoint : {"jobs"}, input : {"text", "backend_document"}, refs : UpTo(References, 1),
     content : Texts \cup {None}, wellFormed : BOOLEAN, transport : {1}]

JsonRequests ==
    [endpoint : {"json", "demoJson"}, refs : {<<>>}, content : Texts \cup {None},
     input : {"text"}, wellFormed : BOOLEAN, transport : {1}]

JobsFailure(q) ==
    FirstFailure(<<Check(BadForm(q), "400 job id"),
                   Check(q.input = "text" /\ q.content = None, "400 no content"),
                   Check(q.input # "text" /\ q.refs = <<>>, "400 no sources")>>)

JsonFailure(q) ==
    Then(Check(BadForm(q), "400 job or project id"), Check(q.content = None, "400 no content"))

DemoJsonFailure(q) ==
    Then(Check(q.content = None, "400 no content"), Check(BadForm(q), "400 job id"))

IsUpload(q) == q.endpoint \in {"internal", "demo"}

Answer(q, probe) ==
    CASE q.endpoint = "internal" -> InternalFailure(q, probe)
      [] q.endpoint = "demo"     -> DemoFailure(q, probe)
      [] q.endpoint = "jobs"     -> JobsFailure(q)
      [] q.endpoint = "json"     -> JsonFailure(q)
      [] q.endpoint = "demoJson" -> DemoJsonFailure(q)

Inputs(q) ==
    CASE q.endpoint = "internal" -> InputsOf(q, SuppliedId)
      [] q.endpoint = "demo"     -> InputsOf(q, DemoSuppliedId)
      [] OTHER                   -> <<>>

----------------------------------------------------------------------------
(* The fingerprint of a request.                                           *)

\* The stable identifier of a document is its storage key, else its URL.
StableLocation(ref) == IF ref.storage # None THEN ref.storage ELSE ref.url

FingerprintOfReference(ref) ==
    [doc |-> ref.doc, location |-> StableLocation(ref), hash |-> ref.hash, type |-> "none"]

FingerprintOfInput(input) ==
    [doc |-> input.doc, location |-> None, hash |-> input.file.content,
     type |-> Format(input.file)]

NormalizedContent(c) == IF c = None THEN None ELSE c.text

\* Faulty variant of SortedDocuments: the parts keep their order.
DocumentsInOrder(docs) == docs

\* Sorted by every field: what is left of the order is how often each occurs.
SortedDocuments(docs) ==
    [d \in Range(docs) |-> Cardinality({i \in DOMAIN docs : docs[i] = d})]

\* compute_job_request_fingerprint leaves out the job id, the callback and the
\* priority.
Fingerprint(q) ==
    IF IsUpload(q)
    THEN [input |-> InputType(Uploads(q)), content |-> None,
          docs |-> SortedDocuments([i \in DOMAIN Inputs(q) |-> FingerprintOfInput(Inputs(q)[i])])]
    ELSE [input |-> q.input, content |-> NormalizedContent(q.content),
          docs |-> SortedDocuments([i \in DOMAIN q.refs |-> FingerprintOfReference(q.refs[i])])]

\* Where the worker fetches a reference from: its URL, else the backend.
FetchedFrom(ref) == IF ref.url # None THEN ref.url ELSE <<"backend", ref.doc>>

----------------------------------------------------------------------------
(* The submission.                                                         *)

SubmissionInit ==
    /\ request \in {q \in UploadRequests : q.file = <<>> \/ Len(q.files) + Len(q.ids) <= 1}
                   \cup JobRequests \cup JsonRequests
    /\ answer = "pending" /\ inputs = <<>> /\ verdict = "pending"
    /\ again = None /\ recognized = "pending"

\* The endpoint answers; probe says whether its host can measure recordings.
Receive(probe) ==
    /\ answer = "pending"
    /\ LET failure == Answer(request, probe) IN
        /\ answer' = IF failure = "none" THEN "accepted" ELSE failure
        /\ inputs' = IF failure = "none" THEN Inputs(request) ELSE <<>>
    /\ UNCHANGED <<request, verdict, again, recognized>>

\* The first node of the worker inspects the inputs.
Detect(probe) ==
    /\ answer = "accepted" /\ inputs # <<>> /\ verdict = "pending"
    /\ verdict' = DetectVerdict([i \in DOMAIN inputs |-> inputs[i].file], probe)
    /\ UNCHANGED <<request, answer, inputs, again, recognized>>

\* What a client sends when it sends a request again: the same, the parts in
\* another order with their ids, one part or reference replaced, another
\* callback.
Swapped(s) == IF Len(s) < 2 THEN s ELSE <<s[2], s[1]>> \o SubSeq(s, 3, Len(s))
Variants(q) ==
    {q, [q EXCEPT !.transport = 2]}
    \cup IF IsUpload(q)
         THEN {[q EXCEPT !.files = Swapped(q.files), !.ids = Swapped(q.ids)]}
              \cup {[q EXCEPT !.files = Swapped(q.files)]}
              \cup {[q EXCEPT !.files[i] = f] : i \in DOMAIN q.files, f \in Files}
         ELSE {[q EXCEPT !.refs[i] = r] : i \in DOMAIN q.refs, r \in References}
              \cup {[q EXCEPT !.content = c] : c \in Texts}

\* A job id that is in use: the same fingerprint is served, another is a
\* conflict. The demo's endpoints do not look at it.
Resubmit(probe) ==
    /\ answer = "accepted" /\ again = None /\ request.endpoint \notin {"demo", "demoJson"}
    /\ \E q \in Variants(request) :
        /\ Answer(q, probe) = "none"
        /\ again' = q
        /\ recognized' = IF Fingerprint(q) = Fingerprint(request) THEN "same" ELSE "conflict"
    /\ UNCHANGED <<request, answer, inputs, verdict>>

SubmissionNext ==
    \E probe \in BOOLEAN : Receive(probe) \/ Detect(probe) \/ Resubmit(probe)

SubmissionSpec == SubmissionInit /\ [][SubmissionNext]_submissionVars

----------------------------------------------------------------------------
(* Properties.                                                             *)

\* The ids a client sent for its files, one field at a time.
SentIds(q) == IF q.ids # <<>> THEN NonBlank(q.ids) ELSE NonBlank(q.id)

\* Whatever mixture of id fields and blanks a client sends, and whichever
\* handler takes it: if the ids it sent are as many as the files and the
\* request is accepted, each file carries the id sent in its place, and no
\* two files share one; no mixture makes the handler index past a field.
AdmittedIdsAreAsSent ==
    /\ answer # "500"
    /\ (answer = "accepted" /\ IsUpload(request)) =>
            /\ \A i, j \in DOMAIN inputs : inputs[i].doc = inputs[j].doc => i = j
            /\ Len(SentIds(request)) = Len(inputs) =>
                \A i \in DOMAIN inputs : inputs[i].doc = SentIds(request)[i]

\* The worker's inspection refuses nothing the endpoint admitted except for
\* the duration of recordings: the endpoints do not look at the duration of
\* one, and their host may be unable to measure.
RefusedOnlyForDuration ==
    verdict \in {"pending", "none", "recording too long", "recordings too long"}

\* The files of an upload as the worker gets them.
SetOfInputs(q) == {[doc |-> i.doc, content |-> i.file.content] : i \in Range(Inputs(q))}

\* A second upload under the same job id is taken for the first one exactly
\* when it brings the same documents under the same ids, in whatever order
\* its parts come and whatever callback it names.
ResubmissionIsRecognized ==
    (again # None /\ IsUpload(request)) =>
        (recognized = "same" <=> SetOfInputs(again) = SetOfInputs(request))

\* The documentation's promise that a reused job id with a changed payload is
\* told from an identical request, for references: what is taken for the same
\* is fetched from the same places.
SameFingerprintSameSource ==
    (recognized = "same" /\ ~IsUpload(request)) =>
        {FetchedFrom(r) : r \in Range(again.refs)} = {FetchedFrom(r) : r \in Range(request.refs)}
===============================================================================
