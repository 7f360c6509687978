----------------------------- MODULE MCSubmission -----------------------------
(* Small files, references and texts for Submission.                        *)
EXTENDS Submission

File(head, ext, content, size, seconds) ==
    [head |-> head, mark |-> FALSE, ext |-> ext, content |-> content,
     size |-> size, seconds |-> seconds]

\* A PDF; a text without an extension; a text that mentions the PDF marker; a
\* text that is named a PDF; a document and a recording that are too large;
\* an empty file; a wav and an mp3 of 2 and a wav of 4 seconds.
MCFiles ==
    {File("pdf", "pdf", "p", 1, 0), File("text", "none", "t", 1, 0),
     [File("text", "txt", "m", 1, 0) EXCEPT !.mark = TRUE], File("text", "pdf", "x", 1, 0),
     File("docx", "docx", "d", 3, 0), File("mp3", "mp3", "l", 4, 1),
     File("text", "txt", "e", 0, 0), File("wav", "wav", "w", 2, 2),
     File("mp3", "mp3", "r", 2, 2), File("wav", "none", "v", 1, 4)}

\* Two references that share the storage key and differ in the URL.
MCReferences ==
    [doc : {"d1"}, storage : {"k1", None}, url : {"u1", "u2", None}, hash : {None}]

MCTexts == [text : {"t1", "t2"}, layout : {"lf", "crlf"}]
===============================================================================
