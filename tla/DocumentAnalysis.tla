-------------------------- MODULE DocumentAnalysis --------------------------
(***************************************************************************)
(* What the DocumentAnalyzer notices about a PDF file                      *)
(* (document/analyzer.py, models/document.py).                             *)
(*                                                                         *)
(* A file is [state, encrypted, supported, large, pages, unreadable,       *)
(* undrawn]: its state is what opening it comes to, pages are the lines    *)
(* somebody wrote, unreadable the pages whose text pypdf cannot extract    *)
(* and undrawn those whose images it cannot list.  Confidence is in per    *)
(* cent, and of the length of a text only whether there is any is used.    *)
(***************************************************************************)
EXTENDS Naturals, Sequences

\* No file, a file PdfReader() refuses, one whose pages cannot be counted (a
\* password is needed, the page tree is torn), and one that opens.
FileState == {"missing", "broken", "uncounted", "open"}

DocumentWarning == {"encrypted", "broken_pdf", "image_only", "large_pdf",
                    "unknown_encoding", "unsupported_version"}

\* _inspect_page(): images and text of a page can be extracted.
InspectPage(file, i) == i \notin file.unreadable \union file.undrawn

\* Faulty: encoding_ok is set anew for every page.
InspectPagesForgetful(file) ==
    [has_text    |-> \E i \in DOMAIN file.pages :
                         InspectPage(file, i) /\ file.pages[i] # <<>>,
     encoding_ok |-> file.pages # <<>> => InspectPage(file, Len(file.pages))]

\* _inspect_pages(): whether there is text on the pages that can be inspected, and
\* whether all could.
InspectPages(file) ==
    [has_text    |-> \E i \in DOMAIN file.pages :
                         InspectPage(file, i) /\ file.pages[i] # <<>>,
     encoding_ok |-> \A i \in DOMAIN file.pages : InspectPage(file, i)]

Encrypted(file) == {w \in {"encrypted"} : file.encrypted}

\* _probe(): a length of None is no text for _collect_warnings().
Probe(file) ==
    LET inspected == InspectPages(file)
    IN  CASE file.state = "broken" ->
               [page_count |-> 0, has_text |-> FALSE, warnings |-> {"broken_pdf"}]
          [] file.state = "uncounted" ->
               [page_count |-> 0, has_text |-> FALSE,
                warnings   |-> {"broken_pdf"} \union Encrypted(file)]
          [] file.state = "open" /\ inspected.encoding_ok ->
               [page_count |-> Len(file.pages), has_text |-> inspected.has_text,
                warnings   |-> Encrypted(file)]
          [] file.state = "open" /\ ~inspected.encoding_ok ->
               [page_count |-> Len(file.pages), has_text |-> FALSE,
                warnings   |-> {"unknown_encoding"} \union Encrypted(file)]

\* _collect_warnings(): a file whose text length is not known passes for one
\* without text.
CollectWarnings(file) ==
    LET probe == Probe(file) IN
    probe.warnings \union
    {w \in DocumentWarning :
        \/ w = "large_pdf" /\ file.large
        \/ w = "unsupported_version" /\ ~file.supported
        \/ /\ w = "image_only"
           /\ probe.page_count > 0
           /\ probe.warnings \intersect {"broken_pdf", "encrypted"} = {}
           /\ ~probe.has_text}

\* _compute_confidence().
AnalysisConfidence(warnings) ==
    IF "broken_pdf" \in warnings THEN 0 ELSE IF warnings # {} THEN 60 ELSE 100

\* DocumentAnalyzer.run() of a file that is there.
AnalysisOf(file) ==
    [page_count |-> Probe(file).page_count,
     warnings   |-> CollectWarnings(file),
     confidence |-> AnalysisConfidence(CollectWarnings(file))]

\* The LayoutDetector opens the file again and takes a page it cannot read for
\* an empty one.
ReadPages(file) ==
    [i \in DOMAIN file.pages |->
        IF i \in file.unreadable THEN <<>> ELSE file.pages[i]]
=============================================================================
