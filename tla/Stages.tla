------------------------------- MODULE Stages -------------------------------
(***************************************************************************)
(* One document on its way through the stages as JobRunner drives them:    *)
(* the knowledge is loaded in two calls, the document stages run once, the *)
(* file being read by the analyzer and again by the LayoutDetector, the    *)
(* FieldExtractor once per section, Normalizer and Validator once per      *)
(* record (pipeline/job_runner.py, sections/parser.py,                     *)
(* extractors/extractor.py).  What a stage computes is here; what the      *)
(* driver does when a stage fails or the process dies is in JobRunner.     *)
(***************************************************************************)
EXTENDS DocumentAnalysis, LayoutDetection, Normalization, FiniteSets

CONSTANTS
    Lines,       \* the lines a page may have
    MaxLines,    \* bound on the lines of a page
    MaxPages,    \* bound on the pages of a document
    FontSets,    \* the font names a document may use
    DamagedPages,\* the pages of the documents that are damaged in some way
    LastDay      \* bound on the calendar, which starts at 1

VARIABLES
    doc,        \* the PDF: a file of DocumentAnalysis with its fonts
    today,      \* date.today()
    pc,         \* what the driver does next
    snapshot,   \* KnowledgeSnapshot: [items, asOf], the items by their places
    rules,      \* ValidationRuleSet: [rules, asOf], likewise
    analysis,   \* DocumentAnalysisResult: [page_count, warnings, confidence]
    detection,  \* LayoutDetectionResult: [layout, warnings]
    sections,   \* the sections still to be processed, in the order of their index:
                \* [index, lines]
    records,    \* the raw records still to be processed, likewise:
                \* [section, index, raw]
    done        \* the records processed: [section, index, raw, fields, verdict]

vars == <<doc, today, pc, snapshot, rules, analysis, detection, sections, records, done>>

Page == UNION {[1..n -> Lines] : n \in 0..MaxLines}

Pages(P) == UNION {[1..n -> P] : n \in 0..MaxPages}

\* The text of a document is anything, its file is in order.
SoundDocument ==
    [pages : Pages(Page), fonts : FontSets, state : {"open"}, encrypted : {FALSE},
     supported : {TRUE}, large : {FALSE}, unreadable : {{}}, undrawn : {{}}]

\* Whatever may be wrong with a file, on few texts.
DamagedDocument ==
    {d \in [pages : Pages(DamagedPages), fonts : FontSets, state : FileState,
             encrypted : BOOLEAN, supported : BOOLEAN, large : BOOLEAN,
             unreadable : SUBSET (1..MaxPages), undrawn : SUBSET (1..MaxPages)] :
        /\ d.unreadable \union d.undrawn \subseteq DOMAIN d.pages
        /\ d.large = ~d.supported}

Document == SoundDocument \union DamagedDocument

ASSUME DamagedPagesType == DamagedPages \subseteq Page
ASSUME StagesBounds == {MaxLines, MaxPages, LastDay} \subseteq Nat

\* DEFAULT_CONFIDENCE_THRESHOLD of SectionParser and of FieldExtractor.
SectionThreshold == 50
RecordThreshold  == 50

\* A page counts when something is left between its header and its footer.
SectionScore(lines) ==
    IF lines = <<>> THEN 0 ELSE IF Len(lines) > 2 THEN 100 ELSE 30

ColumnScore(line) == IF Len(line) >= 2 THEN 100 ELSE 40

\* The pages that count, when the layout is known.
Counting(pages, layout) ==
    {i \in DOMAIN pages : /\ layout # NoLayout
                          /\ SectionScore(pages[i]) >= SectionThreshold}

\* Faulty: the sections are numbered among themselves.
SectionsRenumbered(pages, layout) ==
    {[index |-> Cardinality({k \in Counting(pages, layout) : k <= i}), lines |-> pages[i]] :
        i \in Counting(pages, layout)}

\* One section per page that counts, numbered by its page.
SectionsOf(pages, layout) ==
    {[index |-> i, lines |-> pages[i]] : i \in Counting(pages, layout)}

\* The record of a line, numbered by it.
RecordAt(section, i) ==
    [section |-> section.index, index |-> i, raw |-> section.lines[i]]

\* Faulty: header and footer are left out of the search for records.
RecordsOfBody(section) ==
    {RecordAt(section, i) :
        i \in {k \in 2..(Len(section.lines) - 1) :
                  ColumnScore(section.lines[k]) >= RecordThreshold}}

\* One record per line with enough columns.
RecordsOf(section) ==
    {RecordAt(section, i) :
        i \in {k \in DOMAIN section.lines :
                  ColumnScore(section.lines[k]) >= RecordThreshold}}

\* What is processed next of some sections or records.
Foremost(S) == CHOOSE x \in S : \A y \in S : x.index <= y.index

Goto(from, to) == pc = from /\ pc' = to

\* Faulty: the rules are those that were loaded, whatever the day.
LoadAllRules ==
    /\ Goto("rules", "document")
    /\ rules' = [rules |-> {i \in DOMAIN Items : Items[i].category = "validation"},
                 asOf  |-> today]
    /\ UNCHANGED <<doc, today, snapshot, analysis, detection, sections, records, done>>

-----------------------------------------------------------------------------
Init ==
    /\ doc \in Document
    /\ today \in 1..LastDay
    /\ pc = "snapshot"
    /\ snapshot  = [items |-> {}, asOf |-> today]
    /\ rules     = [rules |-> {}, asOf |-> today]
    /\ analysis  = [page_count |-> 0, warnings |-> {}, confidence |-> 0]
    /\ detection = [layout |-> NoLayout, warnings |-> {}]
    /\ sections  = {}
    /\ records   = {}
    /\ done      = <<>>

\* load_snapshot() and load_validation_rules() each ask for the date.
LoadSnapshot ==
    /\ Goto("snapshot", "rules")
    /\ snapshot' = [items |-> EffectiveItems(today), asOf |-> today]
    /\ UNCHANGED <<doc, today, rules, analysis, detection, sections, records, done>>

LoadRules ==
    /\ Goto("rules", "document")
    /\ rules' = [rules |-> RulesOf(today), asOf |-> today]
    /\ UNCHANGED <<doc, today, snapshot, analysis, detection, sections, records, done>>

\* A day begins.  Where nothing reads the date any more it makes no difference.
Midnight ==
    /\ pc \in {"snapshot", "rules"}
    /\ today < LastDay
    /\ today' = today + 1
    /\ UNCHANGED <<doc, pc, snapshot, rules, analysis, detection, sections, records, done>>

\* DocumentAnalyzer: only a file that is not there is an error.
Analyze ==
    /\ Goto("document", "detect")
    /\ doc.state # "missing"
    /\ analysis' = AnalysisOf(doc)
    /\ UNCHANGED <<doc, today, snapshot, rules, detection, sections, records, done>>

\* LayoutDetector and SectionParser, on the pages as far as they can be read.
ReadDocument ==
    /\ Goto("detect", "sections")
    /\ doc.state = "open"
    /\ detection' = Detect(ReadPages(doc), doc.fonts)
    /\ sections'  = SectionsOf(ReadPages(doc), detection'.layout)
    /\ UNCHANGED <<doc, today, snapshot, rules, analysis, records, done>>

\* PipelineRunner stops at the first stage that raises: the analyzer when there
\* is no file, the LayoutDetector when the file does not open.
DocumentStageFails ==
    /\ \/ pc = "document" /\ doc.state = "missing"
       \/ pc = "detect"   /\ doc.state # "open"
    /\ pc' = "failed"
    /\ UNCHANGED <<doc, today, snapshot, rules, analysis, detection, sections,
                   records, done>>

ExtractFields ==
    /\ sections # {}
    /\ Goto("sections", "records")
    /\ records'  = RecordsOf(Foremost(sections))
    /\ sections' = sections \ {Foremost(sections)}
    /\ UNCHANGED <<doc, today, snapshot, rules, analysis, detection, done>>

\* The record stays pending when the Normalizer is not confident.
ProcessRecord ==
    /\ pc = "records"
    /\ records # {}
    /\ LET record == Foremost(records)
           fields == Normalize(detection.layout, record.raw, snapshot)
       IN  done' = Append(done,
               [section |-> record.section, index |-> record.index, raw |-> record.raw,
                fields  |-> fields,
                verdict |-> IF IsConfident(fields)
                            THEN Validate(detection.layout, fields, snapshot, rules.rules)
                            ELSE "pending"])
    /\ records' = records \ {Foremost(records)}
    /\ UNCHANGED <<doc, today, pc, snapshot, rules, analysis, detection, sections>>

NextSection ==
    /\ records = {}
    /\ Goto("records", "sections")
    /\ UNCHANGED <<doc, today, snapshot, rules, analysis, detection, sections, records, done>>

Finish ==
    /\ sections = {}
    /\ Goto("sections", "done")
    /\ UNCHANGED <<doc, today, snapshot, rules, analysis, detection, sections, records, done>>

Next ==
    \/ LoadSnapshot \/ LoadRules \/ Midnight
    \/ Analyze \/ ReadDocument \/ DocumentStageFails
    \/ ExtractFields \/ ProcessRecord \/ NextSection \/ Finish

Spec == Init /\ [][Next]_vars

-----------------------------------------------------------------------------
(* Properties.                                                             *)

Past == {"sections", "records", "done"}

\* No silence about lost text: when the stages went on although a page could not
\* be read as it was written, the analysis warns of it and is not certain.  (The
\* warning is all there is: no later stage reads it, and JobRunner drops it.)  A
\* file reported as broken is never processed, and one reported to hold images
\* only, with every page readable, has no records.
SilenceIsWarned ==
    /\ pc \in Past /\ ReadPages(doc) # doc.pages
          => "unknown_encoding" \in analysis.warnings /\ analysis.confidence < 100
    /\ "broken_pdf" \in analysis.warnings => pc \in {"detect", "failed"}
    /\ "image_only" \in analysis.warnings /\ "unknown_encoding" \notin analysis.warnings
          => sections = {} /\ records = {} /\ done = <<>>

\* A document whose layout is recognised has the layout of a definition no other
\* one beats, and is reported as ambiguous exactly when any other definition comes
\* within the margin (_collect_warnings() compares with the second one only); a
\* document that is not recognised is reported as one or the other kind of
\* unknown (the invariant of LayoutDetectionResult).
DetectionIsExplained ==
    LET of(i) == ScoreOfDefinition(i, ReadPages(doc), doc.fonts)
        chosen == {i \in DOMAIN Definitions : Definitions[i].era = detection.layout}
        rivals(i) == DOMAIN Definitions \ {i}
    IN  pc \in Past =>
          IF detection.layout = NoLayout
          THEN /\ \A i \in DOMAIN Definitions : of(i) < ConfidenceThreshold
               /\ detection.warnings \intersect {"no_match", "low_confidence"} # {}
          ELSE \E i \in chosen :
               /\ of(i) >= ConfidenceThreshold
               /\ \A j \in rivals(i) : of(j) <= of(i)
               /\ "ambiguous_candidates" \in detection.warnings
                    <=> \E j \in rivals(i) : of(i) - of(j) < AmbiguityMargin

\* A section index names a page of the PDF and a record index a line of it,
\* whatever other pages and lines were taken: two releases that take different
\* pages still mean the same thing by (pdf_id, section_index), which is what
\* find_active_section() relies on.
IndexNamesPlace ==
    /\ \A s \in sections : s.lines = doc.pages[s.index]
    /\ \A i \in DOMAIN done : done[i].raw = doc.pages[done[i].section][done[i].index]

\* When the document is done, every line with at least two columns on a readable
\* page of at least three lines has become exactly one record, and nothing else
\* has; an unrecognised document has no records.
EveryRowIsProcessedOnce ==
    pc = "done" =>
      LET IsRow(p, l) == /\ detection.layout # NoLayout
                         /\ p \in DOMAIN doc.pages
                         /\ p \notin doc.unreadable
                         /\ Len(doc.pages[p]) >= 3
                         /\ l \in DOMAIN doc.pages[p]
                         /\ Len(doc.pages[p][l]) >= 2
          rows == {x \in (1..MaxPages) \X (1..MaxLines) : IsRow(x[1], x[2])}
      IN  /\ {<<done[i].section, done[i].index>> : i \in DOMAIN done} = rows
          /\ Len(done) = Cardinality(rows)

\* No normalized value rests on a knowledge item that is not in force on the
\* day of the snapshot, although the lookups of the Normalizer would accept
\* an item on its last day.  That day is the day of processing, which is what
\* ADR-0040 (line 105) prescribes; docs/knowledge/schema.md (line 613) has the
\* day of issue of the order instead, and no stage reads that.
ValuesAreInForce ==
    \A i \in DOMAIN done : \A c \in DOMAIN done[i].fields :
        \A item \in done[i].fields[c].used : IsEffective(item, snapshot.asOf)

\* The verdict of a record is what the rules in force on the day of the rule
\* set say of its fields, with the meaning the columns have on the day of the
\* snapshot, of several the one that was loaded first: failed when and only when
\* some field has allowed values and another value.  A midnight between the two
\* loads makes them different days.
VerdictFollowsRules ==
    \A i \in DOMAIN done :
      LET Meaning(c) ==
            LET layout == {k \in DOMAIN Items :
                              /\ Items[k].category = "layout"
                              /\ Items[k].key = <<detection.layout, c>>
                              /\ IsEffective(Items[k], snapshot.asOf)}
            IN  {Items[k].value : k \in {m \in layout : \A l \in layout : m <= l}}
          Ruled(c) ==
            LET meaning == Meaning(c)
            IN  {Items[k].value : k \in {m \in DOMAIN Items :
                              /\ Items[m].category = "validation"
                              /\ Items[m].key \in meaning
                              /\ IsEffective(Items[m], rules.asOf)}}
          IsWrong(c) ==
            LET ruled == Ruled(c) IN ruled # {} /\ done[i].fields[c].value \notin ruled
      IN  done[i].verdict # "pending" =>
            (done[i].verdict = "failed" <=> \E c \in DOMAIN done[i].fields : IsWrong(c))
=============================================================================
