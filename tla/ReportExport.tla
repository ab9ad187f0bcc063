----------------------------- MODULE ReportExport -----------------------------
(***************************************************************************)
(* The export of a run as a report: derivation_app/reporting.py and the    *)
(* two report operations of service.py.  An export takes a snapshot of a   *)
(* run, gets a directory of its own, writes report.tex and compiles it     *)
(* with the pinned Tectonic.  When the compiler names a line inside a      *)
(* formula, the attempt is kept, the formula is shown as text and the      *)
(* report compiled again; whatever the last compilation gave is written    *)
(* beside the tex, the manifest last.  Exports run on threads, side by     *)
(* side, and each write may fail or be the last before a crash.            *)
(*                                                                         *)
(* A report is the sequence of its formulas, in the order _render_report   *)
(* renders them; a tex is told apart by the set of formulas it was         *)
(* rendered without.                                                       *)
(***************************************************************************)
EXTENDS Naturals, FiniteSets, Sequences

CONSTANTS
    Export,       \* the worker threads exports run on
    Snapshot,     \* what may be exported: a run's view, route and layers (a content hash each)
    Instant,      \* bound: what the clock may read
    MaxFormulas,  \* bound: the formulas of a report
    Faults,       \* bound: what may be wrong with a compilation, of Checks below
    MaxDirectory  \* the directories one timestamp and hash may have; 1000 in the code

ASSUME ReportAssumption == MaxFormulas \in Nat /\ MaxDirectory \in Nat

VARIABLES
    report,  \* the formulas of each snapshot
    exports, \* the call of ReportExporter.export each worker runs, or ran last
    bundles  \* the directories below the report root

reportVars == <<report, exports, bundles>>

Directory == Instant \X Snapshot \X (0..(MaxDirectory - 1))

\* layer is the typeset layer's entry for a formula of a step, when its original is the recorded
\* one; sound, what validate_math says of the body to print, and that its delimiters are closed.
\* Only a display formula of a step's field is an equation with a number.
Formula == {f \in [layer : {"none", "ok", "substituted", "verbatim", "failed"},
                   sound : BOOLEAN, setting : {"inline", "display", "equation"}] :
               f.setting = "display" => f.layer = "none"}
Report == UNION {[1..n -> Formula] : n \in 0..MaxFormulas}
FormulaCount(s) == Len(report[s])
Occurrence(s) == 1..FormulaCount(s)

\* The compilations an export may start: one per formula to fall back on and a last one.
OneRoundPerFormula(s) == FormulaCount(s)
Rounds(s) == FormulaCount(s) + 1

-----------------------------------------------------------------------------
(* The renderer.  A quotation no engine sets is never a formula of the     *)
(* tex; of the others only what is rendered carries the markers a          *)
(* compiler's line is looked up in.                                        *)

Quoted(s, i) == report[s][i].layer = "verbatim"
Unrendered(s, rejected, i) ==
    ~Quoted(s, i) /\ (~report[s][i].sound \/ report[s][i].layer = "failed" \/ i \in rejected)
Marked(s, rejected) == {i \in Occurrence(s) : ~Quoted(s, i) /\ ~Unrendered(s, rejected, i)}

Warnings(s, rejected) ==
    {<<i, "quotation_verbatim">> : i \in {j \in Occurrence(s) : Quoted(s, j)}}
       \cup {<<i, "math_rejected">> : i \in {j \in Occurrence(s) : Unrendered(s, rejected, j)}}
       \cup {<<i, "typeset_substituted">> :
                i \in {j \in Marked(s, rejected) : report[s][j].layer = "substituted"}}

\* The formulas with a number: the first of them has number 1, and so on.
Equations(s, rejected) == {i \in Marked(s, rejected) : report[s][i].setting = "equation"}

-----------------------------------------------------------------------------
(* The compiler.  A compilation is the set of what is wrong with it: the   *)
(* pinned files, the version they report, the time it takes, the output it *)
(* gives, its exit code and PDF, the PDF's size, and a glyph its log says  *)
(* is missing.  They are looked at in this order, and the first is the     *)
(* failure.                                                                *)

Checks == <<"tectonic_runtime_unavailable", "tectonic_version_mismatch", "tectonic_timeout",
            "tectonic_output_limit", "tectonic_compile_failed", "tectonic_pdf_output_limit",
            "tectonic_missing_glyphs">>
Code == {"none"} \cup {Checks[i] : i \in DOMAIN Checks}

FailureCode(faults) ==
    IF faults = {} THEN "none"
    ELSE CHOOSE c \in faults : \E i \in DOMAIN Checks :
            Checks[i] = c /\ \A j \in 1..(i - 1) : Checks[j] \notin faults

ASSUME FaultsAssumption == Faults \subseteq Code \ {"none"}

\* compiler_formula_error and _formula_at_line: the formula whose lines the log names, or 0.  A
\* compiler may name the lines of a formula that is not to blame, and only a failed compilation
\* is read.
Named(s, rejected, code) ==
    {0} \cup IF code = "tectonic_compile_failed" THEN Marked(s, rejected) ELSE {}

-----------------------------------------------------------------------------
Unwritten == [status |-> "none", failure |-> "none", warnings |-> {}, equations |-> {},
              files |-> {}, hashes |-> <<>>]
\* log and pdf say what tex was compiled; write_bytes opens a file before it fills it.
Missing == [files |-> {}, tex |-> {}, attempts |-> <<>>, log |-> {}, code |-> "none",
            pdf |-> "none", pdfOf |-> {}, manifest |-> Unwritten]
NoExport == [at |-> "idle", snapshot |-> "none", directory |-> <<>>, rejected |-> {},
             attempt |-> 0, compiled |-> {}, code |-> "none", named |-> 0]
InFlight == {"render", "write", "compile", "judge", "log", "pdf", "close", "manifest"}

ReportInit ==
    /\ report \in [Snapshot -> Report]
    /\ exports = [e \in Export |-> NoExport]
    /\ bundles = [d \in Directory |-> Missing]

Free(t, s) == {c \in 0..(MaxDirectory - 1) : bundles[<<t, s, c>>].files = {}}

Here(e) == exports[e].directory
Goes(e, x) == exports' = [exports EXCEPT ![e] = x] /\ UNCHANGED report
Leaves(d, b) == bundles' = [bundles EXCEPT ![d] = b]

\* service.export_report and the head of export.  The lock of the exporter is held while the
\* first free directory of this instant and content is made; there may be none.
Begins(e, t, s) ==
    /\ exports[e].at \notin InFlight
    /\ \/ Free(t, s) = {} /\ Goes(e, [NoExport EXCEPT !.at = "failed"]) /\ UNCHANGED bundles
       \/ \E c \in Free(t, s) :
             /\ \A other \in Free(t, s) : c <= other
             /\ Goes(e, [NoExport EXCEPT !.at = "render", !.snapshot = s, !.directory = <<t, s, c>>])
             /\ Leaves(<<t, s, c>>, [Missing EXCEPT !.files = {"assets/"}])

\* The first rendering, without any fallback.
Renders(e) ==
    /\ exports[e].at = "render" /\ Goes(e, [exports[e] EXCEPT !.at = "write"]) /\ UNCHANGED bundles

WritesTex(e) ==
    /\ exports[e].at = "write" /\ Goes(e, [exports[e] EXCEPT !.at = "compile"])
    /\ Leaves(Here(e), [bundles[Here(e)] EXCEPT !.files = @ \cup {"report.tex"},
                                                !.tex = exports[e].rejected])

Compiles(e) ==
    /\ exports[e].at = "compile" /\ UNCHANGED bundles
    /\ \E faults \in SUBSET Faults :
       \E i \in Named(exports[e].snapshot, exports[e].rejected, FailureCode(faults)) :
          Goes(e, [exports[e] EXCEPT !.at = "judge", !.code = FailureCode(faults), !.named = i,
                                     !.compiled = exports[e].rejected])

Rejectable(x) == x.named # 0 /\ x.named \notin x.rejected

\* A named formula: the attempt is kept, and the report rendered without it, for another round
\* unless this was the last.
FallsBack(e) ==
    /\ exports[e].at = "judge" /\ Rejectable(exports[e])
    /\ Leaves(Here(e), [bundles[Here(e)] EXCEPT !.attempts =
          Append(@, [tex |-> exports[e].rejected, formula |-> exports[e].named])])
    /\ LET next == IF exports[e].attempt + 1 < Rounds(exports[e].snapshot) THEN "write" ELSE "log"
       IN Goes(e, [exports[e] EXCEPT !.at = next, !.rejected = @ \cup {exports[e].named},
                                     !.attempt = @ + 1])

Settles(e) ==
    /\ exports[e].at = "judge" /\ ~Rejectable(exports[e])
    /\ Goes(e, [exports[e] EXCEPT !.at = "log"]) /\ UNCHANGED bundles

WritesLog(e) ==
    /\ exports[e].at = "log"
    /\ Goes(e, [exports[e] EXCEPT !.at = IF exports[e].code = "none" THEN "pdf" ELSE "manifest"])
    /\ Leaves(Here(e), [bundles[Here(e)] EXCEPT !.files = @ \cup {"compile.log"},
                                                !.log = exports[e].compiled, !.code = exports[e].code])

OpensPdf(e) ==
    /\ exports[e].at = "pdf" /\ Goes(e, [exports[e] EXCEPT !.at = "close"])
    /\ Leaves(Here(e), [bundles[Here(e)] EXCEPT !.files = @ \cup {"report.pdf"}, !.pdf = "partial"])
FillsPdf(e) ==
    /\ exports[e].at = "close" /\ Goes(e, [exports[e] EXCEPT !.at = "manifest"])
    /\ Leaves(Here(e), [bundles[Here(e)] EXCEPT !.pdf = "whole", !.pdfOf = exports[e].compiled])

\* What the rows of the manifest say the files hold.
Hashes(b) == <<b.tex, b.attempts, b.log, b.pdf, b.pdfOf>>

\* The warnings and the equations are those of the last rendering.
Manifest(x, b) ==
    [status |-> IF x.code = "none" THEN "success" ELSE "failed", failure |-> x.code,
     warnings |-> Warnings(x.snapshot, x.rejected), equations |-> Equations(x.snapshot, x.rejected),
     files |-> b.files, hashes |-> Hashes(b)]

WritesManifest(e) ==
    /\ exports[e].at = "manifest" /\ Goes(e, [exports[e] EXCEPT !.at = "done"])
    /\ Leaves(Here(e), [bundles[Here(e)] EXCEPT !.manifest = Manifest(exports[e], bundles[Here(e)])])

\* A write raises, or the first rendering finds a route with a step the run has not: the export
\* fails closed and leaves what it wrote.
Raises(e) ==
    /\ exports[e].at \in InFlight
    /\ Goes(e, [exports[e] EXCEPT !.at = "failed"]) /\ UNCHANGED bundles

ReportCrashes ==
    /\ \E e \in Export : exports[e].at \in InFlight
    /\ exports' = [e \in Export |->
          IF exports[e].at \in InFlight THEN [exports[e] EXCEPT !.at = "failed"] ELSE exports[e]]
    /\ UNCHANGED <<report, bundles>>

ExportStep(e) ==
    \/ \E t \in Instant, s \in Snapshot : Begins(e, t, s)
    \/ Renders(e) \/ WritesTex(e) \/ Compiles(e) \/ FallsBack(e) \/ Settles(e)
    \/ WritesLog(e) \/ OpensPdf(e) \/ FillsPdf(e) \/ WritesManifest(e) \/ Raises(e)

ReportNext == ReportCrashes \/ \E e \in Export : ExportStep(e)
ReportSpec == ReportInit /\ [][ReportNext]_reportVars

-----------------------------------------------------------------------------
\* Once its manifest is there, a bundle is a bundle to its readers; read_pdf asks for the PDF only.
Sealed(b) == b.manifest.status # "none"
Readable(b) == "report.pdf" \in b.files

ReportTypeOK ==
    /\ report \in [Snapshot -> Report]
    /\ \A e \in Export :
          /\ exports[e].at \in InFlight \cup {"idle", "done", "failed"}
          /\ exports[e].at \in InFlight => Here(e) \in Directory /\ exports[e].snapshot = Here(e)[2]
    /\ \A d \in Directory :
          /\ bundles[d].files \subseteq {"assets/", "report.tex", "compile.log", "report.pdf"}
          /\ bundles[d].pdf \in {"none", "partial", "whole"} /\ bundles[d].code \in Code
          /\ Readable(bundles[d]) <=> bundles[d].pdf # "none"

\* The directory of an export is its own.
OwnBundle ==
    \A e, f \in Export :
       e # f /\ exports[e].at \in InFlight /\ exports[f].at \in InFlight => Here(e) # Here(f)

\* A PDF that is whole was compiled, without a failure, from the tex beside it, and the log beside
\* it is that compilation's: with a manifest or without one.
PdfOfItsTex ==
    \A d \in Directory :
       LET b == bundles[d] IN
       b.pdf = "whole" => b.code = "none" /\ b.pdfOf = b.tex /\ b.log = b.tex

\* Each fallback has its attempt: the tex before it and the formula the compiler named in that
\* tex, no formula twice; and the final tex lacks exactly the formulas of the attempts.
Fallbacks(b) == {b.attempts[i].formula : i \in DOMAIN b.attempts}
Chained(s, b) ==
    \A i \in DOMAIN b.attempts :
       /\ b.attempts[i].tex = {b.attempts[j].formula : j \in 1..(i - 1)}
       /\ b.attempts[i].formula \in Marked(s, b.attempts[i].tex)
FallbacksKept ==
    \A d \in Directory :
       Chained(d[2], bundles[d]) /\ (Sealed(bundles[d]) => bundles[d].tex = Fallbacks(bundles[d]))

\* A manifest lists what lies beside it; its warnings and equation numbers are those of the tex
\* beside it; every formula of the report is in that tex as recorded, or has a warning; and it
\* says success exactly when there is a PDF.
Tells(s, b) ==
    /\ b.manifest.status = "success" <=> b.pdf = "whole"
    /\ b.manifest.failure = b.code /\ b.log = b.tex
    /\ b.manifest.files = b.files /\ b.manifest.hashes = Hashes(b)
    /\ b.manifest.warnings = Warnings(s, b.tex) /\ b.manifest.equations = Equations(s, b.tex)
    /\ \A i \in Occurrence(s) :
          \/ i \in Marked(s, b.tex) /\ report[s][i].layer \in {"none", "ok"}
          \/ \E w \in b.manifest.warnings : w[1] = i
ManifestTrue == \A d \in Directory : Sealed(bundles[d]) => Tells(d[2], bundles[d])

\* A bundle with a manifest never changes, and no file of any bundle goes away.
BundlesStay ==
    \A d \in Directory :
       /\ Sealed(bundles[d]) => bundles'[d] = bundles[d]
       /\ bundles[d].files \subseteq bundles'[d].files

\* What an export leaves is true and stays: through exports that run side by side, compilations
\* that fail, writes that raise and crashes.
ReportSound ==
    /\ [](ReportTypeOK /\ OwnBundle /\ PdfOfItsTex /\ FallbacksKept /\ ManifestTrue)
    /\ [][BundlesStay]_reportVars

=============================================================================
