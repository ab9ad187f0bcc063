------------------------------ MODULE MCService -------------------------------
(***************************************************************************)
(* The service checked in one run: the life of its runs, the events of a   *)
(* run, the idempotency ledger, and the export of reports.  A behaviour    *)
(* chooses one of the four and lets it step; the others keep their initial *)
(* states.                                                                 *)
(***************************************************************************)
EXTENDS RunService, RunStream, RunLedger, ReportExport

VARIABLE part

serviceRunVars == <<part, serviceVars, streamVars, ledgerVars, reportVars>>

\* Bound: one intake problem with two configurations, and one line less once a second create was sent.
IntakeCreates == {Payload}
FirstCreate == CHOOSE k \in CreateKey : TRUE
LedgerBound == Len(ledger) < MaxLines \/ \A k \in CreateKey \ {FirstCreate} : LinesOf(k) = {}

\* Bound: the page gives its commands before the third event.
EarlyCommand == asked.at = "none" /\ asked'.at # "none" => cursorFile < 3

\* Bound: the reports exported.
Prints(layer, setting) == [layer |-> layer, sound |-> TRUE, setting |-> setting]
ExportedReports ==
    {<<>>, <<Prints("substituted", "equation"), Prints("none", "display")>>,
     <<Prints("verbatim", "inline"), Prints("failed", "equation"),
       [Prints("ok", "equation") EXCEPT !.sound = FALSE]>>}

AllInit ==
    /\ part \in {"runs", "stream", "ledger", "reports"}
    /\ ServiceInit /\ StreamInit /\ LedgerInit
    /\ report \in [Snapshot -> ExportedReports] /\ ReportInit
    /\ part # "reports" => report = [s \in Snapshot |-> <<>>]

AllNext ==
    /\ UNCHANGED part
    /\ \/ part = "runs"    /\ ServiceNext /\ UNCHANGED <<streamVars, ledgerVars, reportVars>>
       \/ part = "stream"  /\ StreamNext  /\ EarlyCommand /\ UNCHANGED <<serviceVars, ledgerVars, reportVars>>
       \/ part = "ledger"  /\ LedgerNext /\ LedgerBound' /\ UNCHANGED <<serviceVars, streamVars, reportVars>>
       \/ part = "reports" /\ ReportNext  /\ UNCHANGED <<serviceVars, streamVars, ledgerVars>>

AllFairness ==
    /\ \A r \in Run : WF_serviceVars(Unattended(r))
    /\ WF_streamVars(StreamEnds) /\ WF_streamVars(Reconnects) /\ WF_streamVars(StreamStarts) /\ SF_streamVars(Hears)

AllSpec == AllInit /\ [][AllNext]_serviceRunVars /\ AllFairness

=============================================================================
