------------------------------ MODULE ScanRun ------------------------------
(***************************************************************************)
(* One run of the scan command (internal/cli/scan.go) from the moment its  *)
(* flags are accepted to the exit of the process: probe the server's       *)
(* version, collect the requested planes, run the rules, build the report, *)
(* write the artefacts and, if asked to, serve them until Ctrl+C.          *)
(*                                                                         *)
(* Ctrl+C may come at any moment.  It cancels the collection's context,    *)
(* which stays registered for the signals until the command returns, and   *)
(* the report server's context from the moment that one is registered.     *)
(***************************************************************************)
EXTENDS ReportVerdict, Sequences, SequencesExt

CONSTANTS
  ScanFindings,  \* the bags of findings that the rules may return
  Leftovers,     \* the sets of artefacts that an earlier run may have left
  MaxSignals     \* bound on the number of times Ctrl+C is pressed

VARIABLES
  stage,      \* where the command is
  opts,       \* what the flags ask for
  signals,    \* signals delivered so far
  cancelled,  \* collectCtx is cancelled
  waitCtx,    \* serveReports' context: none, registered, cancelled
  probe,      \* the goroutine of ServerVersion
  resultCh,   \* its buffered channel
  version,    \* currentVersion, relative to the target
  begun,      \* the collection of the current plane: no, live or cancelled
  coverage,   \* what buildScanCoverage says of each plane
  awsNil,     \* AWS was requested but there is no AWS snapshot
  robbed,     \* a live plane was collected under a cancelled context
  evaluated,  \* every applicable rule was evaluated
  fs,         \* the findings of the rules
  exitCode,   \* the variable that outlives the command: the report's code
  report,     \* the report's result, or none
  files,      \* the artefacts in the output directory
  server,     \* the report server
  routes,     \* the artefacts it serves
  exit        \* the exit code of the process

run == <<stage, opts, exit>>
ctx == <<signals, cancelled, waitCtx>>
detection == <<probe, resultCh, version>>
evidence == <<begun, coverage, awsNil, robbed, evaluated, fs>>
outcome == <<exitCode, report>>
output == <<files, server, routes>>
vars == <<run, ctx, detection, evidence, outcome, output>>

NoExit == -1
NoReport == "none"
Alive == exit = NoExit
Artefacts == {"findings.json", "report.md", "report.html", "upgrade-plan.json"}

(* requestedReportTargetsInDir. *)
Targets ==
  <<"findings.json">>
    \o (IF opts.output \in {"md", "all"} THEN <<"report.md">> ELSE <<>>)
    \o (IF opts.output \in {"html", "all"} \/ opts.serve THEN <<"report.html">> ELSE <<>>)

Options ==
  {o \in [kubernetes : BOOLEAN, aws : BOOLEAN, manifests : BOOLEAN,
          output : {"json", "md", "html", "all"}, serve : BOOLEAN] :
     /\ o.aws => o.kubernetes
     /\ o.kubernetes \/ o.manifests}

Init ==
  /\ stage = "setup" /\ opts \in Options /\ exit = NoExit
  /\ signals = 0 /\ cancelled = FALSE /\ waitCtx = "none"
  /\ probe = "idle" /\ resultCh = "empty" /\ version = "unknown"
  /\ begun = "no" /\ coverage = [p \in Planes |-> "skipped"]
  /\ awsNil = FALSE /\ robbed = FALSE /\ evaluated = TRUE
  /\ fs = [class \in Classes |-> 0]
  /\ exitCode = 0 /\ report = NoReport
  /\ \E left \in Leftovers :
       files = [f \in Artefacts |-> IF f \in left THEN "old" ELSE "absent"]
  /\ server = "none" /\ routes = {}

At(s) == Alive /\ stage = s
Goto(s) == stage' = s /\ UNCHANGED <<opts, exit>>

(* The command returns and exitCodeForError decides. *)
Exit(code) == exit' = code /\ stage' = "exited" /\ UNCHANGED opts

(* exitCodeForError: an infrastructure failure is 4, any other error is 1. *)
Infra == Exit(4)
Failure == Exit(1)
Success == Exit(exitCode)
-----------------------------------------------------------------------------
(* Kubeconfig and clients; --manifests-only needs none. *)
Setup ==
  /\ At("setup")
  /\ IF opts.kubernetes
     THEN \/ Goto("probing") /\ probe' = "asking"
          \/ Infra /\ UNCHANGED probe
     ELSE Goto("manifests") /\ UNCHANGED probe
  /\ UNCHANGED <<ctx, resultCh, version, evidence, outcome, output>>

(* The API server answers the discovery call; the goroutine holds the answer. *)
ProbeAnswered ==
  /\ Alive /\ probe = "asking"
  /\ probe' \in {"older", "newer", "error"}
  /\ UNCHANGED <<run, ctx, resultCh, version, evidence, outcome, output>>

Answered == probe \in {"older", "newer", "error"}

(* Mutant: the channel has no buffer, so someone must be receiving. *)
ProbeSendsUnbuffered ==
  /\ Alive /\ Answered /\ stage = "probing"
  /\ resultCh' = probe /\ probe' = "gone"
  /\ UNCHANGED <<run, ctx, version, evidence, outcome, output>>

(* resultCh <- result: there is room for the one answer. *)
ProbeSends ==
  /\ Alive /\ Answered /\ resultCh = "empty"
  /\ resultCh' = probe /\ probe' = "gone"
  /\ UNCHANGED <<run, ctx, version, evidence, outcome, output>>

(* ServerVersion receives the answer; rejectDowngrade ends the command     *)
(* when the server is known to be ahead of the target.                     *)
VersionKnown ==
  /\ At("probing") /\ resultCh # "empty"
  /\ resultCh' = "empty"
  /\ version' = IF resultCh = "error" THEN "unknown" ELSE resultCh
  /\ IF version' = "newer" THEN Failure ELSE Goto("kubernetes")
  /\ UNCHANGED <<ctx, probe, evidence, outcome, output>>

(* Mutant: only Ctrl+C ends the wait for the answer. *)
VersionOnlyCancelled ==
  /\ At("probing") /\ cancelled
  /\ Goto("kubernetes")
  /\ UNCHANGED <<ctx, detection, evidence, outcome, output>>

(* The per-call budget expires, or the context was cancelled. *)
VersionTimesOut ==
  /\ At("probing")
  /\ Goto("kubernetes")
  /\ UNCHANGED <<ctx, detection, evidence, outcome, output>>
-----------------------------------------------------------------------------
After(p) == CASE p = "kubernetes" -> "aws" [] p = "aws" -> "manifests" [] p = "manifests" -> "rules"

(* A plane that was not requested stays skipped. *)
SkipPlane(p) ==
  /\ At(p) /\ ~opts[p]
  /\ Goto(After(p))
  /\ UNCHANGED <<ctx, detection, evidence, outcome, output>>

BeginPlane(p) ==
  /\ At(p) /\ opts[p] /\ begun = "no"
  /\ begun' = IF cancelled THEN "cancelled" ELSE "live"
  /\ robbed' = (robbed \/ (cancelled /\ p \in {"kubernetes", "aws"}))
  /\ UNCHANGED <<run, ctx, detection, coverage, awsNil, evaluated, fs, outcome, output>>

(* Are there errors in the plane's snapshot?  Calls made under a context   *)
(* that is already cancelled all fail; manifest directories are read       *)
(* whatever the context says, and only a Helm chart, if there is one,      *)
(* needs it live.                                                          *)
Partial(p, partial) == partial \/ (begun = "cancelled" /\ p \in {"kubernetes", "aws"})

(* The plane's Collect comes back; collectors record errors, they return   *)
(* none.  buildScanCoverage will see the errors.                           *)
EndPlane(p, partial) ==
  /\ At(p) /\ begun # "no"
  /\ begun' = "no"
  /\ coverage' = [coverage EXCEPT ![p] = IF Partial(p, partial) THEN "partial" ELSE "complete"]
  /\ Goto(After(p))
  /\ UNCHANGED <<ctx, detection, awsNil, robbed, evaluated, fs, outcome, output>>

(* LoadCollector fails: no AWS snapshot, the scan goes on. *)
AwsUnavailable ==
  /\ At("aws") /\ begun # "no"
  /\ begun' = "no" /\ awsNil' = TRUE
  /\ coverage' = [coverage EXCEPT !.aws = "partial"]
  /\ Goto("manifests")
  /\ UNCHANGED <<ctx, detection, robbed, evaluated, fs, outcome, output>>

(* RunAllWithExecutions and the namespace allowlist, fs being what is left *)
(* after it: a missing or wholly failed plane leaves some applicable rule  *)
(* unevaluated; errors that no rule depends on do not.                     *)
RunRules ==
  /\ At("rules")
  /\ fs' \in ScanFindings
  /\ evaluated' \in (IF awsNil \/ robbed THEN {FALSE} ELSE BOOLEAN)
  /\ Goto("report")
  /\ UNCHANGED <<ctx, detection, begun, coverage, awsNil, robbed, outcome, output>>

(* NewReport, RuleExecutions, SetCoverage, and *exitCode = rpt.ExitCode(). *)
BuildReport ==
  /\ At("report")
  /\ report' = Result(fs, coverage, evaluated)
  /\ exitCode' = ExitCode(report')
  /\ Goto("terminal")
  /\ UNCHANGED <<ctx, detection, evidence, output>>
-----------------------------------------------------------------------------
(* WriteTerminal or WriteCompactSummary; silent writes nothing. *)
Render ==
  /\ At("terminal")
  /\ Goto("mkdir") \/ Failure
  /\ UNCHANGED <<ctx, detection, evidence, outcome, output>>

MakeDirectory ==
  /\ At("mkdir")
  /\ Goto("writing") \/ Infra
  /\ UNCHANGED <<ctx, detection, evidence, outcome, output>>

IsTorn(f) == files[f] = "torn"

(* The targets are written one after the other, in order. *)
Unwritten == {i \in DOMAIN Targets : files[Targets[i]] # "new"}
NextTarget == Targets[Min(Unwritten)]

(* createReportFile truncates the next target, or refuses to. *)
Truncate ==
  /\ At("writing") /\ Unwritten # {} /\ ~IsTorn(NextTarget)
  /\ \/ files' = [files EXCEPT ![NextTarget] = "torn"] /\ Goto(stage)
     \/ Infra /\ UNCHANGED files
  /\ UNCHANGED <<ctx, detection, evidence, outcome, server, routes>>

(* Mutant: an artefact that cannot be written is skipped. *)
WriteOrSkip ==
  /\ At("writing") /\ Unwritten # {} /\ IsTorn(NextTarget)
  /\ \/ files' = [files EXCEPT ![NextTarget] = "new"] /\ Goto(stage)
     \/ Goto("written") /\ UNCHANGED files
  /\ UNCHANGED <<ctx, detection, evidence, outcome, server, routes>>

(* The writer renders into the file and closes it, or fails halfway. *)
Write ==
  /\ At("writing") /\ Unwritten # {} /\ IsTorn(NextTarget)
  /\ \/ files' = [files EXCEPT ![NextTarget] = "new"] /\ Goto(stage)
     \/ Infra /\ UNCHANGED files
  /\ UNCHANGED <<ctx, detection, evidence, outcome, server, routes>>

AllWritten ==
  /\ At("writing") /\ Unwritten = {}
  /\ Goto("written")
  /\ UNCHANGED <<ctx, detection, evidence, outcome, output>>

(* Without --serve-report the command returns nil. *)
Finish ==
  /\ At("written") /\ ~opts.serve
  /\ Success
  /\ UNCHANGED <<ctx, detection, evidence, outcome, output>>
-----------------------------------------------------------------------------
(* Mutant: whatever lies in the output directory is served. *)
RoutesIfPresent == {f \in Artefacts : files[f] # "absent"}

(* The routes of reportserver.Start: report.md is served if there is one;  *)
(* scan never sets ServePlan, so an upgrade plan is not.                   *)
Routes == {f \in Artefacts \ {"upgrade-plan.json"} : files[f] # "absent"}

(* reportserver.Start: both files are there; the address may not be. *)
StartServer ==
  /\ At("written") /\ opts.serve
  /\ \/ /\ files["report.html"] # "absent" /\ files["findings.json"] # "absent"
        /\ server' = "listening" /\ routes' = Routes /\ Goto("announce")
     \/ Failure /\ UNCHANGED <<server, routes>>
  /\ UNCHANGED <<ctx, detection, evidence, outcome, files>>

(* The URLs are printed, a browser may be opened, and only then            *)
(* signal.NotifyContext registers the context of Wait.                     *)
Register ==
  /\ At("announce")
  /\ waitCtx' = "registered"
  /\ Goto("waiting")
  /\ UNCHANGED <<signals, cancelled, detection, evidence, outcome, output>>

(* The goroutine of http.Server.Serve ends with an error. *)
ServerFails ==
  /\ Alive /\ server = "listening"
  /\ server' = "failed"
  /\ UNCHANGED <<run, ctx, detection, evidence, outcome, files, routes>>

(* Wait, case <-s.errCh. *)
WaitFailed ==
  /\ At("waiting") /\ server = "failed"
  /\ Failure
  /\ UNCHANGED <<ctx, detection, evidence, outcome, output>>

(* Wait, case <-ctx.Done(): the requests in flight end in time. *)
ShutDown ==
  /\ At("waiting") /\ waitCtx = "cancelled"
  /\ server' = "closed"
  /\ Success
  /\ UNCHANGED <<ctx, detection, evidence, outcome, files, routes>>

(* Mutant: Shutdown is given no deadline. *)
ShutDownUnbounded == FALSE

(* Shutdown gives up after its five seconds. *)
ShutDownTimesOut ==
  /\ At("waiting") /\ waitCtx = "cancelled"
  /\ Failure
  /\ UNCHANGED <<ctx, detection, evidence, outcome, output>>

(* Ctrl+C or SIGTERM. *)
Signal ==
  /\ Alive /\ signals < MaxSignals
  /\ signals' = signals + 1
  /\ cancelled' = TRUE
  /\ waitCtx' = IF waitCtx = "registered" THEN "cancelled" ELSE waitCtx
  /\ UNCHANGED <<run, detection, evidence, outcome, output>>

Main ==
  \/ Setup \/ VersionKnown \/ VersionTimesOut
  \/ \E p \in Planes : SkipPlane(p) \/ BeginPlane(p) \/ \E partial \in BOOLEAN : EndPlane(p, partial)
  \/ AwsUnavailable \/ RunRules \/ BuildReport
  \/ Render \/ MakeDirectory \/ Truncate \/ Write \/ AllWritten \/ Finish
  \/ StartServer \/ Register \/ WaitFailed \/ ShutDownTimesOut

Next == Main \/ ProbeAnswered \/ ProbeSends \/ ServerFails \/ ShutDown \/ Signal

(* The main goroutine and the probe's send run when they can: a call of    *)
(* the API servers and a chart have their deadlines, and so has Shutdown.  *)
(* Reading directories has none (the comment on Collect of the manifest    *)
(* collector says why): that the file system answers, and the decoder gets *)
(* past an error, is assumed.  Answers of the probe, signals, the server's *)
(* failure and its clients owe nothing.                                    *)
Fairness == WF_vars(Main) /\ WF_vars(ProbeSends)

Spec == Init /\ [][Next]_vars /\ Fairness
-----------------------------------------------------------------------------
Fresh(f) == files[f] = "new"

(* Exit 0 is earned: every plane that was asked for was collected whole,   *)
(* without Ctrl+C getting in its way, every applicable rule was evaluated, *)
(* nothing gates, and every artefact asked for is this scan's.             *)
GreenIsEarned ==
  exit = 0 =>
    /\ \A p \in Planes : opts[p] => coverage[p] = "complete"
    /\ evaluated /\ ~robbed
    /\ ~Blockers(fs) /\ ~Warnings(fs) /\ ~OperatorDecisions(fs)
    /\ \A f \in Range(Targets) : Fresh(f)

(* A report built after Ctrl+C cost it a live plane says INCOMPLETE, even  *)
(* with blockers in hand, and the process does not claim to know better.   *)
InterruptIsConfessed ==
  robbed /\ report # NoReport => report = "INCOMPLETE" /\ exit \notin {0, 2}

(* An exit code that only a report can cause means that every artefact of  *)
(* that report is on disk, whole, none of it left over from an older scan. *)
ArtefactsAreWhole ==
  exit \in {0, 2, 3} => \A f \in Range(Targets) : Fresh(f)

(* What the server serves is this scan's, although the output directory    *)
(* may hold an older scan's reports and plan; only a report.md that was    *)
(* not asked for may be an older scan's.                                   *)
ServedIsThisScan ==
  server # "none" =>
    /\ {"report.html", "findings.json"} \subseteq routes
    /\ \A f \in routes : Fresh(f) \/ (f = "report.md" /\ f \notin Range(Targets))

(* A scan that does not serve ends, whoever fails to answer. *)
ScanEnds == ~opts.serve ~> ~Alive

(* The version probe's goroutine gets rid of a late answer and ends. *)
ProbeDoesNotLeak == Answered ~> (probe = "gone" \/ ~Alive)

(* Ctrl+C in Wait ends the command, whatever the server's clients do. *)
InterruptEndsWait == waitCtx = "cancelled" ~> ~Alive
=============================================================================
