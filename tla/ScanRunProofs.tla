--------------------------- MODULE ScanRunProofs ---------------------------
(***************************************************************************)
(* What exit codes, artefacts and the server's routes of a scan may be     *)
(* trusted for, whatever the rules find, whatever an earlier run left in   *)
(* the output directory and however often Ctrl+C is pressed.               *)
(*                                                                         *)
(* A property of the exit says nothing of the steps that lead there.  The  *)
(* inductive invariant says what each stage may rely on: which planes have *)
(* been looked at, that a cancelled collection has cost a rule its         *)
(* evidence, what the report was computed from, which artefacts are        *)
(* written and since when there is a server.                               *)
(***************************************************************************)
EXTENDS ScanRun, TLAPS

Written == {"written", "announce", "waiting"}
Reported == {"terminal", "mkdir", "writing"} \cup Written
Ruled == {"report"} \cup Reported
PastPlanes == {"rules"} \cup Ruled

TypeOK ==
  /\ opts \in Options
  /\ coverage \in [Planes -> {"skipped", "partial", "complete"}]
  /\ files \in [Artefacts -> {"absent", "old", "torn", "new"}]
  /\ robbed \in BOOLEAN /\ evaluated \in BOOLEAN /\ awsNil \in BOOLEAN
  /\ stage \in {"setup", "probing", "kubernetes", "aws", "manifests", "exited"} \cup PastPlanes

(* A requested plane that was passed has been looked at. *)
CoverageInv ==
  /\ opts.kubernetes /\ stage \in {"aws", "manifests"} \cup PastPlanes
       => coverage["kubernetes"] # "skipped"
  /\ opts.aws /\ stage \in {"manifests"} \cup PastPlanes => coverage["aws"] # "skipped"
  /\ opts.manifests /\ stage \in PastPlanes => coverage["manifests"] # "skipped"

(* A live plane collected under a cancelled context has cost some rule its *)
(* evidence.                                                               *)
RobbedInv == robbed /\ stage \in Ruled => ~evaluated

(* The report stands for the evidence the command still holds. *)
ReportInv ==
  /\ stage \in Reported =>
       report = Result(fs, coverage, evaluated) /\ exitCode = ExitCode(report)
  /\ stage \notin Reported \cup {"exited"} => report = NoReport

AllFresh == \A f \in Range(Targets) : Fresh(f)

WrittenInv == stage \in Written => AllFresh

(* The server is there from StartServer on, and serves no plan. *)
ServerInv ==
  /\ stage \in {"announce", "waiting"} => server # "none"
  /\ server # "none" =>
       /\ stage \in {"announce", "waiting", "exited"} /\ opts.serve
       /\ {"report.html", "findings.json"} \subseteq routes
       /\ routes \subseteq Artefacts \ {"upgrade-plan.json"}

Promises == GreenIsEarned /\ InterruptIsConfessed /\ ArtefactsAreWhole /\ ServedIsThisScan

StageInv == TypeOK /\ CoverageInv /\ RobbedInv /\ ReportInv /\ WrittenInv /\ ServerInv

IInv == StageInv /\ Promises

LEMMA ResultFacts ==
  ASSUME NEW bag, NEW cov, NEW all \in BOOLEAN
  PROVE  LET result == Result(bag, cov, all)
         IN  /\ result \in {"INCOMPLETE", "BLOCKED", "PASSED_WITH_WARNINGS", "CLEAN"}
             /\ ~all => result = "INCOMPLETE"
             /\ result = "CLEAN" =>
                  /\ \A p \in Planes : cov[p] # "partial"
                  /\ all /\ ~Blockers(bag) /\ ~Warnings(bag) /\ ~OperatorDecisions(bag)
BY DEF Result, IsComplete

LEMMA CodeFacts ==
  /\ ExitCode("INCOMPLETE") = 3 /\ ExitCode("BLOCKED") = 2
  /\ ExitCode("PASSED_WITH_WARNINGS") = 1 /\ ExitCode("CLEAN") = 0
BY DEF ExitCode

(* findings.json is always a target, report.html whenever it is served. *)
LEMMA TargetFacts ==
  ASSUME TypeOK
  PROVE  /\ Range(Targets) \subseteq Artefacts
         /\ \A i \in DOMAIN Targets : Targets[i] \in Range(Targets)
         /\ \A f \in Range(Targets) : \E i \in DOMAIN Targets : f = Targets[i]
         /\ "findings.json" \in Range(Targets)
         /\ opts.serve => "report.html" \in Range(Targets)
<1> DEFINE Head1 == <<"findings.json">>
           Md == IF opts.output \in {"md", "all"} THEN <<"report.md">> ELSE <<>>
           Html == IF opts.output \in {"html", "all"} \/ opts.serve THEN <<"report.html">> ELSE <<>>
<1>1. Targets = Head1 \o Md \o Html
  BY DEF Targets
<1>2. \A i \in DOMAIN Targets : Targets[i] \in Artefacts
  BY <1>1 DEF Artefacts
<1>3. 1 \in DOMAIN Targets /\ Targets[1] = "findings.json"
  BY <1>1
<1>4. ASSUME opts.serve
      PROVE  \E i \in DOMAIN Targets : Targets[i] = "report.html"
  <2>1. Head1 \o Md \in Seq(Artefacts) /\ <<"report.html">> \in Seq(Artefacts)
    <3>1. \A f \in Artefacts : <<f>> \in Seq(Artefacts)
      OBVIOUS
    <3>2. Head1 \in Seq(Artefacts) /\ <<"report.html">> \in Seq(Artefacts)
      BY <3>1 DEF Artefacts
    <3>3. Md \in Seq(Artefacts)
      <4>1. <<"report.md">> \in Seq(Artefacts) /\ <<>> \in Seq(Artefacts)
        BY <3>1 DEF Artefacts
      <4>2. QED
        BY <4>1
    <3>4. QED
      BY <3>2, <3>3
  <2> DEFINE n == Len(Head1 \o Md) + 1
  <2>2. Targets = (Head1 \o Md) \o <<"report.html">>
    BY <1>1, <1>4
  <2> HIDE DEF Head1, Md
  <2>3. n \in DOMAIN Targets /\ Targets[n] = "report.html"
    BY <2>1, <2>2
  <2>4. QED
    BY <2>3
<1> HIDE DEF Head1, Md, Html
<1>5. QED
  BY <1>2, <1>3, <1>4 DEF Range

LEMMA InitIInv == Init => IInv
<1> SUFFICES ASSUME Init PROVE IInv
  OBVIOUS
<1>1. TypeOK
  BY DEF Init, TypeOK
<1>2. CoverageInv /\ RobbedInv /\ ReportInv /\ WrittenInv /\ ServerInv
  BY DEF Init, CoverageInv, RobbedInv, ReportInv, WrittenInv, ServerInv,
         PastPlanes, Ruled, Reported, Written
<1>3. Promises
  BY DEF Init, Promises, GreenIsEarned, InterruptIsConfessed, ArtefactsAreWhole,
         ServedIsThisScan, NoExit
<1>4. QED
  BY <1>1, <1>2, <1>3 DEF IInv, StageInv

(***************************************************************************)
(* The command ends.                                                       *)
(***************************************************************************)

(* With an error: exit 1 or 4 promises nothing. *)
LEMMA FailingExit ==
  ASSUME IInv, Alive, Infra \/ Failure,
         UNCHANGED <<coverage, awsNil, robbed, evaluated, fs, report, files, server, routes>>
  PROVE  IInv'
<1> USE DEF IInv, StageInv, Infra, Failure, Exit, Alive, NoExit
<1>1. TypeOK'
  BY DEF TypeOK
<1>2. CoverageInv' /\ RobbedInv' /\ ReportInv' /\ WrittenInv' /\ ServerInv'
  BY DEF CoverageInv, RobbedInv, ReportInv, WrittenInv, ServerInv,
         PastPlanes, Ruled, Reported, Written
<1>3. Targets' = Targets
  BY DEF Targets
<1>4. Promises'
  BY <1>3 DEF Promises, GreenIsEarned, InterruptIsConfessed, ArtefactsAreWhole,
              ServedIsThisScan, Fresh
<1>5. QED
  BY <1>1, <1>2, <1>4

(* With the report's code, after the last artefact. *)
LEMMA SuccessfulExit ==
  ASSUME IInv, Alive, stage \in Written, Success,
         server' = server \/ (stage = "waiting" /\ server' = "closed"),
         UNCHANGED <<coverage, awsNil, robbed, evaluated, fs, report, files, routes>>
  PROVE  IInv'
<1> USE DEF IInv, StageInv, Success, Exit, Alive, NoExit
<1>1. TypeOK'
  BY DEF TypeOK
<1>2. CoverageInv' /\ RobbedInv' /\ ReportInv' /\ WrittenInv' /\ ServerInv'
  BY DEF CoverageInv, RobbedInv, ReportInv, WrittenInv, ServerInv,
         PastPlanes, Ruled, Reported, Written
<1>3. Targets' = Targets
  BY DEF Targets
<1>4. report = Result(fs, coverage, evaluated) /\ exitCode = ExitCode(report) /\ exit' = exitCode
  BY DEF ReportInv, Reported
<1>5. AllFresh /\ AllFresh'
  BY <1>3 DEF WrittenInv, AllFresh, Fresh
<1>6. ArtefactsAreWhole'
  BY <1>5 DEF ArtefactsAreWhole, AllFresh
<1>7. InterruptIsConfessed'
  <2>1. robbed => ~evaluated
    BY DEF RobbedInv, Ruled, Reported
  <2>2. robbed => report = "INCOMPLETE"
    BY <1>4, <2>1, ResultFacts DEF TypeOK
  <2>3. QED
    BY <1>4, <2>2, CodeFacts DEF InterruptIsConfessed
<1>8. GreenIsEarned'
  <2> SUFFICES ASSUME exit' = 0 PROVE GreenIsEarned'
    BY DEF GreenIsEarned
  <2>1. report = "CLEAN"
    <3>1. report \in {"INCOMPLETE", "BLOCKED", "PASSED_WITH_WARNINGS", "CLEAN"}
      BY <1>4, ResultFacts DEF TypeOK
    <3>2. ExitCode(report) = 0
      BY <1>4
    <3>3. QED
      BY <3>1, <3>2, CodeFacts
  <2>2. /\ \A p \in Planes : coverage[p] # "partial"
        /\ evaluated /\ ~Blockers(fs) /\ ~Warnings(fs) /\ ~OperatorDecisions(fs)
    BY <1>4, <2>1, ResultFacts DEF TypeOK
  <2>3. ~robbed
    BY <2>2 DEF RobbedInv, Ruled, Reported
  <2>4. \A p \in Planes : opts[p] => coverage[p] = "complete"
    BY <2>2 DEF TypeOK, CoverageInv, PastPlanes, Ruled, Reported, Planes
  <2>5. /\ Blockers(fs)' = Blockers(fs) /\ Warnings(fs)' = Warnings(fs)
        /\ OperatorDecisions(fs)' = OperatorDecisions(fs)
    BY DEF Blockers, Warnings, OperatorDecisions, Some
  <2>6. QED
    BY <1>5, <2>2, <2>3, <2>4, <2>5 DEF GreenIsEarned, AllFresh
<1>9. ServedIsThisScan'
  BY <1>3 DEF Promises, ServedIsThisScan, ServerInv, Fresh
<1>10. QED
  BY <1>1, <1>2, <1>6, <1>7, <1>8, <1>9 DEF Promises
-----------------------------------------------------------------------------
(***************************************************************************)
(* The command goes on.                                                    *)
(***************************************************************************)

(* As long as it runs, the promises follow from what the stage relies on. *)
LEMMA PromisesWhileAlive ==
  ASSUME StageInv, Alive, stage # "exited"
  PROVE  Promises
<1> USE DEF StageInv, Alive, NoExit
<1>1. GreenIsEarned /\ ArtefactsAreWhole
  BY DEF GreenIsEarned, ArtefactsAreWhole
<1>2. InterruptIsConfessed
  <2> SUFFICES ASSUME robbed, report # NoReport PROVE report = "INCOMPLETE"
    BY DEF InterruptIsConfessed
  <2>1. stage \in Reported /\ report = Result(fs, coverage, evaluated)
    BY DEF ReportInv
  <2>2. ~evaluated
    BY <2>1 DEF RobbedInv, Ruled
  <2>3. QED
    BY <2>1, <2>2, ResultFacts DEF TypeOK
<1>3. ServedIsThisScan
  <2> SUFFICES ASSUME server # "none" PROVE ServedIsThisScan
    BY DEF ServedIsThisScan
  <2>1. AllFresh /\ opts.serve
    BY DEF ServerInv, WrittenInv, Written
  <2>2. "report.html" \in Range(Targets) /\ "findings.json" \in Range(Targets)
    BY <2>1, TargetFacts
  <2>3. ASSUME NEW f \in routes PROVE Fresh(f) \/ (f = "report.md" /\ f \notin Range(Targets))
    BY <2>1, <2>2, <2>3 DEF ServerInv, AllFresh, Artefacts
  <2>4. QED
    BY <2>3 DEF ServedIsThisScan, ServerInv
<1>4. QED
  BY <1>1, <1>2, <1>3 DEF Promises

(* Steps before the report, which touch neither report, files nor server. *)
LEMMA EarlyStep ==
  ASSUME IInv, Alive, UNCHANGED <<opts, exit, outcome, output>>,
         stage \notin {"exited"} \cup Reported, stage' \notin {"exited"} \cup Reported,
         TypeOK', CoverageInv', RobbedInv'
  PROVE  IInv'
<1>1. ReportInv' /\ WrittenInv' /\ ServerInv'
  BY DEF IInv, StageInv, ReportInv, WrittenInv, ServerInv, Reported, Written, outcome, output
<1>2. Alive' /\ stage' # "exited"
  BY DEF Alive
<1>3. (StageInv /\ Alive /\ stage # "exited" => Promises)'
  BY PromisesWhileAlive, PTL
<1>4. QED
  BY <1>1, <1>2, <1>3 DEF IInv, StageInv

LEMMA SetupStep == IInv /\ Setup => IInv'
<1> SUFFICES ASSUME IInv, Setup PROVE IInv'
  OBVIOUS
<1> USE DEF Setup, At, evidence, outcome, output
<1>1. CASE Infra
  BY <1>1, FailingExit
<1>2. CASE Goto("probing") \/ (~opts.kubernetes /\ Goto("manifests"))
  <2>1. opts \in Options => (opts.aws => opts.kubernetes)
    BY DEF Options
  <2>2. TypeOK' /\ CoverageInv' /\ RobbedInv'
    BY <1>2, <2>1 DEF IInv, StageInv, TypeOK, CoverageInv, RobbedInv, Goto, PastPlanes,
                      Ruled, Reported, Written
  <2>3. QED
    BY <1>2, <2>2, EarlyStep DEF Goto, Reported, Written
<1>3. QED
  BY <1>1, <1>2

LEMMA VersionStep == IInv /\ (VersionKnown \/ VersionTimesOut) => IInv'
<1> SUFFICES ASSUME IInv, VersionKnown \/ VersionTimesOut PROVE IInv'
  OBVIOUS
<1>1. Alive /\ stage = "probing" /\ UNCHANGED <<evidence, outcome, output>>
  BY DEF VersionKnown, VersionTimesOut, At
<1>2. Failure \/ Goto("kubernetes")
  BY DEF VersionKnown, VersionTimesOut
<1>3. CASE Failure
  BY <1>1, <1>3, FailingExit DEF evidence, outcome, output
<1>4. CASE Goto("kubernetes")
  <2>1. TypeOK' /\ CoverageInv' /\ RobbedInv'
    BY <1>1, <1>4 DEF IInv, StageInv, TypeOK, CoverageInv, RobbedInv, Goto, PastPlanes,
                      Ruled, Reported, Written, evidence, output
  <2>2. QED
    BY <1>1, <1>4, <2>1, EarlyStep DEF Goto, Reported, Written
<1>5. QED
  BY <1>2, <1>3, <1>4

(* Each plane is skipped, begun and ended. *)
LEMMA PlaneStep ==
  ASSUME NEW p \in Planes, NEW partial \in BOOLEAN
  PROVE  IInv /\ (SkipPlane(p) \/ BeginPlane(p) \/ EndPlane(p, partial)) => IInv'
<1> SUFFICES ASSUME IInv, SkipPlane(p) \/ BeginPlane(p) \/ EndPlane(p, partial) PROVE IInv'
  OBVIOUS
<1> USE DEF At, Goto, evidence, run, output
<1>1. /\ Alive /\ stage = p /\ UNCHANGED <<opts, exit, outcome, output>>
      /\ stage' \in {p, After(p)}
  BY DEF SkipPlane, BeginPlane, EndPlane
<1>2. /\ p = "kubernetes" => After(p) = "aws"
      /\ p = "aws" => After(p) = "manifests"
      /\ p = "manifests" => After(p) = "rules"
  BY DEF After
<1>3. p \in {"kubernetes", "aws", "manifests"}
  BY DEF Planes
<1>4. TypeOK'
  BY <1>1, <1>2, <1>3 DEF IInv, StageInv, TypeOK, SkipPlane, BeginPlane, EndPlane, PastPlanes, Planes
<1>5. /\ \A q \in Planes \ {p} : coverage'[q] = coverage[q]
      /\ coverage'[p] = coverage[p] \/ coverage'[p] # "skipped"
      /\ stage' = After(p) => ~opts[p] \/ coverage'[p] # "skipped"
  BY <1>1, <1>2, <1>3 DEF IInv, StageInv, TypeOK, SkipPlane, BeginPlane, EndPlane
<1>6. CoverageInv'
  BY <1>1, <1>2, <1>3, <1>5 DEF IInv, StageInv, CoverageInv, PastPlanes, Ruled, Reported, Written, Planes
<1>7. stage' \notin Ruled \cup {"exited"} /\ stage \notin {"exited"} \cup Reported
  BY <1>1, <1>2, <1>3 DEF Ruled, Reported, Written
<1>8. QED
  BY <1>1, <1>4, <1>6, <1>7, EarlyStep DEF RobbedInv, Ruled

LEMMA AwsUnavailableStep == IInv /\ AwsUnavailable => IInv'
<1> SUFFICES ASSUME IInv, AwsUnavailable PROVE IInv'
  OBVIOUS
<1> USE DEF AwsUnavailable, At, Goto
<1>1. TypeOK'
  BY DEF IInv, StageInv, TypeOK, PastPlanes, Planes, output
<1>2. CoverageInv' /\ RobbedInv'
  BY DEF IInv, StageInv, TypeOK, CoverageInv, RobbedInv, PastPlanes, Ruled, Reported, Written, Planes
<1>3. QED
  BY <1>1, <1>2, EarlyStep DEF Reported, Written

LEMMA RunRulesStep == IInv /\ RunRules => IInv'
<1> SUFFICES ASSUME IInv, RunRules PROVE IInv'
  OBVIOUS
<1> USE DEF RunRules, At, Goto
<1>1. TypeOK'
  BY DEF IInv, StageInv, TypeOK, PastPlanes, Ruled, output
<1>2. CoverageInv' /\ RobbedInv'
  BY DEF IInv, StageInv, CoverageInv, RobbedInv, PastPlanes, Ruled
<1>3. QED
  BY <1>1, <1>2, EarlyStep DEF Reported, Written

LEMMA BuildReportStep == IInv /\ BuildReport => IInv'
<1> SUFFICES ASSUME IInv, BuildReport PROVE IInv'
  OBVIOUS
<1> USE DEF BuildReport, At, Goto, Alive
<1>1. TypeOK' /\ CoverageInv' /\ RobbedInv' /\ WrittenInv' /\ ServerInv'
  BY DEF IInv, StageInv, TypeOK, CoverageInv, RobbedInv, WrittenInv, ServerInv,
         PastPlanes, Ruled, Reported, Written, evidence, output
<1>2. ReportInv'
  <2>1. report' = Result(fs, coverage, evaluated) /\ exitCode' = ExitCode(report')
    OBVIOUS
  <2>2. Result(fs, coverage, evaluated)' = Result(fs, coverage, evaluated)
    BY DEF evidence, Result, IsComplete, Blockers, Warnings, OperatorDecisions, Some
  <2>3. ExitCode(report)' = ExitCode(report')
    OBVIOUS
  <2>4. QED
    BY <2>1, <2>2, <2>3 DEF ReportInv, Reported
<1>3. Alive' /\ stage' # "exited"
  OBVIOUS
<1>4. (StageInv /\ Alive /\ stage # "exited" => Promises)'
  BY PromisesWhileAlive, PTL
<1>5. QED
  BY <1>1, <1>2, <1>3, <1>4 DEF IInv, StageInv

(* Steps between the report and the exit, which leave the evidence and the *)
(* report alone.                                                           *)
LEMMA ReportedStep ==
  ASSUME IInv, Alive, UNCHANGED <<opts, exit, evidence, outcome>>,
         stage \in Reported, stage' \in Reported,
         TypeOK', WrittenInv', ServerInv'
  PROVE  IInv'
<1>1. CoverageInv' /\ RobbedInv'
  BY DEF IInv, StageInv, CoverageInv, RobbedInv, PastPlanes, Ruled, evidence
<1>2. ReportInv'
  <2>1. Result(fs, coverage, evaluated)' = Result(fs, coverage, evaluated)
    BY DEF evidence, Result, IsComplete, Blockers, Warnings, OperatorDecisions, Some
  <2>2. ExitCode(report)' = ExitCode(report)
    BY DEF outcome, ExitCode
  <2>3. QED
    BY <2>1, <2>2 DEF IInv, StageInv, ReportInv, outcome
<1>3. Alive' /\ stage' # "exited"
  BY DEF Alive, Reported, Written
<1>4. (StageInv /\ Alive /\ stage # "exited" => Promises)'
  BY PromisesWhileAlive, PTL
<1>5. QED
  BY <1>1, <1>2, <1>3, <1>4 DEF IInv, StageInv

LEMMA RenderStep == IInv /\ (Render \/ MakeDirectory) => IInv'
<1> SUFFICES ASSUME IInv, Render \/ MakeDirectory PROVE IInv'
  OBVIOUS
<1>1. /\ Alive /\ stage \in {"terminal", "mkdir"} /\ UNCHANGED <<evidence, outcome, output>>
      /\ Infra \/ Failure \/ (stage' \in {"mkdir", "writing"} /\ UNCHANGED <<opts, exit>>)
  BY DEF Render, MakeDirectory, At, Goto
<1>2. CASE Infra \/ Failure
  BY <1>1, <1>2, FailingExit DEF evidence, outcome, output
<1>3. CASE stage' \in {"mkdir", "writing"} /\ UNCHANGED <<opts, exit>>
  <2>1. TypeOK' /\ WrittenInv' /\ ServerInv'
    BY <1>1, <1>3 DEF IInv, StageInv, TypeOK, WrittenInv, ServerInv, PastPlanes, Ruled,
                      Reported, Written, evidence, output
  <2>2. QED
    BY <1>1, <1>3, <2>1, ReportedStep DEF Reported
<1>4. QED
  BY <1>1, <1>2, <1>3

(* Truncating and writing concern one target and keep the command where it *)
(* is.                                                                     *)
LEMMA ArtefactStep == IInv /\ (Truncate \/ Write) => IInv'
<1> SUFFICES ASSUME IInv, Truncate \/ Write PROVE IInv'
  OBVIOUS
<1>1. /\ Alive /\ stage = "writing" /\ UNCHANGED <<evidence, outcome, server, routes>>
      /\ \/ Infra /\ UNCHANGED files
         \/ /\ stage' = "writing" /\ UNCHANGED <<opts, exit>>
            /\ \E content \in {"torn", "new"} : files' = [files EXCEPT ![NextTarget] = content]
  BY DEF Truncate, Write, At, Goto
<1>2. CASE Infra /\ UNCHANGED files
  BY <1>1, <1>2, FailingExit DEF evidence, outcome
<1>3. CASE /\ stage' = "writing" /\ UNCHANGED <<opts, exit>>
           /\ \E content \in {"torn", "new"} : files' = [files EXCEPT ![NextTarget] = content]
  <2>1. TypeOK'
    BY <1>1, <1>3 DEF IInv, StageInv, TypeOK, evidence
  <2>2. WrittenInv' /\ ServerInv'
    BY <1>1, <1>3 DEF IInv, StageInv, WrittenInv, ServerInv, Written
  <2>3. QED
    BY <1>1, <1>3, <2>1, <2>2, ReportedStep DEF Reported
<1>4. QED
  BY <1>1, <1>2, <1>3

(* The loop over the targets is over when none is left unwritten. *)
LEMMA AllWrittenStep == IInv /\ AllWritten => IInv'
<1> SUFFICES ASSUME IInv, AllWritten PROVE IInv'
  OBVIOUS
<1> USE DEF AllWritten, At, Goto, output
<1>1. TypeOK'
  BY DEF IInv, StageInv, TypeOK, PastPlanes, Ruled, Reported, Written, evidence
<1>2. WrittenInv'
  <2>1. Targets' = Targets
    BY DEF Targets
  <2>2. \A f \in Range(Targets) : files[f] = "new"
    BY TargetFacts DEF IInv, StageInv, Unwritten
  <2>3. QED
    BY <2>1, <2>2 DEF WrittenInv, AllFresh, Fresh
<1>3. ServerInv'
  BY DEF IInv, StageInv, ServerInv
<1>4. QED
  BY <1>1, <1>2, <1>3, ReportedStep DEF Reported, Written

LEMMA StartServerStep == IInv /\ StartServer => IInv'
<1> SUFFICES ASSUME IInv, StartServer PROVE IInv'
  OBVIOUS
<1> USE DEF StartServer, At, Goto
<1>1. CASE Failure /\ UNCHANGED <<server, routes>>
  BY <1>1, FailingExit DEF evidence, outcome
<1>2. CASE ~(Failure /\ UNCHANGED <<server, routes>>)
  <2>1. TypeOK'
    BY <1>2 DEF IInv, StageInv, TypeOK, PastPlanes, Ruled, Reported, Written, evidence
  <2>2. Targets' = Targets
    BY <1>2 DEF Targets
  <2>3. WrittenInv'
    BY <1>2, <2>2 DEF IInv, StageInv, WrittenInv, Written, AllFresh, Fresh
  <2>4. ServerInv'
    BY <1>2 DEF ServerInv, Routes, Artefacts
  <2>5. QED
    BY <1>2, <2>1, <2>3, <2>4, ReportedStep DEF Reported, Written
<1>3. QED
  BY <1>1, <1>2

LEMMA RegisterStep == IInv /\ Register => IInv'
<1> SUFFICES ASSUME IInv, Register PROVE IInv'
  OBVIOUS
<1> USE DEF Register, At, Goto, output
<1>1. TypeOK'
  BY DEF IInv, StageInv, TypeOK, PastPlanes, Ruled, Reported, Written, evidence
<1>2. Targets' = Targets
  BY DEF Targets
<1>3. WrittenInv' /\ ServerInv'
  BY <1>2 DEF IInv, StageInv, WrittenInv, ServerInv, Written, AllFresh, Fresh
<1>4. QED
  BY <1>1, <1>3, ReportedStep DEF Reported, Written

LEMMA ExitStep == IInv /\ (Finish \/ WaitFailed \/ ShutDown \/ ShutDownTimesOut) => IInv'
<1> SUFFICES ASSUME IInv, Finish \/ WaitFailed \/ ShutDown \/ ShutDownTimesOut PROVE IInv'
  OBVIOUS
<1>1. CASE WaitFailed \/ ShutDownTimesOut
  BY <1>1, FailingExit DEF WaitFailed, ShutDownTimesOut, At, evidence, outcome, output
<1>2. CASE Finish \/ ShutDown
  BY <1>2, SuccessfulExit DEF Finish, ShutDown, At, Written, evidence, outcome, output
<1>3. QED
  BY <1>1, <1>2

(* What runs beside the command. *)
LEMMA BackgroundStep ==
  IInv /\ (ProbeAnswered \/ ProbeSends \/ Signal \/ ServerFails \/ UNCHANGED vars) => IInv'
<1> SUFFICES ASSUME IInv, ProbeAnswered \/ ProbeSends \/ Signal \/ ServerFails \/ UNCHANGED vars
             PROVE  IInv'
  OBVIOUS
<1>1. /\ UNCHANGED <<stage, opts, exit, coverage, awsNil, robbed, evaluated, fs, exitCode,
                     report, files, routes>>
      /\ server' = server \/ (server # "none" /\ server' # "none")
  BY DEF ProbeAnswered, ProbeSends, Signal, ServerFails, vars, run, ctx, detection, evidence,
         outcome, output
<1>2. TypeOK' /\ CoverageInv' /\ RobbedInv' /\ ServerInv'
  BY <1>1 DEF IInv, StageInv, TypeOK, CoverageInv, RobbedInv, ServerInv
<1>3. Targets' = Targets
  BY <1>1 DEF Targets
<1>4. /\ Result(fs, coverage, evaluated)' = Result(fs, coverage, evaluated)
      /\ ExitCode(report)' = ExitCode(report)
      /\ Blockers(fs)' = Blockers(fs) /\ Warnings(fs)' = Warnings(fs)
      /\ OperatorDecisions(fs)' = OperatorDecisions(fs)
  BY <1>1 DEF Result, ExitCode, IsComplete, Blockers, Warnings, OperatorDecisions, Some
<1>5. ReportInv' /\ WrittenInv'
  BY <1>1, <1>3, <1>4 DEF IInv, StageInv, ReportInv, WrittenInv, AllFresh, Fresh
<1>6. Promises'
  BY <1>1, <1>3, <1>4 DEF IInv, Promises, GreenIsEarned, InterruptIsConfessed,
                          ArtefactsAreWhole, ServedIsThisScan, Fresh
<1>7. QED
  BY <1>2, <1>5, <1>6 DEF IInv, StageInv
-----------------------------------------------------------------------------
(* The inductive invariant holds of every scan. *)
THEOREM Invariance == Spec => []IInv
<1>1. IInv /\ [Next]_vars => IInv'
  BY SetupStep, VersionStep, PlaneStep, AwsUnavailableStep, RunRulesStep, BuildReportStep,
     RenderStep, ArtefactStep, AllWrittenStep, StartServerStep, RegisterStep, ExitStep,
     BackgroundStep DEF Next, Main
<1>2. QED
  BY InitIInv, <1>1, PTL DEF Spec

(* Exit 0 means that everything asked for was collected whole, that every  *)
(* applicable rule was evaluated, that nothing gates and that the          *)
(* artefacts are this scan's (RunE of newScanCmd, exitCodeForError).       *)
THEOREM GreenEarned == Spec => []GreenIsEarned
BY Invariance, PTL DEF IInv, Promises

(* A scan that Ctrl+C robbed of a live plane says INCOMPLETE and does not  *)
(* exit with 0 or 2 (resultAndExitCode).                                   *)
THEOREM InterruptConfessed == Spec => []InterruptIsConfessed
BY Invariance, PTL DEF IInv, Promises

(* Exits 0, 2 and 3 leave every requested artefact whole (writeReportFile).*)
THEOREM ArtefactsWhole == Spec => []ArtefactsAreWhole
BY Invariance, PTL DEF IInv, Promises

(* The server serves this scan's files (reportserver.Start). *)
THEOREM ServedThisScan == Spec => []ServedIsThisScan
BY Invariance, PTL DEF IInv, Promises
-----------------------------------------------------------------------------
(* What ScanEnds, ProbeDoesNotLeak and InterruptEndsWait rest on, fairness *)
(* apart: whom the command and its probe wait for, and that no step leads  *)
(* back.                                                                   *)
Serving == {"announce", "waiting"}

WaitInv ==
  /\ Alive <=> stage # "exited"
  /\ waitCtx \in {"none", "registered", "cancelled"}
  /\ Alive => (waitCtx # "none" <=> stage = "waiting")
  /\ stage \in Serving => server \in {"listening", "failed"}
  /\ stage = "setup" => probe = "idle"
  /\ resultCh # "empty" => probe = "gone"

LEMMA ExitCodes == ASSUME IInv, stage \in Reported PROVE exitCode # NoExit
BY ResultFacts, CodeFacts DEF IInv, StageInv, TypeOK, ReportInv, NoExit

LEMMA EndsWaiting ==
  ASSUME WaitInv, Alive, NEW STATE code, code # NoExit, Exit(code), UNCHANGED <<waitCtx, detection>>
  PROVE  WaitInv'
BY DEF WaitInv, Exit, Alive, NoExit, detection, Serving

LEMMA WaitStep ==
  ASSUME IInv, WaitInv, [Next]_vars
  PROVE  WaitInv'
<1> USE DEF At, Goto, Infra, Failure, Success
<1>1. 1 # NoExit /\ 4 # NoExit
  BY DEF NoExit
<1>2. CASE Setup
  <2>1. CASE Infra /\ UNCHANGED probe
    BY <1>1, <1>2, <2>1, EndsWaiting DEF Setup, ctx, detection
  <2>2. CASE stage' \in {"probing", "manifests"} /\ UNCHANGED exit
    BY <1>2, <2>2 DEF Setup, WaitInv, Alive, ctx, output, Serving
  <2>3. QED
    BY <1>2, <2>1, <2>2 DEF Setup
<1>3. CASE ProbeAnswered \/ ProbeSends
  BY <1>3 DEF ProbeAnswered, ProbeSends, Answered, WaitInv, Alive, run, ctx, output
<1>4. CASE VersionKnown \/ VersionTimesOut
  <2>1. /\ Alive /\ stage = "probing" /\ UNCHANGED <<waitCtx, probe, server>>
        /\ resultCh' \in {resultCh, "empty"}
        /\ \/ stage' = "kubernetes" /\ exit' = exit
           \/ stage' = "exited" /\ exit' = 1
    BY <1>4 DEF VersionKnown, VersionTimesOut, Exit, ctx, detection, output
  <2>2. QED
    BY <2>1 DEF WaitInv, Alive, NoExit, Serving
<1>5. CASE \/ \E p \in Planes : SkipPlane(p) \/ \E partial \in BOOLEAN : EndPlane(p, partial)
           \/ AwsUnavailable \/ RunRules \/ BuildReport
  <2>1. /\ Alive /\ stage \notin Serving \cup {"setup", "exited"}
        /\ stage' \notin Serving \cup {"setup", "exited"}
        /\ UNCHANGED <<exit, waitCtx, detection, server>>
    BY <1>5 DEF SkipPlane, EndPlane, AwsUnavailable, RunRules, BuildReport, Planes, After, Serving,
       ctx, output
  <2>2. QED
    BY <2>1 DEF WaitInv, Alive, Serving, detection
<1>6. CASE \E p \in Planes : BeginPlane(p)
  BY <1>6 DEF BeginPlane, WaitInv, Alive, run, ctx, detection, output
<1>7. CASE Render \/ MakeDirectory \/ Truncate \/ Write \/ AllWritten
  <2>1. /\ Alive /\ stage \in {"terminal", "mkdir", "writing"}
        /\ UNCHANGED <<waitCtx, detection, server>>
        /\ \/ stage' \in {"mkdir", "writing", "written"} /\ UNCHANGED exit
           \/ Infra \/ Failure
    BY <1>7 DEF Render, MakeDirectory, Truncate, Write, AllWritten, ctx, output
  <2>2. CASE Infra \/ Failure
    BY <1>1, <2>1, <2>2, EndsWaiting
  <2>3. CASE stage' \in {"mkdir", "writing", "written"} /\ UNCHANGED exit
    BY <2>1, <2>3 DEF WaitInv, Alive, Serving, detection
  <2>4. QED
    BY <2>1, <2>2, <2>3
<1>8. CASE Finish \/ WaitFailed \/ ShutDown \/ ShutDownTimesOut
  <2>1. stage \in Reported => exitCode # NoExit
    BY ExitCodes
  <2>2. /\ Alive /\ stage \in Reported /\ UNCHANGED <<waitCtx, detection>>
        /\ Failure \/ Success
    BY <1>8 DEF Finish, WaitFailed, ShutDown, ShutDownTimesOut, Reported, Written, ctx
  <2>3. CASE Failure
    BY <1>1, <2>2, <2>3, EndsWaiting
  <2>4. CASE Success
    BY <2>1, <2>2, <2>4, EndsWaiting
  <2>5. QED
    BY <2>2, <2>3, <2>4
<1>9. CASE StartServer \/ Register
  <2>1. CASE StartServer /\ Failure
    <3>1. Alive /\ UNCHANGED <<waitCtx, detection>>
      BY <2>1 DEF StartServer, ctx
    <3>2. QED
      BY <1>1, <2>1, <3>1, EndsWaiting
  <2>2. CASE StartServer /\ stage' = "announce"
    BY <2>2 DEF StartServer, WaitInv, Alive, ctx, detection, Serving, Exit
  <2>3. CASE Register
    BY <2>3 DEF Register, WaitInv, Alive, detection, output, Serving
  <2>4. QED
    BY <1>9, <2>1, <2>2, <2>3 DEF StartServer
<1>10. CASE ServerFails \/ Signal \/ UNCHANGED vars
  BY <1>10 DEF ServerFails, Signal, WaitInv, Alive, Serving, vars, run, ctx, detection, output
<1>11. QED
  BY <1>2, <1>3, <1>4, <1>5, <1>6, <1>7, <1>8, <1>9, <1>10 DEF Next, Main

(* The command waits for nobody but those it serves: every stage has a     *)
(* step of its own or a deadline, and only Wait, with the server up and    *)
(* the context of Wait live, goes on for ever.  A late answer of the probe *)
(* always finds room in the channel, and a signal after the registration   *)
(* finds the command in Wait.                                              *)
WaitsOnlyToServe ==
  /\ Alive => \/ stage \notin {"waiting", "exited"}
              \/ server = "failed" \/ waitCtx = "cancelled"
              \/ opts.serve /\ server = "listening" /\ waitCtx = "registered"
  /\ Answered => resultCh = "empty"
  /\ Alive /\ waitCtx = "cancelled" => stage = "waiting"

THEOREM NobodyWaits == Spec => []WaitsOnlyToServe
<1>1. Init => WaitInv
  BY DEF Init, WaitInv, Alive, Serving
<1>2. IInv /\ WaitInv /\ [Next]_vars => WaitInv'
  BY WaitStep
<1>3. IInv /\ WaitInv => WaitsOnlyToServe
  BY DEF WaitInv, WaitsOnlyToServe, Serving, Answered, IInv, StageInv, ServerInv
<1>4. QED
  BY <1>1, <1>2, <1>3, Invariance, PTL DEF Spec

(* The way of the command. *)
Place(s) ==
  CASE s = "setup" -> 0 [] s = "probing" -> 1 [] s = "kubernetes" -> 2 [] s = "aws" -> 3
    [] s = "manifests" -> 4 [] s = "rules" -> 5 [] s = "report" -> 6 [] s = "terminal" -> 7
    [] s = "mkdir" -> 8 [] s = "writing" -> 9 [] s = "written" -> 10 [] s = "announce" -> 11
    [] s = "waiting" -> 12 [] s = "exited" -> 13

(* On the command's line a step leads to a later stage, begins a plane, or *)
(* takes an artefact from what was there over a torn file to a new one.    *)
Onward ==
  \/ Place(stage) < Place(stage')
  \/ begun = "no" /\ begun' # "no" /\ UNCHANGED <<stage, files>>
  \/ /\ UNCHANGED <<stage, begun>>
     /\ \E f \in Artefacts :
          \/ files[f] \in {"absent", "old"} /\ files' = [files EXCEPT ![f] = "torn"]
          \/ files[f] = "torn" /\ files' = [files EXCEPT ![f] = "new"]

(* Beside it, the probe, the server and the terminal have few steps.       *)
Aside ==
  /\ UNCHANGED <<stage, begun, files>>
  /\ \/ probe = "asking" /\ probe' \in {"older", "newer", "error"}
     \/ probe \in {"older", "newer", "error"} /\ probe' = "gone"
     \/ server = "listening" /\ server' = "failed"
     \/ signals < MaxSignals /\ signals' = signals + 1

LEMMA PlacesAre ==
  /\ Place("setup") = 0 /\ Place("probing") = 1 /\ Place("kubernetes") = 2 /\ Place("aws") = 3
  /\ Place("manifests") = 4 /\ Place("rules") = 5 /\ Place("report") = 6 /\ Place("terminal") = 7
  /\ Place("mkdir") = 8 /\ Place("writing") = 9 /\ Place("written") = 10 /\ Place("announce") = 11
  /\ Place("waiting") = 12 /\ Place("exited") = 13
BY DEF Place

(* The loop over the targets always has the first that is not written.     *)
LEMMA NextTargetIs ==
  ASSUME TypeOK, Unwritten # {}
  PROVE  NextTarget \in Artefacts /\ files[NextTarget] # "new"
<1> DEFINE U == Unwritten
           Md == IF opts.output \in {"md", "all"} THEN <<"report.md">> ELSE <<>>
           Html == IF opts.output \in {"html", "all"} \/ opts.serve THEN <<"report.html">> ELSE <<>>
<1>1. DOMAIN Targets \subseteq {1, 2, 3}
  <2>1. Targets = <<"findings.json">> \o Md \o Html
    BY DEF Targets
  <2>2. Md \in {<<>>, <<"report.md">>} /\ Html \in {<<>>, <<"report.html">>}
    OBVIOUS
  <2> HIDE DEF Md, Html
  <2>3. QED
    BY <2>1, <2>2
<1>2. U # {} /\ U \subseteq {1, 2, 3} /\ U \subseteq DOMAIN Targets /\ \A i \in U : files[Targets[i]] # "new"
  BY <1>1 DEF Unwritten
<1> HIDE DEF U
<1>3. \E m \in U : \A i \in U : m <= i
  <2>1. CASE 1 \in U
    BY <1>2, <2>1
  <2>2. CASE 1 \notin U /\ 2 \in U
    BY <1>2, <2>2
  <2>3. CASE 1 \notin U /\ 2 \notin U
    <3>1. 3 \in U /\ \A i \in U : i = 3
      BY <1>2, <2>3
    <3>2. QED
      BY <3>1
  <2>4. QED
    BY <2>1, <2>2, <2>3
<1>4. Min(U) \in U
  BY <1>3 DEF Min
<1>5. NextTarget = Targets[Min(U)]
  BY DEF NextTarget, U
<1>6. QED
  BY <1>2, <1>4, <1>5, TargetFacts

(* Every step of a scan leads on, so that there are finitely many.         *)
THEOREM OnlyOnward == Spec => [][Onward \/ Aside]_vars
<1>1. ASSUME NEW s \in {"setup", "probing", "kubernetes", "aws", "manifests", "terminal", "mkdir",
                        "writing", "written", "announce", "waiting"},
             stage = s, stage' = "exited"
      PROVE  Onward
  BY <1>1, PlacesAre DEF Onward
<1>2. ASSUME IInv, Next PROVE Onward \/ Aside
  <2> USE DEF At, Goto, Infra, Failure, Success, Exit
  <2>1. CASE Setup \/ VersionKnown \/ VersionTimesOut
    <3>1. \/ stage = "setup" /\ stage' \in {"probing", "manifests", "exited"}
          \/ stage = "probing" /\ stage' \in {"kubernetes", "exited"}
      BY <2>1 DEF Setup, VersionKnown, VersionTimesOut
    <3>2. QED
      BY <3>1, PlacesAre DEF Onward
  <2>2. CASE \E p \in Planes : SkipPlane(p) \/ \E partial \in BOOLEAN : EndPlane(p, partial)
    <3>1. PICK p \in Planes : stage = p /\ stage' = After(p)
      BY <2>2 DEF SkipPlane, EndPlane
    <3>2. QED
      BY <3>1, PlacesAre DEF Onward, Planes, After
  <2>3. CASE \E p \in Planes : BeginPlane(p)
    BY <2>3 DEF BeginPlane, Onward, run, output
  <2>4. CASE \/ AwsUnavailable \/ RunRules \/ BuildReport \/ Render \/ MakeDirectory \/ AllWritten
             \/ StartServer \/ Register
    <3>1. \/ stage = "aws" /\ stage' = "manifests"
          \/ stage = "rules" /\ stage' = "report"
          \/ stage = "report" /\ stage' = "terminal"
          \/ stage = "terminal" /\ stage' \in {"mkdir", "exited"}
          \/ stage = "mkdir" /\ stage' \in {"writing", "exited"}
          \/ stage = "writing" /\ stage' = "written"
          \/ stage = "written" /\ stage' \in {"announce", "exited"}
          \/ stage = "announce" /\ stage' = "waiting"
      BY <2>4 DEF AwsUnavailable, RunRules, BuildReport, Render, MakeDirectory, AllWritten,
         StartServer, Register
    <3>2. QED
      BY <3>1, PlacesAre DEF Onward
  <2>5. CASE Truncate \/ Write
    <3>1. Unwritten # {} /\ stage = "writing"
      BY <2>5 DEF Truncate, Write
    <3>2. TypeOK
      BY <1>2 DEF IInv, StageInv
    <3>3. NextTarget \in Artefacts /\ files[NextTarget] # "new"
      BY <3>1, <3>2, NextTargetIs
    <3>4. files[NextTarget] \in {"absent", "old", "torn", "new"}
      BY <3>2, <3>3 DEF TypeOK
    <3>5. CASE stage' = "exited"
      BY <1>1, <3>1, <3>5
    <3>6. CASE stage' = stage /\ Truncate
      BY <3>3, <3>4, <3>6 DEF Truncate, IsTorn, Onward, evidence
    <3>7. CASE stage' = stage /\ Write
      BY <3>3, <3>4, <3>7 DEF Write, IsTorn, Onward, evidence
    <3>8. QED
      BY <2>5, <3>1, <3>5, <3>6, <3>7 DEF Truncate, Write
  <2>6. CASE Finish \/ WaitFailed \/ ShutDown \/ ShutDownTimesOut
    BY <1>1, <2>6 DEF Finish, WaitFailed, ShutDown, ShutDownTimesOut
  <2>7. CASE ProbeAnswered \/ ProbeSends \/ ServerFails \/ Signal
    BY <2>7 DEF ProbeAnswered, ProbeSends, ServerFails, Signal, Answered, Aside, run, evidence,
       output
  <2>8. QED
    BY <1>2, <2>1, <2>2, <2>3, <2>4, <2>5, <2>6, <2>7 DEF Next, Main
<1>3. IInv /\ [Next]_vars => [Onward \/ Aside]_vars
  BY <1>2
<1>4. QED
  BY <1>3, Invariance, PTL DEF Spec
=============================================================================
