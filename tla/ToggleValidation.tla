--------------------------- MODULE ToggleValidation ---------------------------
(***************************************************************************)
(* The gpu_toggle_validation runners of OpenPiton, XiangShan, the XuanTie  *)
(* cores and the VeeR and XuanTie families: the toggle baseline is run for *)
(* each target in turn, in its build directory, and what is found there    *)
(* goes into one report.  A runner may be killed and started anew in the   *)
(* same work directory, perhaps with another test.  A summary is told by   *)
(* the session and the test it is of.                                      *)
(***************************************************************************)
EXTENDS Integers

CONSTANTS
  Runner,       \* one of the runners below
  Named,        \* --test or --design, {} for the runner's own
  Tests,        \* tests a family runner is asked for; one for the other runners
  Returns       \* return codes of a baseline that fails, negative for a signal

VARIABLES
  pc,
  session,      \* number of the invocation
  test,         \* --case-name
  todo,         \* targets not yet run
  files,        \* [target |-> summary in its build directory, or "missing" or "torn"]
  results,      \* [target |-> entry of the report]
  overall,      \* overall_rc
  report        \* --json-out: its session and results

vars == <<pc, session, test, todo, files, results, overall, report>>

\* targets: of one design its tests, of a family its designs; case_name: the
\* test can be chosen; told: whether an entry says success or failed.
OpenPiton == [targets |-> {"hello", "fib"}, case_name |-> FALSE, told |-> TRUE]
XiangShan == [targets |-> {"hello", "cmark"}, case_name |-> FALSE, told |-> TRUE]
XuanTieC906 == [targets |-> {"hello", "cmark"}, case_name |-> FALSE, told |-> TRUE]
XuanTieC910 == [targets |-> {"hello", "memcpy"}, case_name |-> FALSE, told |-> TRUE]
XuanTieFamily == [targets |-> {"XuanTie-E902", "XuanTie-E906"}, case_name |-> FALSE, told |-> TRUE]
VeerFamily == [targets |-> {"VeeR-EL2", "VeeR-EH1", "VeeR-EH2"}, case_name |-> TRUE, told |-> FALSE]

Runners == {OpenPiton, XiangShan, XuanTieC906, XuanTieC910, XuanTieFamily, VeerFamily}

Targets == IF Named = {} THEN Runner.targets ELSE Named

Summary == [session : Nat, test : Tests]
Missing == [session |-> -1]
Torn == [session |-> -2]
Files == Summary \cup {Missing, Torn}

Larger(a, b) == IF a > b THEN a ELSE b

NoReport == [session |-> 0, results |-> <<>>]

Init ==
  /\ pc = "idle" /\ session = 0 /\ test \in Tests
  /\ todo = {} /\ files = [t \in Targets |-> Missing]
  /\ results = <<>> /\ overall = 0 /\ report = NoReport

Start ==
  /\ pc \in {"idle", "done"}
  /\ pc' = "run" /\ session' = session + 1
  /\ test' \in (IF Runner.case_name THEN Tests ELSE {test})
  /\ todo' = Targets /\ results' = <<>> /\ overall' = 0
  /\ UNCHANGED <<files, report>>

\* The baseline writes its summary last: see ToggleBaseline.  One that fails
\* leaves the summary that was there, or none if it has rebuilt, or half of one.
BaselineLeaves(t, rc) ==
  IF rc = 0 THEN {[session |-> session, test |-> test]} ELSE {files[t], Missing, Torn}

Entry(rc, file) ==
  [returncode |-> rc,
   summary |-> IF file \in {Missing, Torn} THEN Missing ELSE file,
   parse_error |-> file = Torn,
   execute_status |-> IF ~Runner.told THEN "" ELSE IF rc = 0 THEN "success" ELSE "failed"]

RunBaseline ==
  /\ pc = "run"
  /\ \E t \in todo, rc \in {0} \cup Returns :
       \E file \in BaselineLeaves(t, rc) :
         /\ files' = [files EXCEPT ![t] = file]
         /\ results' = [u \in DOMAIN results \cup {t} |-> IF u = t THEN Entry(rc, file) ELSE results[u]]
         /\ overall' = Larger(overall, rc)
         /\ todo' = todo \ {t}
  /\ UNCHANGED <<pc, session, test, report>>

Finish ==
  /\ pc = "run" /\ todo = {}
  /\ report' = [session |-> session, results |-> results]
  /\ pc' = "done"
  /\ UNCHANGED <<session, test, todo, files, results, overall>>

\* The report of an earlier session stays, and no exit status is given.
Kill ==
  /\ pc = "run"
  /\ pc' = "idle"
  /\ \/ UNCHANGED files
     \/ \E t \in Targets, file \in {Missing, Torn} : files' = [files EXCEPT ![t] = file]
  /\ UNCHANGED <<session, test, todo, results, overall, report>>

Next == Start \/ RunBaseline \/ Finish \/ Kill

Spec == Init /\ [][Next]_vars
-----------------------------------------------------------------------------
ValidationAssumption == Runner \in Runners /\ Returns \subseteq Int \ {0}

\* A report has an entry for every target, and an entry whose baseline returned
\* 0 has the summary of the session and of the test of the report, whatever
\* earlier sessions left in the build directories.
SuccessIsReportedFresh ==
  pc = "done" =>
    /\ report.session = session /\ DOMAIN report.results = Targets
    /\ \A t \in Targets : report.results[t].returncode = 0 =>
         report.results[t].summary = [session |-> session, test |-> test]

\* The runner succeeds only if no baseline failed by itself, and says which did:
\* a baseline that is killed by a signal does not show in the exit status.
ExitTellsFailures ==
  pc = "done" /\ overall = 0 =>
    \A t \in Targets :
      /\ report.results[t].returncode <= 0
      /\ Returns \subseteq Nat => report.results[t].returncode = 0
      /\ Runner.told => (report.results[t].execute_status = "failed" <=> report.results[t].returncode < 0)
=============================================================================
