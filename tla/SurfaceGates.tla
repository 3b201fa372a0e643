---------------------------- MODULE SurfaceGates ----------------------------
(***************************************************************************)
(* The decision every surface of the campaign repeats, tool by tool: the   *)
(* step that reads the two time-to-threshold comparisons of a design, the  *)
(* gate that holds the step against the selected profile, and the          *)
(* acceptance of the gate.  The tools of src/src/tools copy this logic and *)
(* differ in the design, the threshold and what must be accepted before.   *)
(***************************************************************************)

EXTENDS Naturals

\* A comparison file: absent, comparison_ready false, or the winner.
Comparisons == {"none", "unready", "baseline", "hybrid"}

\* A report that is there and parses; an absent one or a torn one has only a
\* status, which no rule asks for.
Present(report) == report.status \notin {"missing", "torn"}

\* The first of a sequence of names that is in S, "" if none is.
FirstIn(names, S) ==
  LET at == {i \in DOMAIN names : names[i] \in S}
  IN  IF at = {} THEN "" ELSE names[CHOOSE i \in at : \A j \in at : i <= j]

\* A surface's measurements: the default gate's comparison, the candidate
\* threshold's comparison and the threshold value that one was made at.
Surface(default, candidate, value) ==
  [default |-> default, candidate |-> candidate, value |-> value]

Blocked(why, design) == [status |-> why, design |-> design, value |-> 0]

SurfaceStep(design, s) ==
  [status |-> CASE s.default = "hybrid" -> "ready_to_accept_default_gate"
                [] s.default # "hybrid" /\ s.candidate = "hybrid" -> "decide_candidate_only"
                [] s.default \notin {"hybrid", "none"} /\ s.candidate # "hybrid" -> "default_gate_unresolved"
                [] s.default = "none" /\ s.candidate # "hybrid" -> "run_trio",
   design |-> design,
   value |-> s.value]

\* A profile of a surface gate.
Candidate(design, value) == [mode |-> "candidate_only_threshold", design |-> design, value |-> value]
Hold(design) == [mode |-> "default_gate_hold", design |-> design, value |-> 0]

Mismatch(p, step) == step.design # "" /\ p.design # "" /\ step.design # p.design

HoldStatus(step) ==
  IF step.status = "ready_to_accept_default_gate" THEN "default_gate_ready"
  ELSE IF step.status \in {"decide_candidate_only", "default_gate_unresolved"} THEN "default_gate_hold"
  ELSE "default_gate_blocked"

\* Mutation: a candidate win counts whatever threshold it was measured at.
CandidateStatusAnyThreshold(p, step) ==
  IF step.status = "decide_candidate_only" THEN "candidate_only_ready" ELSE "candidate_only_blocked"

CandidateStatus(p, step) ==
  IF step.status = "decide_candidate_only" /\ step.value = p.value
  THEN "candidate_only_ready" ELSE "candidate_only_blocked"

PolicyStatus(p, step) ==
  IF Mismatch(p, step) THEN "blocked_selected_design_mismatch"
  ELSE IF p.mode = "default_gate_hold" THEN HoldStatus(step)
  ELSE CandidateStatus(p, step)

ReadyStatuses == {"candidate_only_ready", "default_gate_ready"}

\* An acceptance gate: upstream is whether what must come first is accepted,
\* accept what the profile asks, gate the status of the surface's gate.
AcceptanceStatus(upstream, accept, gate, ready) ==
  CASE ~upstream -> "blocked_upstream"
    [] upstream /\ ~accept -> "hold"
    [] upstream /\ accept /\ gate \notin ready -> "blocked_not_ready"
    [] upstream /\ accept /\ gate \in ready -> "accepted"

\* Mutation: the gate names the profile's mode instead of the profile.
PolicyReportOfMode(name, p, step) ==
  [status |-> PolicyStatus(p, step), profile |-> p.mode, design |-> step.design]

\* The files of a surface gate and of an acceptance gate.  The accepted design
\* is that of the gate, and absent while nothing is accepted.
PolicyReport(name, p, step) ==
  [status |-> PolicyStatus(p, step), profile |-> name,
   design |-> IF step.design # "" THEN step.design ELSE p.design]

AcceptanceReport(name, status, gate) ==
  [status |-> status, profile |-> name,
   design |-> IF status = "accepted" THEN gate.design ELSE ""]

\* The profiles of a chain side by side, in the order of their files, each with
\* its status: the first one that is ready or holds is recommended.
Matrix(current, status, profiles, ready, holds) ==
  LET open == {p \in DOMAIN status : status[p] \in ready \cup holds}
      first == FirstIn(profiles, open)
  IN  [status |-> IF open = {} THEN "repair_profiles"
                  ELSE IF current = first /\ status[current] \in ready THEN "accept_current"
                  ELSE "choose_named",
       recommended |-> first]

\* What an accepted surface rests on.
Wins(s, value) == s.default = "hybrid" \/ (s.candidate = "hybrid" /\ s.value = value)
=============================================================================
