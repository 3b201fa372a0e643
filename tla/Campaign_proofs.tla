--------------------------- MODULE Campaign_proofs ---------------------------
(***************************************************************************)
(* Proofs about the campaign: the VeeR ladder, for every set of            *)
(* measurements, of those that arrive later, of profiles applied and of    *)
(* tools that may be killed; and the advice for Caliptra, for every state  *)
(* of its probes.                                                          *)
(***************************************************************************)
EXTENDS VeerLadder, CaliptraTactics, TLAPS

\* selection and work are the functions their names say.
Shape ==
  /\ selection = [c \in Chains |-> selection[c]]
  /\ work = [t \in Tools |-> work[t]]
  /\ \A c \in Chains : selection[c] \in ProfilesOf[c] \cup {TornSelection}

SInv == Shape /\ GateTellsSelection

\* A chain's gate is one tool, and names the profile it was computed for.
LEMMA GateIsTool ==
  \A c \in Chains : Gate(c) \in Tools /\ ChainsOf(Gate(c)) = {c}
BY DEF Chains, CheckedIn, Gate, Tools, NeedsOf, ChainsOf

LEMMA GateValues ==
  /\ Chains = {"first", "first_acceptance", "same", "same_acceptance", "final", "final_acceptance"}
  /\ Gate("first") = "first_gate"
  /\ Gate("first_acceptance") = "first_acceptance_gate"
  /\ Gate("same") = "same_gate"
  /\ Gate("same_acceptance") = "same_acceptance_gate"
  /\ Gate("final") = "final_gate"
  /\ Gate("final_acceptance") = "final_acceptance_gate"
BY DEF Chains, CheckedIn, Gate

LEMMA GateNamesProfile ==
  ASSUME NEW c \in Chains, NEW s, NEW e, NEW w
  PROVE  Report(Gate(c), s, e, w).profile = s[c]
<1>1. CASE c = "first"
  BY <1>1, GateValues DEF Report, FirstGate, PolicyReport
<1>2. CASE c = "first_acceptance"
  BY <1>2, GateValues DEF Report, FirstAcceptance, AcceptanceReport
<1>3. CASE c = "same"
  BY <1>3, GateValues DEF Report, SameGate, PolicyReport
<1>4. CASE c = "same_acceptance"
  BY <1>4, GateValues DEF Report, SameAcceptance, AcceptanceReport
<1>5. CASE c = "final"
  BY <1>5, GateValues DEF Report, FinalGate, PolicyReport
<1>6. CASE c = "final_acceptance"
  BY <1>6, GateValues DEF Report, FinalAcceptance, AcceptanceReport
<1> QED
  BY <1>1, <1>2, <1>3, <1>4, <1>5, <1>6, GateValues

-----------------------------------------------------------------------------
(* A gate's file and the selection it was computed for. *)

LEMMA CheckedInIsProfile == \A c \in Chains : CheckedIn[c] \in ProfilesOf[c]
BY DEF Chains, CheckedIn, ProfilesOf

LEMMA SInit == Init => SInv
<1> SUFFICES ASSUME Init PROVE SInv
  OBVIOUS
<1>1. CheckedIn = [c \in Chains |-> CheckedIn[c]]
  BY DEF CheckedIn, Chains
<1>2. Shape
  BY <1>1, CheckedInIsProfile DEF Init, FilesInit, Shape
<1>3. \A c \in Chains : ~Intact(work[Gate(c)])
  BY GateIsTool DEF Init, FilesInit, Intact
<1> QED
  BY <1>2, <1>3 DEF SInv, GateTellsSelection

LEMMA AuditKeepsSelection ==
  ASSUME SInv, NEW t \in Tools, Audit(t)
  PROVE  SInv'
<1>1. Shape'
  BY DEF SInv, Shape, Audit
<1>2. ASSUME NEW c \in Chains, c \notin cut', Intact(work'[Gate(c)])
      PROVE  work'[Gate(c)].profile = selection'[c]
  <2>1. CASE Gate(c) = t
    BY <2>1, GateNamesProfile DEF Audit, SInv, Shape
  <2>2. CASE Gate(c) # t
    <3>1. c \notin ChainsOf(t) /\ Gate(c) \in Tools
      BY <2>2, GateIsTool DEF ChainsOf
    <3>2. work'[Gate(c)] = work[Gate(c)] /\ selection' = selection /\ c \notin cut
      BY <1>2, <2>2, <3>1 DEF Audit, SInv, Shape
    <3> QED
      BY <1>2, <3>2 DEF SInv, GateTellsSelection, Intact
  <2> QED
    BY <2>1, <2>2
<1> QED
  BY <1>1, <1>2 DEF SInv, GateTellsSelection

LEMMA KillKeepsSelection ==
  ASSUME SInv, NEW t \in Tools, AuditKilled(t)
  PROVE  SInv'
<1>1. Shape'
  BY DEF SInv, Shape, AuditKilled
<1>2. ASSUME NEW c \in Chains, c \notin cut', Intact(work'[Gate(c)])
      PROVE  work'[Gate(c)].profile = selection'[c]
  <2>1. Gate(c) # t
    BY <1>2 DEF AuditKilled, SInv, Shape, Intact
  <2> QED
    BY <1>2, <2>1, GateIsTool DEF AuditKilled, SInv, Shape, GateTellsSelection, Intact
<1> QED
  BY <1>1, <1>2 DEF SInv, GateTellsSelection

\* A step of a setter touches its own chain's selection and gate only.
LEMMA SetterKeepsSelection ==
  ASSUME SInv, NEW c \in Chains, SetProfile(c)
  PROVE  SInv'
<1>1. PICK p \in Choices[c] : Apply(c, p) \/ ApplyKilled(c, p)
  BY DEF SetProfile
<1>2. p \in ProfilesOf[c] /\ Gate(c) \in Tools
  BY ChoicesAssumption, GateIsTool
<1>3. Shape'
  <2>1. selection' = Chosen(c, p) \/ selection' = Chosen(c, TornSelection)
    BY <1>1 DEF Apply, ApplyKilled
  <2>2. /\ selection' = [d \in Chains |-> selection'[d]]
        /\ \A d \in Chains : selection'[d] \in ProfilesOf[d] \cup {TornSelection}
    BY <1>2, <2>1 DEF SInv, Shape, Chosen
  <2>3. work' = [t \in Tools |-> work'[t]]
    BY <1>1, <1>2 DEF SInv, Shape, Apply, ApplyKilled
  <2> QED
    BY <2>2, <2>3 DEF Shape
<1>4. ASSUME NEW d \in Chains, d \notin cut', Intact(work'[Gate(d)])
      PROVE  work'[Gate(d)].profile = selection'[d]
  <2>1. CASE d # c
    <3>1. Gate(d) # Gate(c) /\ Gate(d) \in Tools
      BY <2>1, GateIsTool DEF ChainsOf
    <3>2. work'[Gate(d)] = work[Gate(d)] /\ selection'[d] = selection[d] /\ d \notin cut
      BY <1>1, <1>4, <2>1, <3>1 DEF Apply, ApplyKilled, Chosen, SInv, Shape
    <3> QED
      BY <1>4, <3>2 DEF SInv, GateTellsSelection, Intact
  <2>2. CASE d = c /\ Apply(c, p)
    <3>1. selection'[c] = p /\ Chosen(c, p)[c] = p
      BY <2>2 DEF Apply, Chosen, SInv, Shape
    <3>2. work'[Gate(c)] = Report(Gate(c), Chosen(c, p), evidence, work)
      BY <1>2, <2>2 DEF Apply, SInv, Shape
    <3> QED
      BY <2>2, <3>1, <3>2, GateNamesProfile
  <2>3. CASE d = c /\ ApplyKilled(c, p)
    BY <1>4, <2>3 DEF ApplyKilled
  <2> QED
    BY <1>1, <2>1, <2>2, <2>3
<1> QED
  BY <1>3, <1>4 DEF SInv, GateTellsSelection

LEMMA SStep == SInv /\ [Next]_<<vars, won>> => SInv'
<1> SUFFICES ASSUME SInv, [Next]_<<vars, won>> PROVE SInv'
  OBVIOUS
<1>1. CASE RunTool
  BY <1>1, AuditKeepsSelection DEF RunTool, Attended
<1>2. CASE ToolKilled
  BY <1>2, KillKeepsSelection DEF ToolKilled, Attended
<1>3. CASE Measure \/ UNCHANGED <<vars, won>>
  BY <1>3 DEF Measure, vars, SInv, Shape, GateTellsSelection, Intact
<1>4. CASE \E c \in Chains : SetProfile(c)
  BY <1>4, SetterKeepsSelection
<1> QED
  BY <1>1, <1>2, <1>3, <1>4, GateValues
     DEF Next, Step, SetFirstSurface, SetFirstAcceptance, SetSameFamily,
         SetSameAcceptance, SetFinalSameFamily, SetFinalAcceptance

\* Whatever is killed, and in whatever order tools and setters run, a gate
\* whose setter was not cut short names the profile of selection.json.
THEOREM GateTells == Spec => []GateTellsSelection
<1>1. SInv => GateTellsSelection
  BY DEF SInv
<1> QED
  BY <1>1, SInit, SStep, PTL DEF Spec

-----------------------------------------------------------------------------
(* An acceptance and the win it rests on.  Each file of the chain, from the *)
(* step to the acceptance, vouches for the file it was computed from.       *)

\* A step whose comparison won says so for its own design.
StepBacked(d, v, r, W) ==
  (r.status = "ready_to_accept_default_gate" \/ (r.status = "decide_candidate_only" /\ r.value = v))
    => r.design = d /\ d \in W

GateBacked(d, r, W) == r.status \in ReadyStatuses => r.design = d /\ d \in W

AcceptanceBacked(r, W) == r.status = "accepted" => r.design \in W

FilesBacked(w, W) ==
  /\ StepBacked(EH1, 5, w["first_step"], W)
  /\ StepBacked(EH2, 4, w["same_step"], W)
  /\ StepBacked(EL2, 6, w["final_step"], W)
  /\ GateBacked(EH1, w["first_gate"], W)
  /\ GateBacked(EH2, w["same_gate"], W)
  /\ GateBacked(EL2, w["final_gate"], W)
  /\ AcceptanceBacked(w["first_acceptance_gate"], W)
  /\ AcceptanceBacked(w["same_acceptance_gate"], W)
  /\ AcceptanceBacked(w["final_acceptance_gate"], W)

WInv == Shape /\ ShownBy(evidence) \subseteq won /\ FilesBacked(work, won)

LEMMA SurfaceStepBacked ==
  ASSUME NEW d, NEW s, NEW v, NEW W, Wins(s, v) => d \in W
  PROVE  StepBacked(d, v, SurfaceStep(d, s), W)
BY DEF StepBacked, SurfaceStep, Wins

LEMMA LaterStepBacked ==
  ASSUME NEW d, NEW s, NEW v, NEW W, Wins(s, v) => d \in W, NEW axes
  PROVE  StepBacked(d, v, LaterStep(d, s, axes), W)
<1>1. \/ LaterStep(d, s, axes) = Blocked("blocked_previous_not_accepted", "")
      \/ LaterStep(d, s, axes) = Blocked("blocked_veer_next_axes_not_ready", "")
      \/ LaterStep(d, s, axes) = Blocked("blocked_unexpected_veer_same_family_design", axes.next)
      \/ LaterStep(d, s, axes) = SurfaceStep(d, s)
  BY DEF LaterStep
<1>2. StepBacked(d, v, SurfaceStep(d, s), W)
  BY SurfaceStepBacked
<1>4. /\ StepBacked(d, v, Blocked("blocked_previous_not_accepted", ""), W)
      /\ StepBacked(d, v, Blocked("blocked_veer_next_axes_not_ready", ""), W)
      /\ StepBacked(d, v, Blocked("blocked_unexpected_veer_same_family_design", axes.next), W)
  BY DEF StepBacked, Blocked
<1>5. CASE LaterStep(d, s, axes) = Blocked("blocked_previous_not_accepted", "")
  BY <1>5, <1>4
<1>6. CASE LaterStep(d, s, axes) = Blocked("blocked_veer_next_axes_not_ready", "")
  BY <1>6, <1>4
<1>7. CASE LaterStep(d, s, axes) = Blocked("blocked_unexpected_veer_same_family_design", axes.next)
  BY <1>7, <1>4
<1>8. CASE LaterStep(d, s, axes) = SurfaceStep(d, s)
  BY <1>8, <1>2
<1> QED
  BY <1>1, <1>5, <1>6, <1>7, <1>8

LEMMA PolicyBacked ==
  ASSUME NEW d, d # "", NEW v, NEW W, NEW name, NEW step, StepBacked(d, v, step, W),
         NEW p, p = Candidate(d, v) \/ p = Hold(d)
  PROVE  GateBacked(d, PolicyReport(name, p, step), W)
<1> DEFINE status == PolicyStatus(p, step)
<1>1. p.design = d
  <2>1. CASE p = Candidate(d, v)
    BY <2>1 DEF Candidate
  <2>2. CASE p = Hold(d)
    BY <2>2 DEF Hold
  <2> QED
    BY <2>1, <2>2
<1>2. PolicyReport(name, p, step).status = status
  BY DEF PolicyReport
<1>3. ASSUME status \in ReadyStatuses
      PROVE  step.design = d /\ d \in W
  <2>1. ~Mismatch(p, step)
    BY <1>3 DEF PolicyStatus, ReadyStatuses
  <2>2. CASE p = Hold(d)
    <3>1. status = HoldStatus(step)
      BY <2>1, <2>2 DEF PolicyStatus, Hold
    <3> QED
      BY <1>3, <3>1 DEF HoldStatus, ReadyStatuses, StepBacked
  <2>3. CASE p = Candidate(d, v)
    <3>1. status = CandidateStatus(p, step) /\ p.value = v
      BY <2>1, <2>3 DEF PolicyStatus, Candidate
    <3> QED
      BY <1>3, <3>1 DEF CandidateStatus, ReadyStatuses, StepBacked
  <2> QED
    BY <2>2, <2>3
<1>4. step.design = d => PolicyReport(name, p, step).design = d
  BY DEF PolicyReport
<1> QED
  BY <1>2, <1>3, <1>4 DEF GateBacked

LEMMA AcceptanceIsBacked ==
  ASSUME NEW d, NEW W, NEW gate, GateBacked(d, gate, W), NEW name, NEW up, NEW accept
  PROVE  AcceptanceBacked(AcceptanceReport(name, AcceptanceStatus(up, accept, gate.status, ReadyStatuses), gate), W)
<1> DEFINE status == AcceptanceStatus(up, accept, gate.status, ReadyStatuses)
<1>1. status = "accepted" => gate.status \in ReadyStatuses
  BY DEF AcceptanceStatus
<1> QED
  BY <1>1 DEF AcceptanceBacked, AcceptanceReport, GateBacked

LEMMA BackedGrows ==
  ASSUME NEW w, NEW W, NEW X, W \subseteq X, FilesBacked(w, W)
  PROVE  FilesBacked(w, X)
BY DEF FilesBacked, StepBacked, GateBacked, AcceptanceBacked, ReadyStatuses

\* A file of a tool that is not part of the chain vouches for nothing, and so
\* does a file that is missing or torn.
LEMMA SpoiltBacked ==
  ASSUME NEW w, w = [t \in Tools |-> w[t]], NEW W, FilesBacked(w, W), NEW t \in Tools,
         NEW r, r \in {Missing, Torn}
  PROVE  FilesBacked([w EXCEPT ![t] = r], W)
<1>1. r.status \in {"missing", "torn"}
  BY DEF Missing, Torn
<1>2. \A u \in Tools : [w EXCEPT ![t] = r][u] = w[u] \/ [w EXCEPT ![t] = r][u].status \in {"missing", "torn"}
  BY <1>1
<1>3. {"first_step", "same_step", "final_step", "first_gate", "same_gate", "final_gate",
       "first_acceptance_gate", "same_acceptance_gate", "final_acceptance_gate"} \subseteq Tools
  BY DEF Tools, NeedsOf
<1> QED
  BY <1>2, <1>3 DEF FilesBacked, StepBacked, GateBacked, AcceptanceBacked, ReadyStatuses

\* What a tool writes is backed when the files it reads are.
LEMMA ReportBacked ==
  ASSUME NEW w, w = [t \in Tools |-> w[t]], NEW W, FilesBacked(w, W), NEW e, ShownBy(e) \subseteq W,
         NEW s, NEW t \in Tools, \A c \in ChainsOf(t) : s[c] \in ProfilesOf[c]
  PROVE  FilesBacked([w EXCEPT ![t] = Report(t, s, e, w)], W)
<1> DEFINE r == Report(t, s, e, w)
<1> DEFINE v == [w EXCEPT ![t] = r]
<1>0. Tools = {"candidates", "first_step", "same_step", "final_step", "first_gate", "same_gate",
               "final_gate", "first_acceptance_gate", "same_acceptance_gate", "final_acceptance_gate",
               "next_axes", "same_next_axes", "exhaustion_axes"}
  BY DEF Tools, NeedsOf
<1>1. v[t] = r /\ \A u \in Tools \ {t} : v[u] = w[u]
  OBVIOUS
<1>2. ASSUME t = "first_step" PROVE StepBacked(EH1, 5, r, W)
  <2>1. r = FirstStep(e, w["candidates"])
    BY <1>2 DEF Report
  <2>2. Wins(e.surface[EH1], 5) => EH1 \in W
    BY DEF ShownBy, Designs
  <2>3. StepBacked(EH1, 5, SurfaceStep(EH1, e.surface[EH1]), W)
    BY <2>2, SurfaceStepBacked
  <2>4. \/ r = Blocked("blocked_veer_fallback_not_active", Recommended(w["candidates"]))
        \/ r = Blocked("blocked_unexpected_veer_first_design", Recommended(w["candidates"]))
        \/ r = SurfaceStep(EH1, e.surface[EH1])
    BY <2>1 DEF FirstStep
  <2> QED
    BY <2>3, <2>4 DEF StepBacked, Blocked
<1>3. ASSUME t = "same_step" PROVE StepBacked(EH2, 4, r, W)
  <2>1. r = LaterStep(EH2, e.surface[EH2], w["next_axes"])
    BY <1>3 DEF Report, SameStep
  <2>2. Wins(e.surface[EH2], 4) => EH2 \in W
    BY DEF ShownBy, Designs
  <2> QED
    BY <2>1, <2>2, LaterStepBacked
<1>4. ASSUME t = "final_step" PROVE StepBacked(EL2, 6, r, W)
  <2>1. r = LaterStep(EL2, e.surface[EL2], w["same_next_axes"])
    BY <1>4 DEF Report, FinalStep
  <2>2. Wins(e.surface[EL2], 6) => EL2 \in W
    BY DEF ShownBy, Designs
  <2> QED
    BY <2>1, <2>2, LaterStepBacked
<1>5. ASSUME t = "first_gate" PROVE GateBacked(EH1, r, W)
  <2>1. r = PolicyReport(s["first"], Profile[s["first"]], w["first_step"])
    BY <1>5 DEF Report, FirstGate
  <2>2. s["first"] \in {"eh1_candidate", "eh1_hold"}
    BY <1>5, GateValues DEF ChainsOf, ProfilesOf
  <2>3. Profile[s["first"]] = Candidate(EH1, 5) \/ Profile[s["first"]] = Hold(EH1)
    BY <2>2 DEF Profile
  <2>4. EH1 # ""
    BY DEF EH1
  <2>5. StepBacked(EH1, 5, w["first_step"], W)
    BY DEF FilesBacked
  <2>6. GateBacked(EH1, PolicyReport(s["first"], Profile[s["first"]], w["first_step"]), W)
    BY <2>3, <2>4, <2>5, PolicyBacked, Zenon
  <2> QED
    BY <2>1, <2>6
<1>6. ASSUME t = "same_gate" PROVE GateBacked(EH2, r, W)
  <2>1. r = PolicyReport(s["same"], Profile[s["same"]], w["same_step"])
    BY <1>6 DEF Report, SameGate
  <2>2. s["same"] \in {"eh2_candidate", "eh2_hold"}
    BY <1>6, GateValues DEF ChainsOf, ProfilesOf
  <2>3. Profile[s["same"]] = Candidate(EH2, 4) \/ Profile[s["same"]] = Hold(EH2)
    BY <2>2 DEF Profile
  <2>4. EH2 # ""
    BY DEF EH2
  <2>5. StepBacked(EH2, 4, w["same_step"], W)
    BY DEF FilesBacked
  <2>6. GateBacked(EH2, PolicyReport(s["same"], Profile[s["same"]], w["same_step"]), W)
    BY <2>3, <2>4, <2>5, PolicyBacked, Zenon
  <2> QED
    BY <2>1, <2>6
<1>7. ASSUME t = "final_gate" PROVE GateBacked(EL2, r, W)
  <2>1. r = PolicyReport(s["final"], Profile[s["final"]], w["final_step"])
    BY <1>7 DEF Report, FinalGate
  <2>2. s["final"] \in {"el2_candidate", "el2_hold"}
    BY <1>7, GateValues DEF ChainsOf, ProfilesOf
  <2>3. Profile[s["final"]] = Candidate(EL2, 6) \/ Profile[s["final"]] = Hold(EL2)
    BY <2>2 DEF Profile
  <2>4. EL2 # ""
    BY DEF EL2
  <2>5. StepBacked(EL2, 6, w["final_step"], W)
    BY DEF FilesBacked
  <2>6. GateBacked(EL2, PolicyReport(s["final"], Profile[s["final"]], w["final_step"]), W)
    BY <2>3, <2>4, <2>5, PolicyBacked, Zenon
  <2> QED
    BY <2>1, <2>6
<1>8. ASSUME t = "first_acceptance_gate" PROVE AcceptanceBacked(r, W)
  BY <1>8, AcceptanceIsBacked DEF Report, FirstAcceptance, FilesBacked
<1>9. ASSUME t = "same_acceptance_gate" PROVE AcceptanceBacked(r, W)
  BY <1>9, AcceptanceIsBacked DEF Report, SameAcceptance, FilesBacked
<1>10. ASSUME t = "final_acceptance_gate" PROVE AcceptanceBacked(r, W)
  BY <1>10, AcceptanceIsBacked DEF Report, FinalAcceptance, FilesBacked
<1> HIDE DEF r, v
<1>11. /\ StepBacked(EH1, 5, v["first_step"], W)
       /\ StepBacked(EH2, 4, v["same_step"], W)
       /\ StepBacked(EL2, 6, v["final_step"], W)
  BY <1>0, <1>1, <1>2, <1>3, <1>4 DEF FilesBacked
<1>12. /\ GateBacked(EH1, v["first_gate"], W)
       /\ GateBacked(EH2, v["same_gate"], W)
       /\ GateBacked(EL2, v["final_gate"], W)
  BY <1>0, <1>1, <1>5, <1>6, <1>7 DEF FilesBacked
<1>13. /\ AcceptanceBacked(v["first_acceptance_gate"], W)
       /\ AcceptanceBacked(v["same_acceptance_gate"], W)
       /\ AcceptanceBacked(v["final_acceptance_gate"], W)
  BY <1>0, <1>1, <1>8, <1>9, <1>10 DEF FilesBacked
<1>14. FilesBacked(v, W)
  BY <1>11, <1>12, <1>13 DEF FilesBacked
<1> QED
  BY <1>14 DEF r, v

LEMMA WInit == Init => WInv
<1> SUFFICES ASSUME Init PROVE WInv
  OBVIOUS
<1>1. Shape
  BY SInit DEF SInv
<1>2. \A t \in {"first_step", "same_step", "final_step", "first_gate", "same_gate", "final_gate",
              "first_acceptance_gate", "same_acceptance_gate", "final_acceptance_gate"} :
        work[t].status = "missing"
  BY DEF Init, FilesInit, Tools, NeedsOf, Missing
<1> QED
  BY <1>1, <1>2 DEF Init, WInv, FilesBacked, StepBacked, GateBacked, AcceptanceBacked, ReadyStatuses

\* What a step does to the files leaves them backed by the wins known before.
LEMMA WFiles ==
  ASSUME WInv, Step
  PROVE  FilesBacked(work', won)
<1>1. ASSUME NEW t \in Tools, Audit(t) PROVE FilesBacked(work', won)
  <2>1. \A c \in ChainsOf(t) : selection[c] \in ProfilesOf[c]
    BY <1>1 DEF Audit, Readable, Consults, ChainsOf, WInv, Shape
  <2> QED
    BY <1>1, <2>1, ReportBacked DEF Audit, WInv, Shape
<1>2. ASSUME NEW t \in Tools, AuditKilled(t) PROVE FilesBacked(work', won)
  BY <1>2, SpoiltBacked DEF AuditKilled, WInv, Shape
<1>3. ASSUME NEW c \in Chains, NEW p \in Choices[c], Apply(c, p) PROVE FilesBacked(work', won)
  <2>1. p \in ProfilesOf[c] /\ Gate(c) \in Tools /\ ChainsOf(Gate(c)) = {c}
    BY ChoicesAssumption, GateIsTool
  <2>2. Chosen(c, p)[c] = p
    BY DEF Chosen, WInv, Shape
  <2> QED
    BY <1>3, <2>1, <2>2, ReportBacked DEF Apply, WInv, Shape
<1>4. ASSUME NEW c \in Chains, NEW p \in Choices[c], ApplyKilled(c, p) PROVE FilesBacked(work', won)
  BY <1>4, SpoiltBacked, GateIsTool DEF ApplyKilled, WInv, Shape
<1>5. ASSUME Measure PROVE FilesBacked(work', won)
  BY <1>5 DEF Measure, WInv
<1>6. ASSUME NEW c \in Chains, SetProfile(c) PROVE FilesBacked(work', won)
  BY <1>3, <1>4, <1>6 DEF SetProfile
<1> QED
  BY <1>1, <1>2, <1>5, <1>6, GateValues
     DEF Step, RunTool, ToolKilled, Attended, SetFirstSurface, SetFirstAcceptance, SetSameFamily,
         SetSameAcceptance, SetFinalSameFamily, SetFinalAcceptance

LEMMA WStep == SInv /\ WInv /\ [Next]_<<vars, won>> => WInv'
<1> SUFFICES ASSUME SInv, WInv, [Next]_<<vars, won>> PROVE WInv'
  OBVIOUS
<1>1. Shape'
  BY SStep DEF SInv
<1>2. CASE UNCHANGED <<vars, won>>
  BY <1>1, <1>2 DEF WInv, vars
<1>3. CASE Next
  <2>1. won \subseteq won' /\ ShownBy(evidence') \subseteq won'
    BY <1>3 DEF Next
  <2>2. FilesBacked(work', won')
    BY <1>3, <2>1, WFiles, BackedGrows DEF Next
  <2> QED
    BY <1>1, <2>1, <2>2 DEF WInv
<1> QED
  BY <1>2, <1>3

\* No order of tools, setters, kills and new measurements accepts a surface
\* of which no winning comparison was ever measured.
THEOREM AcceptedWins == Spec => []AcceptedWasWon
<1>1. WInv => AcceptedWasWon
  BY GateValues DEF WInv, AcceptedWasWon, FilesBacked, AcceptanceBacked
<1> QED
  BY <1>1, SInit, SStep, WInit, WStep, PTL DEF Spec

-----------------------------------------------------------------------------
(* Type correctness: the designs that reports name come from the candidates, *)
(* through the axes and the steps, to the gates.                              *)

WellNamed(t, r) ==
  /\ t = "candidates" => r.order \in [1..3 -> Designs]
  /\ t \in {"next_axes", "same_next_axes"} => r.next \in Designs \cup {""}
  /\ t \in {"first_step", "same_step", "final_step", "first_gate", "same_gate", "final_gate",
            "first_acceptance_gate", "same_acceptance_gate", "final_acceptance_gate"}
       => r.design \in Designs \cup {""}
  /\ \A c \in Chains : Gate(c) = t => r.profile \in ProfilesOf[c]

TInv ==
  /\ Shape
  /\ evidence \in Evidence \cup Arriving
  /\ cut \subseteq Chains
  /\ \A c \in Chains : selection[c] = TornSelection => c \in cut
  /\ \A t \in Tools : Intact(work[t]) => WellNamed(t, work[t])

LEMMA FirstIsNamed ==
  ASSUME NEW names \in [1..3 -> Designs], NEW S
  PROVE  FirstIn(names, S) \in Designs \cup {""}
<1>. DEFINE at == {i \in DOMAIN names : names[i] \in S}
<1>1. CASE at = {}
  BY <1>1 DEF FirstIn
<1>2. CASE at # {}
  <2>1. PICK i \in at : TRUE
    BY <1>2
  <2>2. at \subseteq 1..3
    OBVIOUS
  <2>3. \E m \in at : \A j \in at : m <= j
    BY <2>1, <2>2
  <2>. QED
    BY <1>2, <2>2, <2>3 DEF FirstIn
<1>. QED
  BY <1>1, <1>2

LEMMA AxesNamed ==
  ASSUME NEW accepted, NEW order \in [1..3 -> Designs], NEW remaining
  PROVE  Axes(accepted, order, remaining).next \in Designs \cup {""}
BY FirstIsNamed DEF Axes

LEMMA LaterStepNamed ==
  ASSUME NEW d \in Designs, NEW s, NEW axes,
         axes.status = "decide_continue_to_remaining_veer_design" => axes.next \in Designs \cup {""}
  PROVE  LaterStep(d, s, axes).design \in Designs \cup {""}
BY DEF LaterStep, Blocked, SurfaceStep

LEMMA PolicyNamed ==
  ASSUME NEW name, NEW p, p.design \in Designs, NEW step, step.design \in Designs \cup {""}
  PROVE  PolicyReport(name, p, step).design \in Designs \cup {""}
BY DEF PolicyReport

LEMMA AcceptanceNamed ==
  ASSUME NEW name, NEW status, NEW gate, gate.design \in Designs \cup {""}
  PROVE  AcceptanceReport(name, status, gate).design \in Designs \cup {""}
BY DEF AcceptanceReport

LEMMA ProfileDesigns ==
  /\ \A p \in ProfilesOf["first"] \cup ProfilesOf["same"] \cup ProfilesOf["final"] :
       Profile[p].design \in Designs
BY DEF ProfilesOf, Profile, Candidate, Hold, Designs

\* What a tool writes is named as long as what it reads is.
LEMMA ReportNamed ==
  ASSUME NEW w, \A u \in Tools : Intact(w[u]) => WellNamed(u, w[u]),
         NEW e \in Evidence \cup Arriving, NEW s, NEW t \in Tools,
         \A n \in Needs(t) : Intact(w[n]),
         \A c \in ChainsOf(t) : s[c] \in ProfilesOf[c]
  PROVE  WellNamed(t, Report(t, s, e, w))
<1>. DEFINE r == Report(t, s, e, w)
<1>0. /\ Tools = {"candidates", "first_step", "same_step", "final_step", "first_gate", "same_gate",
                  "final_gate", "first_acceptance_gate", "same_acceptance_gate", "final_acceptance_gate",
                  "next_axes", "same_next_axes", "exhaustion_axes"}
      /\ EH1 \in Designs /\ EH2 \in Designs /\ EL2 \in Designs
  BY DEF Tools, NeedsOf, Designs
<1>1. \A c \in Chains : Gate(c) = t => r.profile \in ProfilesOf[c]
  <2>. SUFFICES ASSUME NEW c \in Chains, Gate(c) = t PROVE r.profile \in ProfilesOf[c]
    OBVIOUS
  <2>. QED
    BY GateNamesProfile DEF ChainsOf
<1>2. ASSUME t = "candidates" PROVE r.order \in [1..3 -> Designs]
  BY <1>2, EvidenceAssumption DEF Report, FallbackCandidates
<1>3. ASSUME t \in {"next_axes", "same_next_axes"} PROVE r.next \in Designs \cup {""}
  <2>1. Intact(w["candidates"]) /\ "candidates" \in Tools
    BY <1>0, <1>3 DEF Needs, NeedsOf
  <2>2. w["candidates"].order \in [1..3 -> Designs]
    BY <2>1 DEF WellNamed
  <2>. QED
    BY <1>3, <2>2, AxesNamed DEF Report, NextAxes, SameNextAxes
<1>4. ASSUME t = "first_step" PROVE r.design \in Designs \cup {""}
  <2>1. Recommended(w["candidates"]) \in Designs \cup {""}
    <3>1. CASE w["candidates"].status = "recommend_first_veer_single_surface_candidate"
      <4>1. Intact(w["candidates"]) /\ "candidates" \in Tools
        BY <1>0, <3>1 DEF Intact, Missing, Torn
      <4>2. w["candidates"].order \in [1..3 -> Designs]
        BY <4>1 DEF WellNamed
      <4>. QED
        BY <3>1, <4>2, FirstIsNamed DEF Recommended
    <3>2. CASE w["candidates"].status # "recommend_first_veer_single_surface_candidate"
      BY <3>2 DEF Recommended
    <3>. QED
      BY <3>1, <3>2
  <2>. QED
    BY <1>0, <1>4, <2>1 DEF Report, FirstStep, Blocked, SurfaceStep
<1>5. ASSUME t \in {"same_step", "final_step"} PROVE r.design \in Designs \cup {""}
  <2>1. ASSUME NEW a \in {"next_axes", "same_next_axes"},
               w[a].status = "decide_continue_to_remaining_veer_design"
        PROVE  w[a].next \in Designs \cup {""}
    <3>1. Intact(w[a]) /\ a \in Tools
      BY <1>0, <2>1 DEF Intact, Missing, Torn
    <3>. QED
      BY <3>1 DEF WellNamed
  <2>. QED
    BY <1>0, <1>5, <2>1, LaterStepNamed DEF Report, SameStep, FinalStep
<1>6. ASSUME t \in {"first_gate", "same_gate", "final_gate"} PROVE r.design \in Designs \cup {""}
  <2>1. /\ t = "first_gate" => w["first_step"].design \in Designs \cup {""}
        /\ t = "same_gate" => w["same_step"].design \in Designs \cup {""}
        /\ t = "final_gate" => w["final_step"].design \in Designs \cup {""}
    <3>1. /\ t = "first_gate" => Intact(w["first_step"])
          /\ t = "same_gate" => Intact(w["same_step"])
          /\ t = "final_gate" => Intact(w["final_step"])
      BY DEF Needs, NeedsOf
    <3>2. \A u \in {"first_step", "same_step", "final_step"} :
            Intact(w[u]) => w[u].design \in Designs \cup {""}
      BY <1>0 DEF WellNamed
    <3>. QED
      BY <3>1, <3>2
  <2>2. /\ t = "first_gate" => Profile[s["first"]].design \in Designs
        /\ t = "same_gate" => Profile[s["same"]].design \in Designs
        /\ t = "final_gate" => Profile[s["final"]].design \in Designs
    BY <1>6, GateValues, ProfileDesigns DEF ChainsOf
  <2>. QED
    BY <1>6, <2>1, <2>2, PolicyNamed DEF Report, FirstGate, SameGate, FinalGate
<1>7. ASSUME t \in {"first_acceptance_gate", "same_acceptance_gate", "final_acceptance_gate"}
      PROVE  r.design \in Designs \cup {""}
  <2>1. /\ t = "first_acceptance_gate" => w["first_gate"].design \in Designs \cup {""}
        /\ t = "same_acceptance_gate" => w["same_gate"].design \in Designs \cup {""}
        /\ t = "final_acceptance_gate" => w["final_gate"].design \in Designs \cup {""}
    <3>1. /\ t = "first_acceptance_gate" => Intact(w["first_gate"])
          /\ t = "same_acceptance_gate" => Intact(w["same_gate"])
          /\ t = "final_acceptance_gate" => Intact(w["final_gate"])
      BY DEF Needs, NeedsOf
    <3>2. \A u \in {"first_gate", "same_gate", "final_gate"} :
            Intact(w[u]) => w[u].design \in Designs \cup {""}
      BY <1>0 DEF WellNamed
    <3>. QED
      BY <3>1, <3>2
  <2>. QED
    BY <1>7, <2>1, AcceptanceNamed DEF Report, FirstAcceptance, SameAcceptance, FinalAcceptance
<1>. HIDE DEF r
<1>8. WellNamed(t, r)
  BY <1>1, <1>2, <1>3, <1>4, <1>5, <1>6, <1>7 DEF WellNamed
<1>. QED
  BY <1>8 DEF r

LEMMA TInit == Init => TInv
<1>. SUFFICES ASSUME Init PROVE TInv
  OBVIOUS
<1>1. \A t \in Tools : ~Intact(work[t])
  BY DEF Init, FilesInit, Intact
<1>2. \A c \in Chains : CheckedIn[c] # TornSelection
  BY DEF CheckedIn, Chains, TornSelection
<1>. QED
  BY <1>1, <1>2, SInit DEF SInv, TInv, Init, FilesInit

\* A file that is written anew is named if the others were and it is.
LEMMA WriteNamed ==
  ASSUME TInv, NEW t \in Tools, NEW r, Intact(r) => WellNamed(t, r), work' = [work EXCEPT ![t] = r]
  PROVE  \A u \in Tools : Intact(work'[u]) => WellNamed(u, work'[u])
BY DEF TInv, Shape

LEMMA TStep == SInv /\ TInv /\ [Next]_<<vars, won>> => TInv'
<1>. SUFFICES ASSUME SInv, TInv, [Next]_<<vars, won>> PROVE TInv'
  OBVIOUS
<1>. DEFINE Files == \A u \in Tools : Intact(work'[u]) => WellNamed(u, work'[u])
            Rest == /\ evidence' \in Evidence \cup Arriving /\ cut' \subseteq Chains
                    /\ \A c \in Chains : selection'[c] = TornSelection => c \in cut'
<1>0. Shape'
  BY SStep DEF SInv
<1>1. ASSUME NEW t \in Tools, Audit(t) PROVE Files /\ Rest
  <2>1. \A c \in ChainsOf(t) : selection[c] \in ProfilesOf[c]
    BY <1>1 DEF Audit, Readable, Consults, ChainsOf, TInv, Shape
  <2>2. WellNamed(t, Report(t, selection, evidence, work))
    BY <1>1, <2>1, ReportNamed DEF Audit, Readable, FilesReadable, TInv
  <2>3. Files
    BY <1>1, <2>2, WriteNamed DEF Audit
  <2>4. Rest
    BY <1>1 DEF Audit, Readable, TInv
  <2>. QED
    BY <2>3, <2>4
<1>2. ASSUME NEW t \in Tools, AuditKilled(t) PROVE Files /\ Rest
  <2>1. Files
    BY <1>2, WriteNamed DEF AuditKilled, Intact
  <2>. QED
    BY <1>2, <2>1 DEF AuditKilled, TInv
<1>3. ASSUME NEW c \in Chains, NEW p \in Choices[c], Apply(c, p) PROVE Files /\ Rest
  <2>1. p \in ProfilesOf[c] /\ Gate(c) \in Tools /\ ChainsOf(Gate(c)) = {c}
    BY ChoicesAssumption, GateIsTool
  <2>2. Chosen(c, p)[c] = p /\ p # TornSelection
    BY <2>1 DEF Chosen, TInv, Shape, ProfilesOf, TornSelection, Chains, CheckedIn
  <2>3. WellNamed(Gate(c), Report(Gate(c), Chosen(c, p), evidence, work))
    BY <1>3, <2>1, <2>2, ReportNamed DEF Apply, FilesReadable, TInv
  <2>4. Files
    BY <1>3, <2>1, <2>3, WriteNamed DEF Apply
  <2>5. Rest
    BY <1>3, <2>2 DEF Apply, Chosen, TInv, Shape
  <2>. QED
    BY <2>4, <2>5
<1>4. ASSUME NEW c \in Chains, NEW p \in Choices[c], ApplyKilled(c, p) PROVE Files /\ Rest
  <2>1. p \in ProfilesOf[c] /\ Gate(c) \in Tools
    BY ChoicesAssumption, GateIsTool
  <2>2. Files
    <3>1. CASE work' = work
      BY <3>1 DEF TInv
    <3>2. CASE work' = [work EXCEPT ![Gate(c)] = Torn]
      BY <2>1, <3>2, WriteNamed DEF Intact
    <3>. QED
      BY <1>4, <3>1, <3>2 DEF ApplyKilled
  <2>3. \A d \in Chains \ {c} : selection'[d] = selection[d]
    BY <1>4 DEF ApplyKilled, Chosen, TInv, Shape
  <2>4. Rest
    BY <1>4, <2>3 DEF ApplyKilled, TInv
  <2>. QED
    BY <2>2, <2>4
<1>5. ASSUME Measure PROVE Files /\ Rest
  BY <1>5 DEF Measure, TInv
<1>6. CASE UNCHANGED <<vars, won>>
  BY <1>0, <1>6 DEF vars, TInv
<1>7. CASE Next
  <2>1. ASSUME NEW c \in Chains, SetProfile(c) PROVE Files /\ Rest
    BY <1>3, <1>4, <2>1 DEF SetProfile
  <2>2. Files /\ Rest
    BY <1>1, <1>2, <1>5, <1>7, <2>1, GateValues
       DEF Next, Step, RunTool, ToolKilled, Attended, SetFirstSurface, SetFirstAcceptance,
           SetSameFamily, SetSameAcceptance, SetFinalSameFamily, SetFinalAcceptance
  <2>. QED
    BY <1>0, <2>2 DEF TInv
<1>. QED
  BY <1>6, <1>7

\* Whatever designs bootstrap and in whatever order they are measured, a gate
\* names a profile of its chain and a design of the family.
THEOREM TypeCorrect == Spec => []TypeOK
<1>1. TInv => TypeOK
  <2>. SUFFICES ASSUME TInv PROVE TypeOK
    OBVIOUS
  <2>1. ASSUME NEW c \in Chains, Intact(work[Gate(c)])
        PROVE  /\ work[Gate(c)].profile \in ProfilesOf[c]
               /\ work[Gate(c)].design \in Designs \cup {""}
    <3>1. WellNamed(Gate(c), work[Gate(c)])
      BY <2>1, GateIsTool DEF TInv
    <3>2. Gate(c) \in {"first_gate", "same_gate", "final_gate", "first_acceptance_gate",
                      "same_acceptance_gate", "final_acceptance_gate"}
      BY GateValues
    <3>. QED
      BY <3>1, <3>2 DEF WellNamed
  <2>. QED
    BY <2>1 DEF TInv, Shape, TypeOK
<1>. QED
  BY <1>1, SInit, SStep, TInit, TStep, PTL DEF Spec

-----------------------------------------------------------------------------
(* Leaving the family: once the files have settled, the acceptance of EL2 rests *)
(* on the present state of all that comes before it.                          *)

Legible(r) == r.status \notin {"missing", "torn"}

LEMMA LegibleIsIntact == \A r : Legible(r) => Intact(r)
BY DEF Legible, Intact, Missing, Torn

LEMMA SurfaceStepLegible ==
  \A d, s : Legible(SurfaceStep(d, s))
BY DEF Legible, SurfaceStep

LEMMA LaterStepLegible ==
  \A d, s, axes : Legible(LaterStep(d, s, axes))
BY SurfaceStepLegible DEF Legible, LaterStep, Blocked

LEMMA PolicyLegible ==
  \A name, p, step : Legible(PolicyReport(name, p, step))
BY DEF Legible, PolicyReport, PolicyStatus, HoldStatus, CandidateStatus

\* What an accepted gate says of the three things it looked at.
LEMMA AcceptanceLegible ==
  ASSUME NEW upstream \in BOOLEAN, NEW accept \in BOOLEAN, NEW gate, NEW ready
  PROVE  /\ AcceptanceStatus(upstream, accept, gate, ready) \notin {"missing", "torn"}
         /\ AcceptanceStatus(upstream, accept, gate, ready) = "accepted" =>
              upstream /\ accept /\ gate \in ready
BY DEF AcceptanceStatus

\* An acceptance was asked for, its gate was ready, and what comes first accepted.
LEMMA FirstAccepted ==
  ASSUME NEW name, NEW e, NEW gate, FirstAcceptance(name, e, gate).status = "accepted"
  PROVE  /\ e.runtime = "open_fallback_family_ready" /\ name = "accept"
         /\ gate.status \in ReadyStatuses
         /\ FirstAcceptance(name, e, gate).design = gate.design
<1>. DEFINE st == AcceptanceStatus(e.runtime = "open_fallback_family_ready", name = "accept", gate.status, ReadyStatuses)
<1>1. st = "accepted" =>
        e.runtime = "open_fallback_family_ready" /\ name = "accept" /\ gate.status \in ReadyStatuses
  BY DEF AcceptanceStatus
<1>2. FirstAcceptance(name, e, gate)
        = [status |-> st, profile |-> name, design |-> IF st = "accepted" THEN gate.design ELSE ""]
  BY DEF FirstAcceptance, AcceptanceReport
<1>. HIDE DEF st
<1>. QED
  BY <1>1, <1>2

LEMMA SameAccepted ==
  ASSUME NEW name, NEW before, NEW gate, SameAcceptance(name, before, gate).status = "accepted"
  PROVE  /\ before.status = "accepted" /\ name = "accept"
         /\ gate.status \in ReadyStatuses
         /\ SameAcceptance(name, before, gate).design = gate.design
<1>. DEFINE st == AcceptanceStatus(before.status = "accepted", name = "accept", gate.status, ReadyStatuses)
<1>1. st = "accepted" =>
        before.status = "accepted" /\ name = "accept" /\ gate.status \in ReadyStatuses
  BY DEF AcceptanceStatus
<1>2. SameAcceptance(name, before, gate)
        = [status |-> st, profile |-> name, design |-> IF st = "accepted" THEN gate.design ELSE ""]
  BY DEF SameAcceptance, AcceptanceReport
<1>. HIDE DEF st
<1>. QED
  BY <1>1, <1>2

LEMMA FinalAccepted ==
  ASSUME NEW name, NEW before, NEW gate, FinalAcceptance(name, before, gate).status = "accepted"
  PROVE  /\ before.status = "accepted" /\ name = "accept"
         /\ gate.status \in ReadyStatuses
         /\ FinalAcceptance(name, before, gate).design = gate.design
<1>. DEFINE st == AcceptanceStatus(before.status = "accepted", name = "accept", gate.status, ReadyStatuses)
<1>1. st = "accepted" =>
        before.status = "accepted" /\ name = "accept" /\ gate.status \in ReadyStatuses
  BY DEF AcceptanceStatus
<1>2. FinalAcceptance(name, before, gate)
        = [status |-> st, profile |-> name, design |-> IF st = "accepted" THEN gate.design ELSE ""]
  BY DEF FinalAcceptance, AcceptanceReport
<1>. HIDE DEF st
<1>. QED
  BY <1>1, <1>2

LEMMA AxesLegible ==
  ASSUME NEW accepted \in BOOLEAN, NEW order, NEW remaining
  PROVE  Legible(Axes(accepted, order, remaining))
BY DEF Legible, Axes

\* A tool that runs writes a file that the tools above it can read.
LEMMA ReportIsIntact ==
  ASSUME NEW t \in Tools, NEW s, NEW e \in Evidence \cup Arriving, NEW w
  PROVE  Intact(Report(t, s, e, w))
<1>1. t \in {"candidates", "first_step", "same_step", "final_step", "first_gate", "same_gate",
             "final_gate", "first_acceptance_gate", "same_acceptance_gate", "final_acceptance_gate",
             "next_axes", "same_next_axes", "exhaustion_axes"}
  BY DEF Tools, NeedsOf
<1>2. CASE t = "candidates"
  BY <1>2, LegibleIsIntact DEF Report, FallbackCandidates, Legible
<1>3. CASE t = "first_step"
  BY <1>3, LegibleIsIntact, SurfaceStepLegible DEF Report, FirstStep, Blocked, Legible
<1>4. CASE t \in {"same_step", "final_step"}
  BY <1>4, LegibleIsIntact, LaterStepLegible DEF Report, SameStep, FinalStep
<1>5. CASE t \in {"first_gate", "same_gate", "final_gate"}
  BY <1>5, LegibleIsIntact, PolicyLegible DEF Report, FirstGate, SameGate, FinalGate
<1>6. CASE t \in {"first_acceptance_gate", "same_acceptance_gate", "final_acceptance_gate"}
  BY <1>6, LegibleIsIntact, AcceptanceLegible
     DEF Report, FirstAcceptance, SameAcceptance, FinalAcceptance, AcceptanceReport, Legible
<1>7. CASE t \in {"next_axes", "same_next_axes"}
  BY <1>7, LegibleIsIntact, AxesLegible DEF Report, NextAxes, SameNextAxes
<1>8. CASE t = "exhaustion_axes"
  BY <1>8, LegibleIsIntact, EvidenceAssumption DEF Report, ExhaustionAxes, Legible
<1>. QED
  BY <1>1, <1>2, <1>3, <1>4, <1>5, <1>6, <1>7, <1>8

\* Settled, with every setter finished, is up to date throughout: each tool
\* finds the files it needs, from the first to the last.
LEMMA SettledIsCurrent ==
  ASSUME TInv, Settled, cut = {}
  PROVE  \A t \in Tools : work[t] = Report(t, selection, evidence, work)
<1>1. ASSUME NEW t \in Tools, \A n \in Needs(t) : Intact(work[n])
      PROVE  work[t] = Report(t, selection, evidence, work) /\ Intact(work[t])
  <2>1. Readable(t)
    BY <1>1 DEF Readable, FilesReadable, Optional, Consults, ChainsOf, TInv
  <2>2. work[t] = Report(t, selection, evidence, work)
    BY <2>1 DEF Settled, Attended, Current
  <2>. QED
    BY <2>2, ReportIsIntact DEF TInv
<1>2. /\ \A t \in {"candidates", "first_step", "same_step", "final_step"} :
           Needs(t) = {} /\ t \in Tools
      /\ Needs("first_gate") = {"first_step"} /\ "first_gate" \in Tools
      /\ Needs("same_gate") = {"same_step"} /\ "same_gate" \in Tools
      /\ Needs("final_gate") = {"final_step"} /\ "final_gate" \in Tools
  BY DEF Needs, NeedsOf, Tools
<1>3. /\ Needs("first_acceptance_gate") = {"first_gate"} /\ "first_acceptance_gate" \in Tools
      /\ Needs("same_acceptance_gate") = {"first_acceptance_gate", "same_gate"} /\ "same_acceptance_gate" \in Tools
      /\ Needs("final_acceptance_gate") = {"same_acceptance_gate", "final_gate"} /\ "final_acceptance_gate" \in Tools
      /\ Needs("next_axes") = {"candidates", "first_acceptance_gate"} /\ "next_axes" \in Tools
      /\ Needs("same_next_axes") = {"candidates", "same_acceptance_gate"} /\ "same_next_axes" \in Tools
      /\ Needs("exhaustion_axes") = {"final_acceptance_gate"} /\ "exhaustion_axes" \in Tools
  BY DEF Needs, NeedsOf, Tools
<1>4. \A t \in {"candidates", "first_step", "same_step", "final_step"} :
        work[t] = Report(t, selection, evidence, work) /\ Intact(work[t])
  BY <1>1, <1>2
<1>5. \A t \in {"first_gate", "same_gate", "final_gate"} :
        work[t] = Report(t, selection, evidence, work) /\ Intact(work[t])
  BY <1>1, <1>2, <1>4
<1>6. /\ work["first_acceptance_gate"] = Report("first_acceptance_gate", selection, evidence, work)
      /\ Intact(work["first_acceptance_gate"])
  BY <1>1, <1>3, <1>5
<1>7. /\ work["same_acceptance_gate"] = Report("same_acceptance_gate", selection, evidence, work)
      /\ Intact(work["same_acceptance_gate"])
  BY <1>1, <1>3, <1>5, <1>6
<1>8. /\ work["final_acceptance_gate"] = Report("final_acceptance_gate", selection, evidence, work)
      /\ Intact(work["final_acceptance_gate"])
  BY <1>1, <1>3, <1>5, <1>7
<1>9. \A t \in {"next_axes", "same_next_axes", "exhaustion_axes"} :
        work[t] = Report(t, selection, evidence, work)
  BY <1>1, <1>3, <1>4, <1>6, <1>7, <1>8
<1>10. \A t \in Tools :
         t \in {"candidates", "first_step", "same_step", "final_step", "first_gate", "same_gate",
                "final_gate", "first_acceptance_gate", "same_acceptance_gate", "final_acceptance_gate",
                "next_axes", "same_next_axes", "exhaustion_axes"}
  BY DEF Tools, NeedsOf
<1>. QED
  BY <1>4, <1>5, <1>6, <1>7, <1>8, <1>9, <1>10

\* A surface gate that is ready has a win at the threshold its profile asks.
LEMMA ReadyGateWins ==
  ASSUME NEW d, NEW v, NEW p \in {Candidate(d, v), Hold(d)}, NEW s, NEW step,
         PolicyStatus(p, step) \in ReadyStatuses
  PROVE  /\ step.status \in {"ready_to_accept_default_gate", "decide_candidate_only"}
         /\ step = SurfaceStep(d, s) => Wins(s, v)
<1>1. CASE p = Candidate(d, v)
  BY <1>1 DEF PolicyStatus, CandidateStatus, HoldStatus, ReadyStatuses, Candidate, SurfaceStep, Wins
<1>2. CASE p = Hold(d)
  BY <1>2 DEF PolicyStatus, CandidateStatus, HoldStatus, ReadyStatuses, Hold, SurfaceStep, Wins
<1>. QED
  BY <1>1, <1>2

\* A gate names the design of its step.
LEMMA PolicyDesign ==
  ASSUME NEW name, NEW p, NEW step, step.design \in Designs
  PROVE  PolicyReport(name, p, step).design = step.design
BY DEF PolicyReport, Designs, EH1, EH2, EL2

\* A later step that is not blocked is the step of the design the axes name.
LEMMA OpenLaterStep ==
  ASSUME NEW d, NEW s, NEW axes,
         LaterStep(d, s, axes).status \in {"ready_to_accept_default_gate", "decide_candidate_only"}
  PROVE  /\ axes.status = "decide_continue_to_remaining_veer_design" /\ axes.next = d
         /\ LaterStep(d, s, axes) = SurfaceStep(d, s)
<1>1. axes.status = "decide_continue_to_remaining_veer_design"
  BY DEF LaterStep, Blocked
<1>2. axes.next = d
  BY <1>1 DEF LaterStep, Blocked
<1>. QED
  BY <1>1, <1>2 DEF LaterStep

LEMMA FirstInIsFirst ==
  ASSUME NEW names \in [1..3 -> Designs], NEW S, NEW d \in Designs, FirstIn(names, S) = d
  PROVE  \E i \in 1..3 : /\ names[i] = d /\ d \in S
                         /\ \A j \in 1..3 : j < i => names[j] \notin S
<1>. DEFINE at == {i \in DOMAIN names : names[i] \in S}
            least == CHOOSE i \in at : \A j \in at : i <= j
<1>1. at # {}
  BY DEF FirstIn, Designs, EH1, EH2, EL2
<1>2. at \subseteq 1..3
  OBVIOUS
<1>3. \E m \in at : \A j \in at : m <= j
  BY <1>1, <1>2
<1>4. least \in at /\ \A j \in at : least <= j
  BY <1>3
<1>5. names[least] = d
  <2>1. FirstIn(names, S) = IF at = {} THEN "" ELSE names[least]
    BY DEF FirstIn
  <2>. QED
    BY <1>1, <2>1
<1>6. \A j \in 1..3 : j < least => names[j] \notin S
  BY <1>2, <1>4
<1>. QED
  BY <1>2, <1>4, <1>5, <1>6

\* Three designs recommended one after the other, the smallest first, are all
\* there and in that order.
LEMMA LadderOrder ==
  ASSUME NEW order \in [1..3 -> Designs], \A d \in Designs : \E i \in 1..3 : order[i] = d,
         NEW ready \in SUBSET Designs,
         FirstIn(order, ready) = EH1,
         FirstIn(order, ready \ {EH1}) = EH2,
         FirstIn(order, ready \ {EH1, EH2}) = EL2
  PROVE  ready = Designs /\ order = <<EH1, EH2, EL2>>
<1>1. EH1 \in Designs /\ EH2 \in Designs /\ EL2 \in Designs
  BY DEF Designs
<1>2. EH1 # EH2 /\ EH1 # EL2 /\ EH2 # EL2
  BY DEF EH1, EH2, EL2
<1>3. PICK i \in 1..3 : order[i] = EH1 /\ EH1 \in ready /\ \A j \in 1..3 : j < i => order[j] \notin ready
  BY <1>1, FirstInIsFirst
<1>4. PICK m \in 1..3 : order[m] = EH2 /\ EH2 \in ready \ {EH1} /\ \A j \in 1..3 : j < m => order[j] \notin ready \ {EH1}
  BY <1>1, FirstInIsFirst
<1>5. PICK n \in 1..3 : order[n] = EL2 /\ EL2 \in ready \ {EH1, EH2}
  BY <1>1, FirstInIsFirst
<1>6. ready = Designs
  BY <1>3, <1>4, <1>5 DEF Designs
<1>7. i < m /\ i < n
  BY <1>1, <1>2, <1>3, <1>4, <1>5, <1>6
<1>8. m < n
  BY <1>1, <1>2, <1>4, <1>5, <1>6
<1>9. i = 1 /\ m = 2 /\ n = 3
  BY <1>7, <1>8
<1>10. order[1] = EH1 /\ order[2] = EH2 /\ order[3] = EL2
  BY <1>3, <1>4, <1>5, <1>9
<1>. QED
  BY <1>6, <1>10

\* Every win, every design and every selection the acceptance of EL2 needs.
LEMMA LeavingNeedsAll ==
  ASSUME TInv, Settled, cut = {},
         work["exhaustion_axes"].status = "decide_open_next_non_veer_family"
  PROVE  /\ evidence.runtime = "open_fallback_family_ready"
         /\ evidence.bootstrapped = Designs
         /\ evidence.footprint = <<EH1, EH2, EL2>>
         /\ ShownBy(evidence) = Designs
         /\ \A c \in {"first_acceptance", "same_acceptance", "final_acceptance"} :
              selection[c] = "accept"
<1>. DEFINE candidates == work["candidates"]
<1>0. /\ \A t \in Tools : work[t] = Report(t, selection, evidence, work)
      /\ Tools = {"candidates", "first_step", "same_step", "final_step", "first_gate", "same_gate",
                  "final_gate", "first_acceptance_gate", "same_acceptance_gate", "final_acceptance_gate",
                  "next_axes", "same_next_axes", "exhaustion_axes"}
  BY SettledIsCurrent DEF Tools, NeedsOf
<1>1. candidates = FallbackCandidates(evidence)
  BY <1>0 DEF Report
<1>2. work["first_step"] = FirstStep(evidence, candidates)
  BY <1>0 DEF Report
<1>3. /\ work["first_gate"] = PolicyReport(selection["first"], Profile[selection["first"]], work["first_step"])
      /\ work["same_gate"] = PolicyReport(selection["same"], Profile[selection["same"]], work["same_step"])
      /\ work["final_gate"] = PolicyReport(selection["final"], Profile[selection["final"]], work["final_step"])
  BY <1>0 DEF Report, FirstGate, SameGate, FinalGate
<1>4. /\ work["first_acceptance_gate"]
           = FirstAcceptance(selection["first_acceptance"], evidence, work["first_gate"])
      /\ work["same_acceptance_gate"]
           = SameAcceptance(selection["same_acceptance"], work["first_acceptance_gate"], work["same_gate"])
      /\ work["final_acceptance_gate"]
           = FinalAcceptance(selection["final_acceptance"], work["same_acceptance_gate"], work["final_gate"])
  BY <1>0 DEF Report
<1>5. /\ work["next_axes"] = NextAxes(candidates, work["first_acceptance_gate"])
      /\ work["same_next_axes"] = SameNextAxes(candidates, work["same_acceptance_gate"])
      /\ work["same_step"] = LaterStep(EH2, evidence.surface[EH2], work["next_axes"])
      /\ work["final_step"] = LaterStep(EL2, evidence.surface[EL2], work["same_next_axes"])
      /\ work["exhaustion_axes"] = ExhaustionAxes(evidence, work["final_acceptance_gate"])
  BY <1>0 DEF Report, SameStep, FinalStep
<1>6. \* The profiles the three gates may have been held against.
      /\ Profile[selection["first"]] \in {Candidate(EH1, 5), Hold(EH1)}
      /\ Profile[selection["same"]] \in {Candidate(EH2, 4), Hold(EH2)}
      /\ Profile[selection["final"]] \in {Candidate(EL2, 6), Hold(EL2)}
  <2>1. /\ selection["first"] \in ProfilesOf["first"]
        /\ selection["same"] \in ProfilesOf["same"]
        /\ selection["final"] \in ProfilesOf["final"]
    BY GateValues DEF TInv, Shape
  <2>. QED
    BY <2>1 DEF ProfilesOf, Profile
<1>. HIDE DEF candidates
<1>7. work["final_acceptance_gate"].status = "accepted"
  BY <1>5 DEF ExhaustionAxes
<1>8. /\ work["same_acceptance_gate"].status = "accepted"
      /\ selection["final_acceptance"] = "accept"
      /\ work["final_gate"].status \in ReadyStatuses
  BY <1>4, <1>7, FinalAccepted
<1>9. /\ work["first_acceptance_gate"].status = "accepted"
      /\ selection["same_acceptance"] = "accept"
      /\ work["same_gate"].status \in ReadyStatuses
      /\ work["same_acceptance_gate"].design = work["same_gate"].design
  BY <1>4, <1>8, SameAccepted
<1>10. /\ evidence.runtime = "open_fallback_family_ready"
       /\ selection["first_acceptance"] = "accept"
       /\ work["first_gate"].status \in ReadyStatuses
       /\ work["first_acceptance_gate"].design = work["first_gate"].design
  BY <1>4, <1>9, FirstAccepted
<1>11. /\ PolicyStatus(Profile[selection["first"]], work["first_step"]) \in ReadyStatuses
       /\ PolicyStatus(Profile[selection["same"]], work["same_step"]) \in ReadyStatuses
       /\ PolicyStatus(Profile[selection["final"]], work["final_step"]) \in ReadyStatuses
  <2>1. \A name, p, step : PolicyReport(name, p, step).status = PolicyStatus(p, step)
    BY DEF PolicyReport
  <2>. QED
    BY <1>3, <1>8, <1>9, <1>10, <2>1
<1>12. /\ work["first_step"].status \in {"ready_to_accept_default_gate", "decide_candidate_only"}
       /\ work["same_step"].status \in {"ready_to_accept_default_gate", "decide_candidate_only"}
       /\ work["final_step"].status \in {"ready_to_accept_default_gate", "decide_candidate_only"}
  <2>1. \A d, v, p, step :
          p \in {Candidate(d, v), Hold(d)} /\ PolicyStatus(p, step) \in ReadyStatuses =>
            step.status \in {"ready_to_accept_default_gate", "decide_candidate_only"}
    BY ReadyGateWins
  <2>. QED
    BY <1>6, <1>11, <2>1
<1>13. Recommended(candidates) = EH1 /\ work["first_step"] = SurfaceStep(EH1, evidence.surface[EH1])
  BY <1>2, <1>12 DEF FirstStep, Blocked
<1>14. /\ work["next_axes"].next = EH2
       /\ work["same_step"] = SurfaceStep(EH2, evidence.surface[EH2])
       /\ work["same_next_axes"].next = EL2
       /\ work["final_step"] = SurfaceStep(EL2, evidence.surface[EL2])
  BY <1>5, <1>12, OpenLaterStep
<1>15. ShownBy(evidence) = Designs
  <2>1. /\ Wins(evidence.surface[EH1], 5)
        /\ Wins(evidence.surface[EH2], 4)
        /\ Wins(evidence.surface[EL2], 6)
    <3>1. \A d, v, p, s, step :
            p \in {Candidate(d, v), Hold(d)} /\ PolicyStatus(p, step) \in ReadyStatuses =>
              (step = SurfaceStep(d, s) => Wins(s, v))
      BY ReadyGateWins
    <3>2. Wins(evidence.surface[EH1], 5)
      BY <1>6, <1>11, <1>13, <3>1
    <3>3. Wins(evidence.surface[EH2], 4)
      BY <1>6, <1>11, <1>14, <3>1
    <3>4. Wins(evidence.surface[EL2], 6)
      BY <1>6, <1>11, <1>14, <3>1
    <3>. QED
      BY <3>2, <3>3, <3>4
  <2>. QED
    BY <2>1 DEF ShownBy, Designs
<1>16. work["first_acceptance_gate"].design = EH1 /\ work["same_acceptance_gate"].design = EH2
  <2>1. work["first_step"].design = EH1 /\ work["same_step"].design = EH2
    BY <1>13, <1>14 DEF SurfaceStep
  <2>2. EH1 \in Designs /\ EH2 \in Designs
    BY DEF Designs
  <2>3. PolicyReport(selection["first"], Profile[selection["first"]], work["first_step"]).design = EH1
    BY <2>1, <2>2, PolicyDesign
  <2>4. PolicyReport(selection["same"], Profile[selection["same"]], work["same_step"]).design = EH2
    BY <2>1, <2>2, PolicyDesign
  <2>. QED
    BY <1>3, <1>9, <1>10, <2>3, <2>4
<1>17. /\ FirstIn(evidence.footprint, evidence.bootstrapped) = EH1
       /\ FirstIn(evidence.footprint, evidence.bootstrapped \ {EH1}) = EH2
       /\ FirstIn(evidence.footprint, evidence.bootstrapped \ {EH1, EH2}) = EL2
  <2>1. candidates.order = evidence.footprint /\ candidates.ready = evidence.bootstrapped
    BY <1>1 DEF FallbackCandidates
  <2>2. FirstIn(evidence.footprint, evidence.bootstrapped) = EH1
    BY <1>13, <2>1 DEF Recommended, EH1
  <2>. QED
    BY <1>5, <1>8, <1>9, <1>14, <1>16, <2>1, <2>2 DEF NextAxes, SameNextAxes, Axes
<1>18. evidence.bootstrapped = Designs /\ evidence.footprint = <<EH1, EH2, EL2>>
  <2>1. /\ evidence.footprint \in [1..3 -> Designs]
        /\ \A d \in Designs : \E i \in 1..3 : evidence.footprint[i] = d
        /\ evidence.bootstrapped \in SUBSET Designs
    BY EvidenceAssumption DEF TInv
  <2>. QED
    BY <1>17, <2>1, LadderOrder
<1>. QED
  BY <1>8, <1>9, <1>10, <1>15, <1>18

\* Whatever order tools and setters ran in, were killed in, and measurements
\* arrived in: once all is settled, VeeR is left only if its three designs win
\* now, bootstrap in that order, and are accepted by the selected profiles.
THEOREM LeavingRestsOnTheLadder == Spec => []LeavingIsBacked
<1>1. TInv => LeavingIsBacked
  BY LeavingNeedsAll DEF LeavingIsBacked
<1>. QED
  BY <1>1, SInit, SStep, TInit, TStep, PTL DEF Spec

-----------------------------------------------------------------------------
(* More probes do not bring the advice for Caliptra back, but in one place. *)


\* A probe that ran, or timed out, still does when results are only added.
LEMMA ResultsStay ==
  ASSUME NEW k, NEW more, Extends(k, more), NEW S \in SUBSET Probes
  PROVE  /\ Runs(k, S) => Runs(more, S)
         /\ TimesOut(k, S) => TimesOut(more, S)
         /\ \A faults : "" \notin faults /\ Fails(k, S, faults) => Fails(more, S, faults)
  BY DEF Extends, Runs, TimesOut, Fails

LEMMA FaultsAreResults == "" \notin AccessFaults /\ "" \notin RuntimeFaults
  BY DEF AccessFaults, RuntimeFaults

\* What a kernel's log said it still says.
LEMMA LogsStay ==
  ASSUME NEW k, NEW more, Extends(k, more), NEW p \in Kernels, k.smoke[p] # ""
  PROVE  more.smoke[p] = k.smoke[p]
  BY DEF Extends

LEMMA Named ==
  /\ {"prefix330"} \in SUBSET Probes /\ {"prefix331"} \in SUBSET Probes
  /\ {"b64_zero_ret_only"} \in SUBSET Probes
  /\ {"zero_high_offsets", "ret_after_first_store", "first_half_zero_high_offsets"} \in SUBSET Probes
  /\ {"min_store_only", "ret_only"} \in SUBSET Probes
  /\ {"noarg_ret_only", "param_only"} \in SUBSET Probes
  /\ {"rd4_ret_only", "rd7_ret_only"} \in SUBSET Probes
  /\ {"rd1_ret_only", "rd6_ret_only", "b64_one_ret_only", "b64_imm1_ret_only"} \in SUBSET Probes
  BY DEF Probes, PrefixProbes, HelperProbes, ReturnProbes, ArgumentProbes, LateProbes

LEMMA NamedTruncated ==
  /\ {"ret_only_trunc", "ldptr_ret", "high_offset_load_ret", "first_branch_merge_ret", "param_only"} \in SUBSET Probes
  /\ {"prefix330", "noarg_ret_only", "b64_zero_ret_only", "b64_synth16_trunc_ret_only",
      "rd4_trunc_ret_only", "rd7_trunc_ret_only"} \in SUBSET Probes
  /\ {"prefix331", "first_store"} \cup HelperProbes \in SUBSET Probes
  /\ {"ret_only", "rd3_ret_only", "rd3_shr12_ret_only", "rd3_small_nonzero_ret_only",
      "rd3_small_aligned_nonzero_ret_only", "b64_synth16_ret_only", "rd4_ret_only", "rd7_ret_only"} \in SUBSET Probes
  BY DEF Probes, PrefixProbes, HelperProbes, ReturnProbes, ArgumentProbes, StoreProbes, LateProbes

LEMMA NamedStores ==
  /\ {"prefix330", "zero_data", "one_data", "branch1_load_zero_store"} \in SUBSET Probes
  /\ {"prefix331", "first_store", "branch1_load"} \in SUBSET Probes
  /\ {"b64_imm1_ret_only"} \in SUBSET Probes
  /\ {"branch1_load_mask1", "branch1_predicated01", "selp_const1"} \in SUBSET Probes
  /\ SelectProbes \ {"selp_const1"} \in SUBSET Probes
  /\ {"masked_data"} \in SUBSET Probes /\ MaskedDataProbes \ {"masked_data"} \in SUBSET Probes
  BY DEF Probes, PrefixProbes, StoreProbes, SelectProbes, MaskedDataProbes, LateProbes

LEMMA NamedLoads ==
  /\ {"dead_mask_const1", "selp_same_const1"} \in SUBSET Probes
  /\ {"mask1_shl8"} \in SUBSET Probes
  /\ {"dead_mask_zero", "selp_same_const257"} \cup (ShiftProbes \ {"mask1_shl8"}) \in SUBSET Probes
  /\ SourceProbes \cup LoadedByteProbes \cup {"branch1_load_mov"} \in SUBSET Probes
  BY DEF Probes, StoreProbes, DeadMaskProbes, ShiftProbes, SourceProbes, LoadedByteProbes

\* The tactics of the cubin and of the split kernels are kept.
LEMMA SplitStays ==
  ASSUME NEW k, NEW more, Extends(k, more)
  PROVE  /\ StackCeilingDebug(k) => StackCeilingDebug(more)
         /\ StackFootprintDebug(k) => StackFootprintDebug(more)
         /\ ExecutablePathDebug(k) => ExecutablePathDebug(more)
         /\ SplitCubinDebug(k) => SplitCubinDebug(more)
         /\ SplitRuntimeDebug(k) => SplitRuntimeDebug(more)
<1>1. k.seen \subseteq more.seen
  BY DEF Extends
<1>2. StackCeilingDebug(k) => StackCeilingDebug(more)
  BY LogsStay DEF StackCeilingDebug, Kernels
<1>3. k.smoke["split_cubin"] = "illegal_memory_access" => more.smoke["split_cubin"] = "illegal_memory_access"
  BY LogsStay DEF Kernels
<1>4. QED
  BY <1>1, <1>2, <1>3
  DEF StackFootprintDebug, ExecutablePathDebug, SplitCubinDebug, SplitRuntimeDebug

LEMMA KernelsStay ==
  ASSUME NEW k, NEW more, Extends(k, more)
  PROVE  /\ k.smoke["ico"] = "ok" /\ k.smoke["nba_sequent"] = "ok"
              => more.smoke["ico"] = "ok" /\ more.smoke["nba_sequent"] = "ok"
         /\ NbaCombDebug(k) => NbaCombDebug(more)
<1>1. k.smoke["ico"] = "ok" /\ k.smoke["nba_sequent"] = "ok"
        => more.smoke["ico"] = "ok" /\ more.smoke["nba_sequent"] = "ok"
  BY LogsStay DEF Kernels
<1>2. ASSUME NEW b \in {"nba_comb", "nba_comb_block1", "nba_comb_block8"}, k.smoke[b] \in AccessFaults
      PROVE  more.smoke[b] \in AccessFaults
  <2>1. b \in Kernels
    BY DEF Kernels
  <2>2. k.smoke[b] # ""
    BY <1>2, FaultsAreResults
  <2>3. QED
    BY <1>2, <2>1, <2>2, LogsStay
<1>3. QED
  BY <1>1, <1>2, SplitStays DEF NbaCombDebug

\* The tactics of the calls are kept, that of the first half but for its guard.
LEMMA CallsStay ==
  ASSUME NEW k, NEW more, Extends(k, more)
  PROVE  /\ CallDebug(k) => CallDebug(more)
         /\ HalvesFail(k) => HalvesFail(more)
         /\ CallEntryDebug(k) => CallEntryDebug(more)
         /\ LiveArgumentDebug(k) => LiveArgumentDebug(more)
         /\ NonzeroPointerDebug(k) => NonzeroPointerDebug(more)
         /\ CompilablePointerDebug(k) => CompilablePointerDebug(more)
<1>1. CallDebug(k) => CallDebug(more)
  BY SplitStays, ResultsStay, Named, FaultsAreResults DEF CallDebug
<1>2. HalvesFail(k) => HalvesFail(more)
  BY <1>1, ResultsStay, Named, FaultsAreResults DEF HalvesFail
<1>3. EmptyCallFails(k) => EmptyCallFails(more)
  BY ResultsStay, Named, FaultsAreResults DEF EmptyCallFails
<1>4. CallEntryDebug(k) => CallEntryDebug(more)
  BY <1>2, <1>3, ResultsStay, Named DEF CallEntryDebug
<1>5. LiveArgumentDebug(k) => LiveArgumentDebug(more)
  BY <1>4, ResultsStay, Named DEF LiveArgumentDebug
<1>6. NonzeroPointerDebug(k) => NonzeroPointerDebug(more)
  BY <1>5, ResultsStay, Named, FaultsAreResults DEF NonzeroPointerDebug
<1>7. CompilablePointerDebug(k) => CompilablePointerDebug(more)
  <2> DEFINE S == {"rd1_ret_only", "rd6_ret_only", "b64_one_ret_only", "b64_imm1_ret_only"}
  <2>1. TimesOut(k, S) => TimesOut(more, S)
    <3>1. S \in SUBSET Probes
      BY Named
    <3> HIDE DEF S
    <3>2. QED
      BY <3>1, ResultsStay
  <2>2. QED
    BY <1>6, <2>1 DEF CompilablePointerDebug
<1>8. QED
  BY <1>1, <1>2, <1>4, <1>5, <1>6, <1>7

\* The tactics of the truncated probes are kept.
LEMMA StoresStay ==
  ASSUME NEW k, NEW more, Extends(k, more)
  PROVE  /\ FirstStoreDebug(k) => FirstStoreDebug(more)
         /\ SourceDataDebug(k) => SourceDataDebug(more)
         /\ SourceBitsDebug(k) => SourceBitsDebug(more)
<1>1. TruncatedRuns(k) => TruncatedRuns(more)
  BY ResultsStay, NamedTruncated, ZenonT(40) DEF TruncatedRuns
<1>2. FirstStoreDebug(k) => FirstStoreDebug(more)
  BY <1>1, SplitStays, ResultsStay, NamedTruncated, Named, FaultsAreResults, ZenonT(40) DEF FirstStoreDebug
<1>3. StoredByteFails(k) => StoredByteFails(more)
  BY <1>1, SplitStays, ResultsStay, NamedStores, FaultsAreResults, ZenonT(40) DEF StoredByteFails
<1>4. SourceDataDebug(k) => SourceDataDebug(more)
  <2>1. k.smoke["split_cubin"] = "illegal_memory_access" => more.smoke["split_cubin"] = "illegal_memory_access"
    BY LogsStay DEF Kernels
  <2>2. QED
    BY <1>3, <2>1, KernelsStay DEF SourceDataDebug
<1>5. SelectsNarrow(k) => SelectsNarrow(more)
  BY ResultsStay, NamedStores, FaultsAreResults DEF SelectsNarrow
<1>6. MaskedDataNarrows(k) => MaskedDataNarrows(more)
  BY ResultsStay, NamedStores, FaultsAreResults DEF MaskedDataNarrows
<1>7. ShiftsNarrow(k) => ShiftsNarrow(more)
  BY ResultsStay, NamedLoads, FaultsAreResults, ZenonT(40) DEF ShiftsNarrow
<1>8. LoadedBytesNarrow(k) => LoadedBytesNarrow(more)
  <2> DEFINE S == SourceProbes \cup LoadedByteProbes \cup {"branch1_load_mov"}
  <2>1. TimesOut(k, S) => TimesOut(more, S)
    <3>1. S \in SUBSET Probes
      BY NamedLoads
    <3> HIDE DEF S
    <3>2. QED
      BY <3>1, ResultsStay
  <2>2. QED
    BY <2>1 DEF LoadedBytesNarrow
<1>9. SourceBitsDebug(k) => SourceBitsDebug(more)
  BY <1>3, <1>5, <1>6, <1>7, <1>8 DEF SourceBitsDebug
<1>10. QED
  BY <1>2, <1>4, <1>9

\* Each result that was missing and is added leaves the advice as deep as it was
\* or deepens it, whatever it shows and in whatever order the probes are run;
\* but where the first half of the helper is under debug, and it is then shown
\* that the call faults when it does nothing, the advice goes back to the helper
\* as a whole until the call without argument and its parameters were tried.
THEOREM ProbesDeepenTheAdvice ==
  ASSUME NEW k, NEW more, NEW status, Extends(k, more),
         ~(FirstHalfDebug(k) /\ EmptyCallFails(more))
  PROVE  Depth(more, status) >= Depth(k, status)
<1>1. CASE "official_cubin" \notin k.seen
  <2>1. k.seen \subseteq more.seen
    BY DEF Extends
  <2>2. PtxasDebug(k, status) => PtxasDebug(more, status)
    BY <2>1 DEF PtxasDebug
  <2>3. FullCubinDebug(k, status) => FullCubinDebug(more, status)
    BY <2>1, <2>2 DEF FullCubinDebug
  <2>4. QED
    BY <1>1, <2>2, <2>3 DEF Depth
<1>2. CASE "official_cubin" \in k.seen
  <2>1. "official_cubin" \in more.seen
    BY <1>2 DEF Extends
  <2>2. k.smoke["cubin"] = "ok" => more.smoke["cubin"] = "ok"
    BY LogsStay DEF Kernels
  <2>3. FirstHalfDebug(k) => FirstHalfDebug(more)
    BY CallsStay DEF FirstHalfDebug
  <2>4. QED
    BY <1>2, <2>1, <2>2, <2>3, SplitStays, KernelsStay, CallsStay, StoresStay DEF Depth
<1>3. QED
  BY <1>1, <1>2
=============================================================================
