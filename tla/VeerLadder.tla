----------------------------- MODULE VeerLadder -----------------------------
(***************************************************************************)
(* The VeeR part of the campaign: three designs accepted one after the     *)
(* other as fallback evidence, EH1, EH2 and EL2, and the decision to leave *)
(* the family.  Thirteen audit tools and six setters share the files of    *)
(* CampaignFiles.  The gate of the XuanTie C910 branch, which opens the    *)
(* family, is written by another part and is an input here.                *)
(***************************************************************************)
EXTENDS SurfaceGates, Naturals

CONSTANTS Choices, Evidence, Arriving, Fragile

VARIABLES selection, evidence, work, cut
VARIABLE won  \* ghost: the designs some measurement showed a win of, so far

EH1 == "VeeR-EH1"
EH2 == "VeeR-EH2"
EL2 == "VeeR-EL2"

\* The profiles of config/campaign_veer_*.
Profile ==
  [eh1_candidate |-> Candidate(EH1, 5), eh1_hold |-> Hold(EH1),
   eh2_candidate |-> Candidate(EH2, 4), eh2_hold |-> Hold(EH2),
   el2_candidate |-> Candidate(EL2, 6), el2_hold |-> Hold(EL2)]

CheckedIn ==
  [first |-> "eh1_candidate", first_acceptance |-> "accept",
   same |-> "eh2_candidate", same_acceptance |-> "accept",
   final |-> "el2_candidate", final_acceptance |-> "accept"]
Chains == DOMAIN CheckedIn

Gate(c) ==
  [first |-> "first_gate", first_acceptance |-> "first_acceptance_gate",
   same |-> "same_gate", same_acceptance |-> "same_acceptance_gate",
   final |-> "final_gate", final_acceptance |-> "final_acceptance_gate"][c]

ProfilesOf ==
  [first |-> {"eh1_candidate", "eh1_hold"}, first_acceptance |-> {"accept", "hold"},
   same |-> {"eh2_candidate", "eh2_hold"}, same_acceptance |-> {"accept", "hold"},
   final |-> {"el2_candidate", "el2_hold"}, final_acceptance |-> {"accept", "hold"}]

\* _load_profile refuses a name that has no file among the chain's profiles.
ASSUME ChoicesAssumption == \A c \in Chains : Choices[c] \subseteq ProfilesOf[c]

\* DEFAULT_BOOTSTRAP_JSONS: the designs are these three, and their footprints
\* are sorted, so that each has its place.
Designs == {EH1, EH2, EL2}
ASSUME EvidenceAssumption ==
  \A e \in Evidence \cup Arriving :
    /\ e.footprint \in [1..3 -> Designs] /\ \A d \in Designs : \E i \in 1..3 : e.footprint[i] = d
    /\ e.bootstrapped \subseteq Designs /\ e.families \in Nat

\* The steps alone read with a _read_json that gives None for a file that is
\* absent or does not parse.
NeedsOf ==
  [candidates |-> {}, first_step |-> {}, same_step |-> {}, final_step |-> {},
   first_gate |-> {"first_step"}, same_gate |-> {"same_step"}, final_gate |-> {"final_step"},
   first_acceptance_gate |-> {"first_gate"},
   same_acceptance_gate |-> {"first_acceptance_gate", "same_gate"},
   final_acceptance_gate |-> {"same_acceptance_gate", "final_gate"},
   next_axes |-> {"candidates", "first_acceptance_gate"},
   same_next_axes |-> {"candidates", "same_acceptance_gate"},
   exhaustion_axes |-> {"final_acceptance_gate"}]
Tools == DOMAIN NeedsOf
Needs(t) == NeedsOf[t]
Optional(t) == {}
Consults(t) == {}
Attended == Tools
-----------------------------------------------------------------------------
\* evidence.footprint orders the designs by the size of their compile; the file
\* lists those that bootstrap in that order.
FallbackCandidates(e) ==
  [status |-> IF e.bootstrapped = {} THEN "veer_fallback_bootstrap_blocked"
              ELSE "recommend_first_veer_single_surface_candidate",
   ready |-> e.bootstrapped, order |-> e.footprint]

Recommended(candidates) ==
  IF candidates.status = "recommend_first_veer_single_surface_candidate"
  THEN FirstIn(candidates.order, candidates.ready) ELSE ""

FirstStep(e, candidates) ==
  LET design == Recommended(candidates)
  IN  CASE e.runtime # "open_fallback_family_ready" -> Blocked("blocked_veer_fallback_not_active", design)
        [] e.runtime = "open_fallback_family_ready" /\ design # EH1 ->
             Blocked("blocked_unexpected_veer_first_design", design)
        [] OTHER -> SurfaceStep(EH1, e.surface[EH1])

FirstGate(name, step) == PolicyReport(name, Profile[name], step)

FirstAcceptance(name, e, gate) ==
  AcceptanceReport(name,
    AcceptanceStatus(e.runtime = "open_fallback_family_ready", name = "accept", gate.status, ReadyStatuses), gate)

\* The designs still open once some are accepted, and the next one.
Axes(accepted, order, remaining) ==
  [status |-> CASE ~accepted -> "blocked_not_accepted"
                [] accepted /\ remaining # {} -> "decide_continue_to_remaining_veer_design"
                [] accepted /\ remaining = {} -> "decide_leave_veer_family_after_exhaustion",
   accepted |-> accepted,
   next |-> IF accepted THEN FirstIn(order, remaining) ELSE ""]

NextAxes(candidates, acceptance) ==
  Axes(acceptance.status = "accepted", candidates.order, candidates.ready \ {acceptance.design})

\* Mutation: a step takes its design whichever one the axes recommend.
LaterStepAnyDesign(design, surface, axes) ==
  IF axes.status = "decide_continue_to_remaining_veer_design"
  THEN SurfaceStep(design, surface) ELSE Blocked("blocked_previous_not_accepted", "")

\* A step of the family after the first, from the axes before it.
LaterStep(design, surface, axes) ==
  CASE axes.status \notin {"decide_continue_to_remaining_veer_design",
                           "decide_leave_veer_family_after_exhaustion"} -> Blocked("blocked_previous_not_accepted", "")
    [] axes.status = "decide_leave_veer_family_after_exhaustion" -> Blocked("blocked_veer_next_axes_not_ready", "")
    [] axes.status = "decide_continue_to_remaining_veer_design" ->
         IF axes.next = design THEN SurfaceStep(design, surface)
         ELSE Blocked("blocked_unexpected_veer_same_family_design", axes.next)

SameStep(e, axes) == LaterStep(EH2, e.surface[EH2], axes)

SameGate(name, step) == PolicyReport(name, Profile[name], step)

SameAcceptance(name, first, gate) ==
  AcceptanceReport(name,
    AcceptanceStatus(first.status = "accepted", name = "accept", gate.status, ReadyStatuses), gate)

SameNextAxes(candidates, acceptance) ==
  Axes(acceptance.status = "accepted", candidates.order, candidates.ready \ {EH1, acceptance.design})

FinalStep(e, axes) == LaterStep(EL2, e.surface[EL2], axes)

FinalGate(name, step) == PolicyReport(name, Profile[name], step)

FinalAcceptance(name, same, gate) ==
  AcceptanceReport(name,
    AcceptanceStatus(same.status = "accepted", name = "accept", gate.status, ReadyStatuses), gate)

\* evidence.families counts the families the inventory finds outside VeeR.
ExhaustionAxes(e, final) ==
  [status |-> CASE final.status # "accepted" -> "blocked_veer_family_not_yet_exhausted"
                [] final.status = "accepted" /\ e.families > 0 -> "decide_open_next_non_veer_family"
                [] final.status = "accepted" /\ e.families = 0 -> "decide_revisit_blocked_debug_branches"]

Report(t, s, e, w) ==
  CASE t = "candidates"            -> FallbackCandidates(e)
    [] t = "first_step"            -> FirstStep(e, w["candidates"])
    [] t = "first_gate"            -> FirstGate(s["first"], w["first_step"])
    [] t = "first_acceptance_gate" -> FirstAcceptance(s["first_acceptance"], e, w["first_gate"])
    [] t = "next_axes"             -> NextAxes(w["candidates"], w["first_acceptance_gate"])
    [] t = "same_step"             -> SameStep(e, w["next_axes"])
    [] t = "same_gate"             -> SameGate(s["same"], w["same_step"])
    [] t = "same_acceptance_gate"  -> SameAcceptance(s["same_acceptance"], w["first_acceptance_gate"], w["same_gate"])
    [] t = "same_next_axes"        -> SameNextAxes(w["candidates"], w["same_acceptance_gate"])
    [] t = "final_step"            -> FinalStep(e, w["same_next_axes"])
    [] t = "final_gate"            -> FinalGate(s["final"], w["final_step"])
    [] t = "final_acceptance_gate" -> FinalAcceptance(s["final_acceptance"], w["same_acceptance_gate"], w["final_gate"])
    [] t = "exhaustion_axes"       -> ExhaustionAxes(e, w["final_acceptance_gate"])

INSTANCE CampaignFiles
-----------------------------------------------------------------------------
SetFirstSurface == SetProfile("first")
SetFirstAcceptance == SetProfile("first_acceptance")
SetSameFamily == SetProfile("same")
SetSameAcceptance == SetProfile("same_acceptance")
SetFinalSameFamily == SetProfile("final")
SetFinalAcceptance == SetProfile("final_acceptance")

ShownBy(e) ==
  {d \in Designs :
     \/ d = EH1 /\ Wins(e.surface[d], 5)
     \/ d = EH2 /\ Wins(e.surface[d], 4)
     \/ d = EL2 /\ Wins(e.surface[d], 6)}

Init == FilesInit /\ won = ShownBy(evidence)

Step ==
  \/ RunTool \/ ToolKilled \/ Measure
  \/ SetFirstSurface \/ SetFirstAcceptance
  \/ SetSameFamily \/ SetSameAcceptance
  \/ SetFinalSameFamily \/ SetFinalAcceptance

Next == Step /\ won' = won \cup ShownBy(evidence')

Spec == Init /\ [][Next]_<<vars, won>>
FairSpec == Spec /\ Refreshed
-----------------------------------------------------------------------------
\* Type correctness: reports carry the statuses of their tools, and a gate
\* names a profile of its chain.
TypeOK ==
  /\ \A c \in Chains : selection[c] \in ProfilesOf[c] \cup {TornSelection}
  /\ evidence \in Evidence \cup Arriving
  /\ cut \subseteq Chains
  /\ \A c \in Chains : Intact(work[Gate(c)]) =>
       /\ work[Gate(c)].profile \in ProfilesOf[c]
       /\ work[Gate(c)].design \in Designs \cup {""}

\* A gate's file was computed for the profile that selection.json names.  Only
\* a setter killed between its two files (apply_profile) can part them, and the
\* next run of the setter or of the gate's audit joins them again.
GateTellsSelection ==
  \A c \in Chains \ cut :
    Intact(work[Gate(c)]) => work[Gate(c)].profile = selection[c]

\* However old the files are that an acceptance was computed from, a win of its
\* design at the profile's threshold was measured some time before: no order of
\* tools, setters, kills and new measurements accepts a surface never won.
AcceptedWasWon ==
  \A c \in {"first_acceptance", "same_acceptance", "final_acceptance"} :
    work[Gate(c)].status = "accepted" => work[Gate(c)].design \in won

\* Once no tool has anything new to write and no setter is left half done, leaving the family for another
\* rests on the present state of everything below it: the C910 branch has
\* opened the family, the three designs bootstrap with EH1 the smallest, and
\* each has a hybrid win its selected profile asks for.
LeavingIsBacked ==
  (Settled /\ cut = {} /\ work["exhaustion_axes"].status = "decide_open_next_non_veer_family") =>
    /\ evidence.runtime = "open_fallback_family_ready"
    /\ evidence.bootstrapped = Designs
    /\ evidence.footprint = <<EH1, EH2, EL2>>
    /\ ShownBy(evidence) = Designs
    /\ \A c \in {"first_acceptance", "same_acceptance", "final_acceptance"} :
         selection[c] = "accept"

\* When the operator stops choosing and measuring, re-running the tools settles
\* the files for good, so a withdrawn acceptance reaches every file above it.
RefreshSettles == <>[][RunTool]_vars => <>[]Settled

=============================================================================
