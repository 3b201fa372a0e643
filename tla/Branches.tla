------------------------------- MODULE Branches -------------------------------
(***************************************************************************)
(* The campaign after VeeR: OpenPiton as the fallback of XiangShan,        *)
(* BlackParrot, and the two branches Vortex and XiangShan, each of which   *)
(* can recommend to give up for the other.  Twenty-four audit tools and   *)
(* seven setters.  Their files form cycles: the Vortex gate is read by     *)
(* XiangShan's status, that by the axes after OpenPiton, those by          *)
(* BlackParrot's step, that by the axes after BlackParrot, and those by    *)
(* the Vortex gate.                                                        *)
(***************************************************************************)
EXTENDS SurfaceGates, CaliptraTactics, Naturals, Sequences, Functions

CONSTANTS
  Choices, Evidence, Arriving, Fragile,
  Probings,  \* the states of the probes of Caliptra, by the names evidence.probes has for them
  Order,     \* the order in which the tools were run at first
  Followed   \* bound: whether the operator only follows the resolution

VARIABLES selection, evidence, work, cut

\* branch_mode of config/campaign_vortex_first_surface.
Debug == "debug_vortex_tls_lowering"
Reopen == "reopen_xiangshan_fallback_family"
HoldBranch == "hold_vortex_first_surface_branch"

Profile ==
  [vortex_candidate |-> Candidate("Vortex", 4), vortex_hold |-> Hold("Vortex"),
   xiangshan_candidate |-> Candidate("XiangShan", 2), xiangshan_hold |-> Hold("XiangShan")]

CheckedIn ==
  [vortex |-> Debug, vortex_policy |-> "vortex_candidate", vortex_acceptance |-> "accept",
   xiangshan |-> "xiangshan_candidate", xiangshan_acceptance |-> "accept",
   openpiton |-> "default_gate", openpiton_acceptance |-> "accept"]
Chains == DOMAIN CheckedIn

Gate(c) ==
  [vortex |-> "vortex_gate", vortex_policy |-> "vortex_policy_gate",
   vortex_acceptance |-> "vortex_acceptance_gate", xiangshan |-> "xiangshan_gate",
   xiangshan_acceptance |-> "xiangshan_acceptance_gate", openpiton |-> "openpiton_gate",
   openpiton_acceptance |-> "openpiton_acceptance_gate"][c]

ProfilesOf ==
  [vortex |-> {Debug, Reopen, HoldBranch},
   vortex_policy |-> {"vortex_candidate", "vortex_hold"}, vortex_acceptance |-> {"accept", "hold"},
   xiangshan |-> {"xiangshan_candidate", "xiangshan_hold"}, xiangshan_acceptance |-> {"accept", "hold"},
   openpiton |-> {"default_gate", "default_gate_hold"}, openpiton_acceptance |-> {"accept", "hold"}]

ASSUME ChoicesAssumption == \A c \in Chains : Choices[c] \subseteq ProfilesOf[c]
ASSUME EvidenceAssumption ==
  \A e \in Evidence \cup Arriving : \A d \in {"OpenPiton", "BlackParrot", "Vortex", "XiangShan"} :
    e.surface[d].default \in Comparisons
ASSUME ProbingsAssumption == \A n \in DOMAIN Probings : Probings[n] \in ProbeEvidence

\* Files read with a plain _read_json, and those read only if they exist.
NeedsOf ==
  [vortex_status |-> {}, vortex_gate |-> {"vortex_status", "post_blackparrot_axes"},
   vortex_profiles |-> {"vortex_status", "post_blackparrot_axes"},
   vortex_deeper |-> {"xiangshan_acceptance_gate", "vortex_status"},
   vortex_tactics |-> {"vortex_status", "vortex_gate"},
   vortex_step |-> {}, vortex_policy_gate |-> {"vortex_step"},
   vortex_acceptance_gate |-> {"vortex_gate", "vortex_policy_gate"},
   xiangshan_status |-> {}, xiangshan_tactics |-> {"xiangshan_status"},
   resolution |-> {"vortex_gate", "xiangshan_status", "xiangshan_tactics", "vortex_tactics"},
   xiangshan_deeper |-> {"resolution"}, xiangshan_step |-> {}, xiangshan_gate |-> {"xiangshan_step"},
   xiangshan_acceptance_gate |-> {"vortex_gate", "xiangshan_gate"},
   openpiton_step |-> {}, openpiton_gate |-> {"openpiton_step"},
   openpiton_acceptance_gate |-> {"xiangshan_status", "openpiton_gate"},
   post_openpiton_axes |-> {"openpiton_acceptance_gate"}, blackparrot_step |-> {},
   post_blackparrot_axes |-> {}, post_vortex_axes |-> {"vortex_acceptance_gate"},
   caliptra_status |-> {}, caliptra_tactics |-> {"caliptra_status"}]
Tools == DOMAIN NeedsOf
Needs(t) == NeedsOf[t]

Optional(t) ==
  CASE t = "vortex_status"       -> {"post_blackparrot_axes"}
    [] t = "vortex_gate"         -> {"xiangshan_status"}
    [] t = "vortex_profiles"     -> {"xiangshan_status", "vortex_tactics"}
    [] t = "vortex_tactics"      -> {"vortex_acceptance_gate", "vortex_deeper"}
    [] t = "xiangshan_status"    -> {"vortex_gate"}
    [] t = "xiangshan_tactics"   -> {"vortex_profiles"}
    [] t = "resolution"          -> {"vortex_acceptance_gate", "post_vortex_axes"}
    [] t = "post_openpiton_axes" -> {"xiangshan_status"}
    [] t = "caliptra_status"     -> {"post_vortex_axes"}
    [] OTHER                     -> {}

Consults(t) == IF t = "vortex_profiles" THEN {"vortex"} ELSE {}
Attended == Tools

ASSUME OrderAssumption == Order \in Seq(Tools)
-----------------------------------------------------------------------------
\* A decision that names the family to open and the one to fall back on.
Opens(status, family, fallback) == [status |-> status, family |-> family, fallback |-> fallback]

Recommends(axes, family) == Present(axes) /\ axes.family = family

\* OpenPiton, the fallback of the axes that left VeeR.
OpenPitonStep(e, upstream) ==
  LET c == e.surface["OpenPiton"].default
  IN  [status |-> IF ~Present(upstream) \/ upstream.fallback # "OpenPiton" THEN "blocked_not_fallback"
                  ELSE [none |-> "run_trio", hybrid |-> "ready_to_accept_default_gate",
                        baseline |-> "baseline_win", unready |-> "unresolved"][c]]

OpenPitonGate(name, step) ==
  [profile |-> name,
   status |-> CASE step.status # "ready_to_accept_default_gate" -> "default_gate_blocked"
                [] step.status = "ready_to_accept_default_gate" /\ name = "default_gate_hold" -> "default_gate_hold"
                [] step.status = "ready_to_accept_default_gate" /\ name = "default_gate" -> "default_gate_ready"]

\* An acceptance that looks at what must come first only if it cannot accept.
LateAcceptance(name, upstream, ready) ==
  [profile |-> name,
   status |-> IF name = "accept" /\ ready THEN "accepted"
              ELSE IF ~upstream THEN "blocked_upstream"
              ELSE IF name = "hold" THEN "hold" ELSE "blocked_not_ready"]

OpenPitonAcceptance(name, xiangshan, gate) ==
  LateAcceptance(name, xiangshan.status = "decide_debug_vs_open_openpiton", gate.status = "default_gate_ready")

\* evidence.families is the inventory in the order of its scores; a blocked
\* family goes to the end.
PostOpenPitonAxes(e, acceptance, xiangshan) ==
  LET blocked == IF xiangshan.status = "decide_debug_vs_open_openpiton" THEN "XiangShan" ELSE ""
      open == Range(e.families) \ {blocked}
      next == FirstIn(e.families, open)
  IN  IF acceptance.status # "accepted" THEN Opens("blocked_openpiton_not_accepted", "", "")
      ELSE IF open = {} THEN Opens("revisit_blocked_branches", "", "")
      ELSE Opens("decide_open_next_family", next,
                 IF blocked # "" THEN blocked ELSE FirstIn(e.families, open \ {next}))

BlackParrotStep(e, axes) ==
  LET s == e.surface["BlackParrot"]
  IN  [status |->
         IF ~Recommends(axes, "BlackParrot") THEN "blocked_not_current_family"
         ELSE IF s.default = "none" THEN "run_trio"
         ELSE IF s.default = "hybrid" THEN "ready_to_accept_default_gate"
         ELSE IF s.candidate = "hybrid" THEN "decide_candidate_only"
         ELSE IF s.candidate = "baseline" THEN "candidate_only_baseline_win"
         ELSE IF s.default = "baseline" THEN "default_gate_baseline_win"
         ELSE "default_gate_unresolved"]

PostBlackParrotAxes(step) ==
  IF step.status = "candidate_only_baseline_win"
  THEN Opens("decide_open_next_family_after_loss", "Vortex", "XiangShan")
  ELSE Opens("blocked_not_active", "", "")
-----------------------------------------------------------------------------
\* Vortex.  evidence.vortex: bootstrap and baseline ok, a module built, the
\* builds whose log shows the TLS fault, and how far the bypass came.
VortexStatus(e, axes) ==
  LET v == e.vortex
      runs == Recommends(axes, "Vortex") /\ v.runs
  IN  [tls |-> "default" \in v.tls,
       status |-> IF runs /\ v.built THEN "ready_to_finish_trio"
                  ELSE IF runs /\ "default" \in v.tls THEN "decide_debug_vs_reopen_xiangshan"
                  ELSE "repair"]

VortexBranch(name, status, axes) ==
  IF axes.status # "decide_open_next_family_after_loss" THEN "blocked_branch_not_active"
  ELSE IF axes.family # "Vortex" THEN "blocked_not_vortex"
  ELSE CASE name = HoldBranch -> "hold"
         [] name = Debug -> (IF status.status = "decide_debug_vs_reopen_xiangshan" THEN "debug_ready"
                             ELSE IF status.status = "ready_to_finish_trio" THEN "recovered"
                             ELSE "blocked_debug_not_ready")
         [] name = Reopen -> IF axes.fallback = "XiangShan" THEN "reopen_ready" ELSE "blocked_no_fallback"

VortexGate(name, status, axes) == [profile |-> name, status |-> VortexBranch(name, status, axes)]

\* Every profile is tried on the gate's rule.
VortexProfiles(current, status, axes, tactics) ==
  LET ready == {p \in ProfilesOf["vortex"] :
                  VortexBranch(p, status, axes) \in {"debug_ready", "recovered", "reopen_ready"}}
      prefer == IF tactics.status # "missing" /\ tactics.tactic = Reopen /\ Reopen \in ready THEN Reopen
                ELSE IF Debug \in ready THEN Debug
                ELSE IF Reopen \in ready THEN Reopen ELSE ""
  IN  [status |-> IF prefer = "" THEN "repair_profiles"
                  ELSE IF prefer = current THEN "accept_current_profile" ELSE "choose_profile",
       profile |-> prefer]

VortexDeeper(e, xiangshan, status) ==
  [status |-> IF xiangshan.status # "accepted" THEN "accept_xiangshan_first"
              ELSE IF status.status # "decide_debug_vs_reopen_xiangshan" \/ e.vortex.bypass = "none" THEN "repair_first"
              ELSE IF e.vortex.bypass = "abi_mismatch" THEN "ready_for_dpi_wrapper_debug"
              ELSE "continue_collecting"]

\* What a branch advises: a tactic, of which only these matter to others.
Advice(status, tactic) == [status |-> status, tactic |-> tactic]

\* Mutation: the branch that is selected is not asked for.
VortexTacticsOfStatus(e, status, gate, acceptance, deeper) ==
  IF acceptance.status = "accepted" THEN Advice("already_accepted", "post_vortex_axes")
  ELSE IF deeper.status = "ready_for_dpi_wrapper_debug" THEN Advice("continue_with_dpi_wrapper_debug", "deeper_vortex_dpi_wrapper_debug")
  ELSE IF status.status = "decide_debug_vs_reopen_xiangshan" /\ status.tls /\ {"O0", "O1"} \subseteq e.vortex.tls
       THEN Advice("prefer_reopen_xiangshan", Reopen)
  ELSE Advice("deeper_tls_debug", "deeper_vortex_debug")

VortexTactics(e, status, gate, acceptance, deeper) ==
  IF acceptance.status = "accepted" THEN Advice("already_accepted", "post_vortex_axes")
  ELSE IF gate.profile # Debug THEN Advice("select_branch_first", "choose_profile")
  ELSE IF gate.status = "recovered" /\ status.status = "ready_to_finish_trio" THEN Advice("ready_to_finish_trio", "finish_vortex")
  ELSE IF gate.status # "debug_ready" THEN Advice("repair_branch", "repair")
  ELSE IF deeper.status = "ready_for_dpi_wrapper_debug" THEN Advice("continue_with_dpi_wrapper_debug", "deeper_vortex_dpi_wrapper_debug")
  ELSE IF status.status = "decide_debug_vs_reopen_xiangshan" /\ status.tls /\ {"O0", "O1"} \subseteq e.vortex.tls
       THEN Advice("prefer_reopen_xiangshan", Reopen)
  ELSE Advice("deeper_tls_debug", "deeper_vortex_debug")

VortexStep(e, status) ==
  IF status.status # "ready_to_finish_trio" THEN Blocked("blocked_not_ready", "Vortex")
  ELSE SurfaceStep("Vortex", e.surface["Vortex"])

VortexPolicyGate(name, step) == PolicyReport(name, Profile[name], step)

\* Mutation: a ready policy is accepted before the branch is looked at.
VortexAcceptanceLate(name, branch, policy) ==
  LateAcceptance(name, branch.status = "recovered", policy.status \in ReadyStatuses)

VortexAcceptance(name, branch, policy) ==
  [profile |-> name,
   status |-> AcceptanceStatus(branch.status = "recovered", name = "accept", policy.status, ReadyStatuses)]

\* evidence.later is the inventory without the families opened so far.
PostVortexAxes(e, acceptance) ==
  IF acceptance.status # "accepted" THEN Opens("blocked_vortex_not_accepted", "", "")
  ELSE IF e.later = <<>> THEN Opens("revisit_blocked_branches", "", "")
  ELSE Opens("decide_open_next_family_after_vortex", e.later[1], IF Len(e.later) > 1 THEN e.later[2] ELSE "")

CaliptraStatus(e, axes) ==
  [status |-> IF ~Recommends(axes, "Caliptra") \/ e.caliptra = "repair" THEN "repair" ELSE e.caliptra]
-----------------------------------------------------------------------------
\* XiangShan.  evidence.exhaustion: what the axes that left VeeR recommend;
\* evidence.xiangshan: bootstrap and baseline ok, the last stage of the smoke
\* run, the result of the ptxas probe, and what the packaging probes show.
XiangShanStatus(e, vortex) ==
  LET x == e.xiangshan
      reopened == vortex.status = "reopen_ready"
      stalled == x.boot /\ x.base /\ x.trace = "stalled"
  IN  [status |-> IF reopened /\ stalled THEN "decide_debug_vs_reopen_vortex"
                  ELSE IF e.exhaustion.family = "XiangShan" /\ stalled THEN "decide_debug_vs_open_openpiton"
                  ELSE IF x.base /\ x.trace = "loaded" THEN "ready_to_finish_trio"
                  ELSE "repair",
       reopened |-> reopened, fallback |-> e.exhaustion.fallback]

XiangShanTactics(e, status) ==
  IF ~status.reopened THEN Advice("select_branch_first", Reopen)
  ELSE IF status.status = "ready_to_finish_trio" THEN Advice("ready_to_finish_trio", "finish_xiangshan")
  ELSE IF status.status # "decide_debug_vs_reopen_vortex" THEN Advice("repair_branch", "repair")
  ELSE IF e.xiangshan.ptxas = "failed" THEN Advice("prefer_reopen_vortex", "reopen_vortex_debug")
  ELSE Advice("continue_debug", "offline_xiangshan_debug")

Resolution(gate, acceptance, xiangshan, vortex) ==
  LET loop == xiangshan.tactic = "reopen_vortex_debug" /\ vortex.tactic = Reopen
  IN  IF acceptance.status = "accepted" THEN Advice("follow_post_vortex_axes", "post_vortex_axes")
      ELSE CASE gate.profile = Reopen /\ loop -> Advice("avoid_loop_keep_xiangshan", "deeper_xiangshan_debug")
             [] gate.profile = Debug /\ loop -> Advice("avoid_loop_keep_vortex", "deeper_vortex_debug")
             [] gate.profile = Reopen /\ ~loop -> Advice("follow_xiangshan", xiangshan.tactic)
             [] gate.profile = Debug /\ ~loop -> Advice("follow_vortex", vortex.tactic)
             [] gate.profile = HoldBranch -> Advice("repair_context", "repair")

\* Mutation: the packaging probes alone decide.
XiangShanDeeperAlone(e, resolution) ==
  [status |-> CASE e.xiangshan.probes = "linked" -> "ready_to_finish_trio"
                [] e.xiangshan.probes = "population" -> "ready_for_link_population_debug"
                [] e.xiangshan.probes = "symbols" -> "ready_for_symbol_export_debug"
                [] e.xiangshan.probes = "none" -> "continue_collecting"]

XiangShanDeeper(e, resolution) ==
  [status |-> IF resolution.tactic # "deeper_xiangshan_debug" THEN "follow_branch_resolution_first"
              ELSE CASE e.xiangshan.probes = "linked" -> "ready_to_finish_trio"
                     [] e.xiangshan.probes = "population" -> "ready_for_link_population_debug"
                     [] e.xiangshan.probes = "symbols" -> "ready_for_symbol_export_debug"
                     [] e.xiangshan.probes = "none" -> "continue_collecting"]

XiangShanStep(e, deeper) ==
  IF deeper.status # "ready_to_finish_trio" THEN Blocked("blocked_not_ready", "XiangShan")
  ELSE SurfaceStep("XiangShan", e.surface["XiangShan"])

XiangShanGate(name, step) == PolicyReport(name, Profile[name], step)

XiangShanAcceptance(name, vortex, gate) ==
  LateAcceptance(name, vortex.status = "reopen_ready", gate.status \in ReadyStatuses)

Report(t, s, e, w) ==
  CASE t = "vortex_status"     -> VortexStatus(e, w["post_blackparrot_axes"])
    [] t = "vortex_gate"       -> VortexGate(s["vortex"], w["vortex_status"], w["post_blackparrot_axes"])
    [] t = "vortex_profiles"   ->
         VortexProfiles(s["vortex"], w["vortex_status"], w["post_blackparrot_axes"], w["vortex_tactics"])
    [] t = "vortex_deeper"     -> VortexDeeper(e, w["xiangshan_acceptance_gate"], w["vortex_status"])
    [] t = "vortex_tactics"    ->
         VortexTactics(e, w["vortex_status"], w["vortex_gate"], w["vortex_acceptance_gate"], w["vortex_deeper"])
    [] t = "vortex_step"       -> VortexStep(e, w["vortex_status"])
    [] t = "vortex_policy_gate" -> VortexPolicyGate(s["vortex_policy"], w["vortex_step"])
    [] t = "vortex_acceptance_gate" ->
         VortexAcceptance(s["vortex_acceptance"], w["vortex_gate"], w["vortex_policy_gate"])
    [] t = "xiangshan_status"  -> XiangShanStatus(e, w["vortex_gate"])
    [] t = "xiangshan_tactics" -> XiangShanTactics(e, w["xiangshan_status"])
    [] t = "resolution"        ->
         Resolution(w["vortex_gate"], w["vortex_acceptance_gate"], w["xiangshan_tactics"], w["vortex_tactics"])
    [] t = "xiangshan_deeper"  -> XiangShanDeeper(e, w["resolution"])
    [] t = "xiangshan_step"    -> XiangShanStep(e, w["xiangshan_deeper"])
    [] t = "xiangshan_gate"    -> XiangShanGate(s["xiangshan"], w["xiangshan_step"])
    [] t = "xiangshan_acceptance_gate" ->
         XiangShanAcceptance(s["xiangshan_acceptance"], w["vortex_gate"], w["xiangshan_gate"])
    [] t = "openpiton_step"    -> OpenPitonStep(e, w["xiangshan_status"])
    [] t = "openpiton_gate"    -> OpenPitonGate(s["openpiton"], w["openpiton_step"])
    [] t = "openpiton_acceptance_gate" ->
         OpenPitonAcceptance(s["openpiton_acceptance"], w["xiangshan_status"], w["openpiton_gate"])
    [] t = "post_openpiton_axes" -> PostOpenPitonAxes(e, w["openpiton_acceptance_gate"], w["xiangshan_status"])
    [] t = "blackparrot_step"  -> BlackParrotStep(e, w["post_openpiton_axes"])
    [] t = "post_blackparrot_axes" -> PostBlackParrotAxes(w["blackparrot_step"])
    [] t = "post_vortex_axes"  -> PostVortexAxes(e, w["vortex_acceptance_gate"])
    [] t = "caliptra_status"   -> CaliptraStatus(e, w["post_vortex_axes"])
    [] t = "caliptra_tactics"  -> CaliptraTactics(Probings[e.probes], w["caliptra_status"])

INSTANCE CampaignFiles
-----------------------------------------------------------------------------
SetVortex == SetProfile("vortex")
SetVortexPolicy == SetProfile("vortex_policy")
SetVortexAcceptance == SetProfile("vortex_acceptance")
SetXiangShan == SetProfile("xiangshan")
SetXiangShanAcceptance == SetProfile("xiangshan_acceptance")
SetOpenPiton == SetProfile("openpiton")
SetOpenPitonAcceptance == SetProfile("openpiton_acceptance")

\* _branch_profile_for_tactic.
ProfileForTactic(tactic) ==
  CASE tactic \in {"reopen_vortex_debug", "deeper_vortex_debug"} -> Debug
    [] tactic \in {Reopen, "deeper_xiangshan_debug"} -> Reopen
    [] OTHER -> ""

\* The operator who does what the branch resolution says.
Follow ==
  /\ Followed
  /\ Intact(work["resolution"])
  /\ ProfileForTactic(work["resolution"].tactic) \in ProfilesOf["vortex"] \ {selection["vortex"]}
  /\ Apply("vortex", ProfileForTactic(work["resolution"].tactic))

Init ==
  /\ selection = CheckedIn
  /\ evidence \in Evidence
  /\ work = RunInOrder(Order, CheckedIn, evidence)
  /\ cut = {}

Next ==
  \/ RunTool \/ ToolKilled \/ Measure \/ Follow
  \/ SetVortex \/ SetVortexPolicy \/ SetVortexAcceptance
  \/ SetXiangShan \/ SetXiangShanAcceptance
  \/ SetOpenPiton \/ SetOpenPitonAcceptance

Spec == Init /\ [][Next]_vars

\* Tools are refreshed, and the resolution is followed once the files it rests
\* on are up to date for long enough.
FairSpec == Spec /\ Refreshed /\ SF_vars(Settled /\ Follow)
-----------------------------------------------------------------------------
\* Type correctness: a gate names a profile of its chain, the axes after
\* BlackParrot name the two branches or none.
TypeOK ==
  /\ \A c \in Chains : selection[c] \in ProfilesOf[c] \cup {TornSelection}
  /\ evidence \in Evidence \cup Arriving
  /\ \A c \in Chains : Intact(work[Gate(c)]) => work[Gate(c)].profile \in ProfilesOf[c]
  /\ Intact(work["post_blackparrot_axes"]) =>
       work["post_blackparrot_axes"].family \in {"", "Vortex"}

\* Up to date, with no setter left half done.
UpToDate == cut = {} /\ Settled

\* The loop of the two branches is seen only in files of different ages: once
\* every file is up to date, the two tactics do not recommend each other, because
\* each recommends to leave only the branch the gate is on.
LoopSeenOnlyInStaleFiles ==
  (UpToDate /\ Intact(work["resolution"])) =>
    work["resolution"].status \notin {"avoid_loop_keep_xiangshan", "avoid_loop_keep_vortex"}

\* XiangShan's step asks for a tactic that only a loop brings about: once every
\* file is up to date XiangShan is not accepted, whatever was measured.
AcceptedXiangShanIsStale ==
  UpToDate => work["xiangshan_acceptance_gate"].status # "accepted"

\* Once every file is up to date, accepting Vortex rests on the present state of
\* all below it: the branch is on Vortex and builds, the profile's win is there,
\* BlackParrot lost, and OpenPiton won.
AcceptedVortexIsBacked ==
  (UpToDate /\ work["vortex_acceptance_gate"].status = "accepted") =>
    /\ selection["vortex"] = Debug /\ selection["vortex_acceptance"] = "accept"
    /\ evidence.vortex.runs /\ evidence.vortex.built
    /\ Wins(evidence.surface["Vortex"], 4)
    /\ evidence.surface["BlackParrot"].candidate = "baseline"
    /\ evidence.surface["OpenPiton"].default = "hybrid"
    /\ selection["openpiton"] = "default_gate" /\ selection["openpiton_acceptance"] = "accept"

\* README.md: the branch resolution "now resolves that XiangShan/Vortex reopen
\* loop into one stable next tactic": who follows it stops changing the branch.
FollowingSettles == <>[][selection'["vortex"] = selection["vortex"]]_vars
=============================================================================
