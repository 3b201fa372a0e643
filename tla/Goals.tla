--------------------------------- MODULE Goals ---------------------------------
(***************************************************************************)
(* The campaign before VeeR, from the threshold policy to the runtime gate *)
(* of C910: thirty-five audit tools  and nine setters.  ThresholdPolicy    *)
(* and XuanTie say what each tool writes; this module puts them on the     *)
(* files of CampaignFiles.  Unlike the other setters, that of the          *)
(* threshold policy reads the selection it replaces and rewrites four      *)
(* files.                                                                  *)
(***************************************************************************)
EXTENDS ThresholdPolicy, XuanTie

CONSTANTS
  Choices, Evidence, Arriving, Fragile,
  Order,      \* the order in which the tools were run at first
  MaxSkipped  \* bound: how many files out of date a tool is run ahead of

VARIABLES selection, evidence, work, cut

CheckedIn ==
  [policy |-> "per_target_ready", entry |-> "xuantie_single_surface_e902",
   goal |-> "accept_checkpoint_and_seed", breadth |-> "e906_candidate_only_threshold2",
   breadth_acceptance |-> "accept", branch |-> "xuantie_continue_same_family",
   same |-> "c906_candidate", same_acceptance |-> "accept",
   c910 |-> "open_veer_fallback_family"]
Chains == DOMAIN CheckedIn

Gate(c) ==
  [policy |-> "policy_gate", entry |-> "entry_gate", goal |-> "goal_gate",
   breadth |-> "breadth_gate", breadth_acceptance |-> "breadth_acceptance_gate",
   branch |-> "branch_gate", same |-> "same_gate",
   same_acceptance |-> "same_acceptance_gate", c910 |-> "c910_gate"][c]

ProfilesOf ==
  [policy |-> DOMAIN Policies,
   entry |-> {"xuantie_single_surface_e902", "xuantie_family_pilot_hold"},
   goal |-> {"accept_checkpoint_and_seed", "accept_checkpoint_only", "hold_checkpoint_and_seed"},
   breadth |-> {"e906_candidate_only_threshold2", "e906_default_gate_hold", "xuantie_family_pilot_recovery"},
   breadth_acceptance |-> {"accept", "hold"},
   branch |-> {"xuantie_continue_same_family", "open_veer_fallback_family", "hold_post_e906_branch"},
   same |-> DOMAIN SameFamilyProfile, same_acceptance |-> {"accept", "hold"},
   c910 |-> {"open_veer_fallback_family", "debug_c910_hybrid_runtime", "hold_c910_runtime_branch"}]

ASSUME ChoicesAssumption == \A c \in Chains : Choices[c] \subseteq ProfilesOf[c]

\* The inventory is a ranking of families, each with one place.
ASSUME EvidenceAssumption ==
  \A e \in Evidence \cup Arriving :
    /\ \A p \in Lines : e.line[p].winner \in Comparisons
    /\ e.inventory \in Seq(STRING) /\ "" \notin Range(e.inventory)
    /\ \A i, j \in 1..Len(e.inventory) : e.inventory[i] = e.inventory[j] => i = j
    /\ e.pilot.left \in {"unreadable", "success", "no_bench", "failed", "none"}
    /\ e.pilot.bench \in BOOLEAN /\ e.pilot.tools \in BOOLEAN /\ e.shape.stock \in BOOLEAN
    /\ e.e906.blocked \in BOOLEAN

\* Files read with a plain _read_json, and those read only if they exist.
NeedsOf ==
  [options |-> {}, policy_gate |-> {"options"}, active_scoreboard |-> {"policy_gate"},
   next_kpi |-> {"policy_gate"}, checkpoint |-> {"active_scoreboard"},
   axes |-> {"checkpoint", "active_scoreboard", "next_kpi"},
   entry |-> {"axes"}, readiness |-> {"entry"}, override |-> {"readiness"},
   entry_gate |-> {"entry", "readiness", "override"},
   seed |-> {"checkpoint", "axes", "entry_gate"}, goal_gate |-> {"checkpoint", "seed"},
   breadth_status |-> {"goal_gate", "readiness", "override"}, breadth_gate |-> {"breadth_status"},
   breadth_acceptance_gate |-> {"goal_gate", "breadth_gate"},
   breadth_axes |-> {"goal_gate", "breadth_acceptance_gate", "axes"},
   branch_gate |-> {"breadth_axes"}, branch_profiles |-> {"breadth_axes"},
   branch_candidates |-> {"breadth_axes", "branch_profiles"},
   same_step |-> {"branch_gate", "branch_candidates"}, same_gate |-> {"same_step"},
   same_acceptance_gate |-> {"branch_gate", "same_gate"},
   same_next_axes |-> {"branch_candidates", "same_acceptance_gate"},
   c910_status |-> {}, c910_gate |-> {"c910_status", "same_next_axes"}, c910_split |-> {},
   c910_tactics |-> {"c910_status", "c910_gate"},
   c910_profiles |-> {"c910_status", "same_next_axes"},
   policy_matrix |-> {"options"}, entry_matrix |-> {"entry", "readiness", "override"},
   goal_matrix |-> {"checkpoint", "seed"}, breadth_matrix |-> {"breadth_status"},
   breadth_acceptance_matrix |-> {"goal_gate", "breadth_gate"}, same_matrix |-> {"same_step"},
   same_acceptance_matrix |-> {"branch_gate", "same_gate"}]
Tools == DOMAIN NeedsOf
Needs(t) == NeedsOf[t]

Optional(t) ==
  CASE t = "c910_tactics"  -> {"c910_split"}
    [] t = "c910_profiles" -> {"c910_tactics"}
    [] OTHER               -> {}

\* Each chain's matrix of profiles, audit_campaign_*_profiles.
MatrixOf ==
  [policy |-> "policy_matrix", entry |-> "entry_matrix", goal |-> "goal_matrix",
   breadth |-> "breadth_matrix", breadth_acceptance |-> "breadth_acceptance_matrix",
   branch |-> "branch_profiles", same |-> "same_matrix",
   same_acceptance |-> "same_acceptance_matrix", c910 |-> "c910_profiles"]

Consults(t) == {c \in Chains : MatrixOf[c] = t}
Attended == Tools

ASSUME OrderAssumption == Order \in Seq(Tools)

Report(t, s, e, w) ==
  CASE t = "options"           -> PolicyOptions(e)
    [] t = "policy_gate"       -> PolicyGate(s["policy"], w["options"])
    [] t = "active_scoreboard" -> ActiveScoreboard(w["policy_gate"], e)
    [] t = "next_kpi"          -> NextKpi(w["policy_gate"], e)
    [] t = "checkpoint"        -> Checkpoint(w["active_scoreboard"], e)
    [] t = "axes"              -> PostCheckpointAxes(w["checkpoint"], w["next_kpi"], e)
    [] t = "entry"             -> Entry(w["axes"], e)
    [] t = "readiness"         -> Readiness(w["entry"], e)
    [] t = "override"          -> OverrideCandidates(w["readiness"], e)
    [] t = "entry_gate"        -> EntryGate(s["entry"], w["entry"], w["readiness"], w["override"])
    [] t = "seed"              -> SeedStatus(w["checkpoint"], w["axes"], w["entry_gate"])
    [] t = "goal_gate"         -> GoalGate(s["goal"], w["checkpoint"], w["seed"])
    [] t = "breadth_status"    -> BreadthStatus(w["goal_gate"], w["readiness"], w["override"], e)
    [] t = "breadth_gate"      -> BreadthGate(s["breadth"], w["breadth_status"])
    [] t = "breadth_acceptance_gate" ->
         BreadthAcceptance(s["breadth_acceptance"], w["goal_gate"], w["breadth_gate"])
    [] t = "breadth_axes"      -> BreadthAxes(w["goal_gate"], w["breadth_acceptance_gate"], w["axes"])
    [] t = "branch_gate"       -> BranchGate(s["branch"], w["breadth_axes"])
    [] t = "branch_profiles"   -> BranchProfiles(s["branch"], w["breadth_axes"])
    [] t = "branch_candidates" -> BranchCandidates(w["breadth_axes"], w["branch_profiles"], e)
    [] t = "same_step"         -> SameFamilyStep(w["branch_gate"], w["branch_candidates"])
    [] t = "same_gate"         -> SameFamilyGate(s["same"], w["same_step"])
    [] t = "same_acceptance_gate" ->
         SameFamilyAcceptance(s["same_acceptance"], w["branch_gate"], w["same_gate"])
    [] t = "same_next_axes"    -> SameFamilyNextAxes(w["branch_candidates"], w["same_acceptance_gate"])
    [] t = "c910_status"       -> C910Status(e)
    [] t = "c910_gate"         -> C910Gate(s["c910"], w["c910_status"], w["same_next_axes"])
    [] t = "c910_split"        -> C910Split(e)
    [] t = "c910_tactics"      -> C910Tactics(w["c910_status"], w["c910_gate"], w["c910_split"])
    [] t = "c910_profiles"     ->
         C910Profiles(s["c910"], w["c910_status"], w["same_next_axes"], w["c910_tactics"])
    [] t = "policy_matrix"     -> PolicyMatrix(s["policy"], w["options"], e)
    [] t = "entry_matrix"      -> EntryMatrix(s["entry"], w["entry"], w["readiness"], w["override"])
    [] t = "goal_matrix"       -> GoalMatrix(s["goal"], w["checkpoint"], w["seed"])
    [] t = "breadth_matrix"    -> BreadthMatrix(s["breadth"], w["breadth_status"])
    [] t = "breadth_acceptance_matrix" ->
         BreadthAcceptanceMatrix(s["breadth_acceptance"], w["goal_gate"], w["breadth_gate"])
    [] t = "same_matrix"       -> SameFamilyMatrix(s["same"], w["same_step"])
    [] t = "same_acceptance_matrix" ->
         SameFamilyAcceptanceMatrix(s["same_acceptance"], w["branch_gate"], w["same_gate"])

INSTANCE CampaignFiles
-----------------------------------------------------------------------------
\* The files of set_campaign_threshold_policy after its selection, in the order
\* in which it writes them.
PolicyFiles == <<"policy_gate", "active_scoreboard", "next_kpi">>

\* What it would write: the reports of one profile, each from the one before.
PolicyReports(p) ==
  LET gate == PolicyGate(p, work["options"])
  IN  [policy_gate |-> gate, active_scoreboard |-> ActiveScoreboard(gate, evidence),
       next_kpi |-> NextKpi(gate, evidence)]

\* work with the first n of its files written.
PolicyWritten(p, n) ==
  [t \in Tools |-> IF \E i \in 1..n : PolicyFiles[i] = t THEN PolicyReports(p)[t] ELSE work[t]]

\* The paths of the selection are kept, so the old selection must parse.
ApplyPolicy(p) ==
  /\ selection["policy"] # TornSelection
  /\ Intact(work["options"])
  /\ selection' = Chosen("policy", p)
  /\ work' = PolicyWritten(p, 3)
  /\ cut' = cut \ {"policy"}
  /\ UNCHANGED evidence

\* Killed while it writes the selection, or after n of the files, the next one
\* torn or not.
ApplyPolicyKilled(p) ==
  /\ "policy_gate" \in Fragile
  /\ selection["policy"] # TornSelection
  /\ Intact(work["options"])
  /\ \/ /\ selection' = Chosen("policy", TornSelection)
        /\ UNCHANGED work
     \/ \E n \in 0..2 :
          /\ selection' = Chosen("policy", p)
          /\ \/ work' = PolicyWritten(p, n)
             \/ work' = [PolicyWritten(p, n) EXCEPT ![PolicyFiles[n + 1]] = Torn]
  /\ cut' = cut \cup {"policy"}
  /\ UNCHANGED evidence

SetThresholdPolicy == \E p \in Choices["policy"] : ApplyPolicy(p) \/ ApplyPolicyKilled(p)
SetEntry == SetProfile("entry")
SetGoalAcceptance == SetProfile("goal")
SetBreadth == SetProfile("breadth")
SetBreadthAcceptance == SetProfile("breadth_acceptance")
SetBranch == SetProfile("branch")
SetSameFamily == SetProfile("same")
SetSameFamilyAcceptance == SetProfile("same_acceptance")
SetC910Runtime == SetProfile("c910")

Init ==
  /\ selection = CheckedIn
  /\ evidence \in Evidence
  /\ work = RunInOrder(Order, CheckedIn, evidence)
  /\ cut = {}

\* The files out of date, and those of them that come before t in the order.
Behind == {t \in Attended : Readable(t) /\ ~Current(t)}
Place == [t \in Tools |-> CHOOSE i \in 1..Len(Order) : Order[i] = t]
SkippedFor(t, behind) == {u \in behind : Place[u] < Place[t]}

\* A run that would change nothing is left out.
RunSome ==
  \E behind \in {Behind} : \E t \in Attended \cap (behind \cup {Gate(c) : c \in cut}) :
    Cardinality(SkippedFor(t, behind)) <= MaxSkipped /\ Audit(t)

\* Bound: a selection changes once every file is up to date.
SetSome ==
  \/ SetThresholdPolicy \/ SetEntry \/ SetGoalAcceptance
  \/ SetBreadth \/ SetBreadthAcceptance \/ SetBranch
  \/ SetSameFamily \/ SetSameFamilyAcceptance \/ SetC910Runtime

Next ==
  \/ RunSome \/ ToolKilled \/ Measure
  \/ Settled /\ SetSome

Spec == Init /\ [][Next]_vars
-----------------------------------------------------------------------------
\* Type correctness: a gate names a profile of its chain, and the axes a family
\* of the inventory or none.
TypeOK ==
  /\ \A c \in Chains : selection[c] \in ProfilesOf[c] \cup {TornSelection}
  /\ evidence \in Evidence \cup Arriving
  /\ \A c \in Chains : Intact(work[Gate(c)]) => work[Gate(c)].profile \in ProfilesOf[c]
  /\ Intact(work["axes"]) => work["axes"].family \in {""} \cup Range(work["axes"].inventory)

\* Up to date, with no setter left half done.
UpToDate == cut = {} /\ Settled

\* An accepted goal rests on the present measurements: the comparisons of the
\* active line are all strong hybrid wins, at least five, of two families and as
\* many as the pool has designs, XuanTie is the best family to go on with, and
\* E902 is bootstrapped and wins.
GoalIsBacked ==
  work["goal_gate"].status = "accepted_checkpoint_and_seed" /\ Intact(work["policy_gate"]) =>
    LET line == work["policy_gate"].paths
    IN  /\ selection["goal"] = "accept_checkpoint_and_seed"
        /\ selection["entry"] = "xuantie_single_surface_e902"
        /\ \A p \in line : evidence.line[p].winner \in {"hybrid", "none", "unready"}
        /\ \A p \in line : evidence.line[p].winner = "hybrid" => evidence.line[p].strong
        /\ LET won == {p \in line : evidence.line[p].winner = "hybrid"}
           IN  Cardinality(won) >= CheckpointSurfaces /\ Cardinality(won) >= evidence.pool
        /\ Cardinality({LineFamily(p) : p \in line}) >= 2
        /\ evidence.inventory # <<>> /\ evidence.inventory[1] = "XuanTie"
        /\ "XuanTie-E902" \in DOMAIN evidence.boot
        /\ evidence.surface["XuanTie-E902"].default = "hybrid"

\* E906 as it was accepted: by its win at threshold 2 as the second of the pilot's
\* designs, by a default gate that no case fails, or by a pilot that can be run.
BreadthIsBacked ==
  /\ selection["breadth"] = "e906_candidate_only_threshold2" =>
       /\ evidence.e906.blocked /\ evidence.e906.two = "hybrid"
       /\ ~evidence.shape.stock /\ evidence.pilot.left \in {"no_bench", "none"}
  /\ selection["breadth"] = "e906_default_gate_hold" => ~evidence.e906.blocked
  /\ selection["breadth"] = "xuantie_family_pilot_recovery" =>
       ~evidence.shape.stock /\ evidence.pilot.left = "none" /\ evidence.pilot.tools

\* Opening VeeR for C910 rests on all below it: the goal, E906 and C906 are
\* accepted as measured, and VeeR is the next family.
VeerIsBacked ==
  work["c910_gate"].status = "open_fallback_family_ready" =>
    /\ work["goal_gate"].status = "accepted_checkpoint_and_seed"
    /\ \A c \in {"breadth_acceptance", "branch", "same_acceptance", "c910"} : selection[c] = CheckedIn[c]
    /\ BreadthIsBacked
    /\ evidence.inventory[2] = "VeeR" /\ evidence.fallback_runner
    /\ Wins(evidence.surface["XuanTie-C906"], 5)

\* A matrix that says to go on with the selected profile and the gate of that
\* profile, two files, agree that it is open.
OpenStatuses ==
  {"single_surface_ready", "single_surface_trio_ready", "family_pilot_ready", "accepted",
   "accepted_checkpoint_and_seed", "continue_same_family_ready", "open_fallback_family_ready",
   "debug_ready", "recovered"} \cup ReadyStatuses
AdviceIsBacked ==
  \A c \in Chains \ {"policy"} :
    work[MatrixOf[c]].status = "accept_current" => work[Gate(c)].status \in OpenStatuses

\* Once every file is up to date, no gate of the campaign opens a branch on
\* measurements that are gone, and no matrix advises to go on with one that is
\* not open.
DecisionsAreBacked == (GoalIsBacked /\ VeerIsBacked /\ AdviceIsBacked) \/ ~UpToDate

\* The matrix of C910's profiles recommends VeeR while debugging is possible
\* only from tactics that are out of date: the tactics advise VeeR only to who
\* has selected debugging, so who follows the matrix sees it withdrawn.
VeerAdviceIsStale ==
  LET p == work["c910_profiles"]
  IN  (/\ selection["c910"] = "open_veer_fallback_family" /\ Intact(p)
       /\ p.recommended # "debug_c910_hybrid_runtime"
       /\ C910Outcome("debug_c910_hybrid_runtime", work["c910_status"], work["same_next_axes"]) = "debug_ready")
        => ~UpToDate
=============================================================================
