--------------------------- MODULE Goals_proofs -----------------------------
(***************************************************************************)
(* Proofs about the campaign before VeeR.                                  *)
(***************************************************************************)
EXTENDS Goals, WellFoundedInduction, FiniteSetTheorems, TLAPS

\* One tool of an order is run on the files w.
Ran(w, t, s, e) ==
  IF \A n \in Needs(t) : Intact(w[n]) THEN [w EXCEPT ![t] = Report(t, s, e, w)] ELSE w

NoFiles == [t \in Tools |-> Missing]

\* f has the files after each of the first n tools of an order.
RunsTo(f, n, order, s, e) ==
  f = [i \in 0..n |-> IF i = 0 THEN NoFiles ELSE Ran(f[i - 1], order[i], s, e)]

\* A nonempty set of numbers up to n has a least one.
LEMMA Least ==
  ASSUME NEW n \in Nat, NEW T \in SUBSET (0..n), T # {}
  PROVE  \E t \in T : \A u \in T : t <= u
<1>. DEFINE below(t) == { i \in 0..n : i < t }
            belows == { below(t) : t \in T }
<1>1. belows \subseteq FiniteSubsetsOf(0..n) /\ belows # {}
  <2>1. IsFiniteSet(0..n)
    BY FS_Interval
  <2>2. \A t \in T : below(t) \in SUBSET (0..n) /\ IsFiniteSet(below(t))
    BY <2>1, FS_Subset
  <2>. QED
    BY <2>2 DEF FiniteSubsetsOf
<1>2. PICK m \in T : \A t \in T : <<below(t), below(m)>> \notin StrictSubsetOrdering(0..n)
  <2>1. IsWellFoundedOn(StrictSubsetOrdering(0..n), FiniteSubsetsOf(0..n))
    BY FS_StrictSubsetOrderingWellFounded
  <2>. HIDE DEF belows
  <2>2. \E x \in belows : \A y \in belows : ~(<<y, x>> \in StrictSubsetOrdering(0..n))
    BY <1>1, <2>1, WFMin
  <2>. QED
    BY <2>2 DEF belows
<1>3. ASSUME NEW t \in T, t < m  PROVE FALSE
  <2>1. below(t) \in SUBSET (0..n) /\ below(m) \in SUBSET (0..n)
    OBVIOUS
  <2>2. below(t) \subseteq below(m) /\ t \in below(m) /\ t \notin below(t)
    BY <1>3
  <2>. QED
    BY <1>2, <2>1, <2>2 DEF StrictSubsetOrdering
<1>. QED
  BY <1>3

\* The files after each of the first n tools of an order.
LEMMA FilesAfter ==
  ASSUME NEW order \in Seq(Tools), NEW s, NEW e
  PROVE  \A n \in 0..Len(order) :
           \E f : RunsTo(f, n, order, s, e)
<1>. DEFINE Has(n) == \E f : RunsTo(f, n, order, s, e)
            bad == {n \in 0..Len(order) : ~Has(n)}
<1>1. Has(0)
  <2>1. [i \in 0..0 |-> NoFiles] = [i \in 0..0 |-> IF i = 0 THEN NoFiles ELSE Ran([j \in 0..0 |-> NoFiles][i - 1], order[i], s, e)]
    OBVIOUS
  <2>. QED
    BY <2>1 DEF RunsTo
<1>2. ASSUME NEW n \in 1..Len(order), Has(n - 1) PROVE Has(n)
  <2>1. PICK f : f = [i \in 0..n - 1 |-> IF i = 0 THEN NoFiles ELSE Ran(f[i - 1], order[i], s, e)]
    BY <1>2 DEF RunsTo
  <2>. DEFINE g == [i \in 0..n |-> IF i < n THEN f[i] ELSE Ran(f[n - 1], order[n], s, e)]
  <2>2. \A i \in 0..n : g[i] = IF i = 0 THEN NoFiles ELSE Ran(g[i - 1], order[i], s, e)
    <3>. SUFFICES ASSUME NEW i \in 0..n PROVE g[i] = IF i = 0 THEN NoFiles ELSE Ran(g[i - 1], order[i], s, e)
      OBVIOUS
    <3>1. i # 0 => g[i - 1] = f[i - 1]
      OBVIOUS
    <3>2. i < n => f[i] = IF i = 0 THEN NoFiles ELSE Ran(f[i - 1], order[i], s, e)
      BY <2>1
    <3>. QED
      BY <3>1, <3>2
  <2>3. g = [i \in 0..n |-> IF i = 0 THEN NoFiles ELSE Ran(g[i - 1], order[i], s, e)]
    BY <2>2
  <2>. QED
    BY <2>3 DEF RunsTo
<1>. HIDE DEF Has
<1>3. ASSUME bad # {} PROVE FALSE
  <2>0. Len(order) \in Nat /\ bad \in SUBSET (0..Len(order))
    OBVIOUS
  <2>1. PICK m \in bad : \A n \in bad : m <= n
    <3>. HIDE DEF bad
    <3>. QED
      BY <1>3, <2>0, Least
  <2>2. m # 0
    BY <1>1
  <2>3. Has(m - 1)
    BY <2>1, <2>2
  <2>. QED
    BY <1>2, <2>2, <2>3
<1>. QED
  BY <1>3 DEF Has

\* Each step of the runs writes one file more.
LEMMA RunsOn ==
  ASSUME NEW n \in Nat, NEW f, NEW order, NEW s, NEW e, RunsTo(f, n, order, s, e), NEW i \in 1..n
  PROVE  f[i] = Ran(f[i - 1], order[i], s, e)
<1>. DEFINE next(j) == IF j = 0 THEN NoFiles ELSE Ran(f[j - 1], order[j], s, e)
<1>1. f = [j \in 0..n |-> next(j)]
  BY DEF RunsTo
<1>2. i \in 0..n /\ i # 0
  OBVIOUS
<1>3. f[i] = next(i)
  <2>. HIDE DEF next
  <2>. QED
    BY <1>1, <1>2
<1>. QED
  BY <1>2, <1>3

LEMMA OrderRuns ==
  ASSUME NEW order \in Seq(Tools), NEW s, NEW e
  PROVE  \E f : /\ RunsTo(f, Len(order), order, s, e)
                /\ RunInOrder(order, s, e) = f[Len(order)]
<1>. DEFINE after[i \in 0..Len(order)] ==
        IF i = 0 THEN [t \in Tools |-> Missing]
        ELSE LET w == after[i - 1]
                 t == order[i]
             IN  IF \A n \in Needs(t) : Intact(w[n])
                 THEN [w EXCEPT ![t] = Report(t, s, e, w)] ELSE w
<1>1. RunInOrder(order, s, e) = after[Len(order)]
  BY DEF RunInOrder
<1>2. ASSUME NEW f, RunsTo(f, Len(order), order, s, e)
      PROVE  RunsTo(after, Len(order), order, s, e)
  <2>1. f = [i \in 0..Len(order) |->
        IF i = 0 THEN [t \in Tools |-> Missing]
        ELSE LET w == f[i - 1]
                 t == order[i]
             IN  IF \A n \in Needs(t) : Intact(w[n])
                 THEN [w EXCEPT ![t] = Report(t, s, e, w)] ELSE w]
    BY <1>2 DEF RunsTo, NoFiles, Ran
  <2>2. after = [i \in 0..Len(order) |->
        IF i = 0 THEN [t \in Tools |-> Missing]
        ELSE LET w == after[i - 1]
                 t == order[i]
             IN  IF \A n \in Needs(t) : Intact(w[n])
                 THEN [w EXCEPT ![t] = Report(t, s, e, w)] ELSE w]
    BY <2>1
  <2>. QED
    BY <2>2 DEF RunsTo, NoFiles, Ran
<1>3. \E f : RunsTo(f, Len(order), order, s, e)
  <2>1. Len(order) \in 0..Len(order)
    OBVIOUS
  <2>. QED
    BY <2>1, FilesAfter
<1>. HIDE DEF after
<1>. QED
  BY <1>1, <1>2, <1>3

-----------------------------------------------------------------------------
(* Type correctness. *)

WellNamed(t, r) ==
  /\ \A c \in Chains : Gate(c) = t => r.profile \in ProfilesOf[c]
  /\ t = "axes" => r.family \in {""} \cup Range(r.inventory)

FilesNamed(w) ==
  /\ w = [t \in Tools |-> w[t]]
  /\ \A t \in Tools : Intact(w[t]) => WellNamed(t, w[t])

TInv ==
  /\ selection = [c \in Chains |-> selection[c]]
  /\ \A c \in Chains : selection[c] \in ProfilesOf[c] \cup {TornSelection}
  /\ \A c \in Chains : selection[c] = TornSelection => c \in cut
  /\ evidence \in Evidence \cup Arriving
  /\ FilesNamed(work)

LEMMA GateValues ==
  /\ Chains = {"policy", "entry", "goal", "breadth", "breadth_acceptance", "branch", "same",
               "same_acceptance", "c910"}
  /\ Gate("policy") = "policy_gate" /\ Gate("entry") = "entry_gate" /\ Gate("goal") = "goal_gate"
  /\ Gate("breadth") = "breadth_gate" /\ Gate("breadth_acceptance") = "breadth_acceptance_gate"
  /\ Gate("branch") = "branch_gate" /\ Gate("same") = "same_gate"
  /\ Gate("same_acceptance") = "same_acceptance_gate" /\ Gate("c910") = "c910_gate"
BY DEF Chains, CheckedIn, Gate

LEMMA ProfileValues ==
  /\ ProfilesOf["policy"] = {"per_target_ready", "per_target_blocked", "common_v1_hold"}
  /\ ProfilesOf["entry"] = {"xuantie_single_surface_e902", "xuantie_family_pilot_hold"}
  /\ ProfilesOf["goal"] = {"accept_checkpoint_and_seed", "accept_checkpoint_only", "hold_checkpoint_and_seed"}
  /\ ProfilesOf["breadth"]
       = {"e906_candidate_only_threshold2", "e906_default_gate_hold", "xuantie_family_pilot_recovery"}
  /\ ProfilesOf["breadth_acceptance"] = {"accept", "hold"}
  /\ ProfilesOf["branch"] = {"xuantie_continue_same_family", "open_veer_fallback_family", "hold_post_e906_branch"}
  /\ ProfilesOf["same"] = {"c906_candidate", "c906_hold"}
  /\ ProfilesOf["same_acceptance"] = {"accept", "hold"}
  /\ ProfilesOf["c910"] = {"open_veer_fallback_family", "debug_c910_hybrid_runtime", "hold_c910_runtime_branch"}
BY DEF ProfilesOf, Policies, SameFamilyProfile

\* A chain's gate is one tool, the gate of no other chain.
LEMMA GateIsTool ==
  \A c \in Chains : Gate(c) \in Tools /\ ChainsOf(Gate(c)) = {c}
<1>1. \A c \in Chains : Gate(c) \in Tools
  BY GateValues DEF Tools, NeedsOf
<1>2. \A c, d \in Chains : Gate(c) = Gate(d) => c = d
  BY GateValues
<1>. QED
  BY <1>1, <1>2 DEF ChainsOf

LEMMA CheckedInIsProfile ==
  /\ CheckedIn = [c \in Chains |-> CheckedIn[c]]
  /\ \A c \in Chains : CheckedIn[c] \in ProfilesOf[c]
<1>1. CheckedIn = [c \in Chains |-> CheckedIn[c]]
  BY DEF Chains, CheckedIn
<1>2. \A c \in Chains : CheckedIn[c] \in ProfilesOf[c]
  BY GateValues, ProfileValues DEF CheckedIn
<1>. QED
  BY <1>1, <1>2

\* "torn" is the name of no profile.
LEMMA ProfilesAreWhole == \A c \in Chains : TornSelection \notin ProfilesOf[c]
BY GateValues, ProfileValues DEF TornSelection

\* A gate names the profile it was computed for.
LEMMA GateNamesProfile ==
  ASSUME NEW c \in Chains, NEW s, NEW e, NEW w
  PROVE  Report(Gate(c), s, e, w).profile = s[c]
<1>1. CASE c = "policy"
  BY <1>1, GateValues DEF Report, PolicyGate
<1>2. CASE c = "entry"
  BY <1>2, GateValues DEF Report, EntryGate
<1>3. CASE c = "goal"
  BY <1>3, GateValues DEF Report, GoalGate
<1>4. CASE c = "breadth"
  BY <1>4, GateValues DEF Report, BreadthGate
<1>5. CASE c = "breadth_acceptance"
  BY <1>5, GateValues DEF Report, BreadthAcceptance, AcceptanceReport
<1>6. CASE c = "branch"
  BY <1>6, GateValues DEF Report, BranchGate
<1>7. CASE c = "same"
  BY <1>7, GateValues DEF Report, SameFamilyGate, PolicyReport
<1>8. CASE c = "same_acceptance"
  BY <1>8, GateValues DEF Report, SameFamilyAcceptance, AcceptanceReport
<1>9. CASE c = "c910"
  BY <1>9, GateValues DEF Report, C910Gate
<1>. QED
  BY <1>1, <1>2, <1>3, <1>4, <1>5, <1>6, <1>7, <1>8, <1>9, GateValues

\* The axes after the checkpoint name the best family of the inventory or none.
LEMMA AxesNamed ==
  ASSUME NEW checkpoint, NEW kpi, NEW e \in Evidence \cup Arriving
  PROVE  LET r == PostCheckpointAxes(checkpoint, kpi, e)
         IN  r.family \in {""} \cup Range(r.inventory)
<1>. DEFINE r == PostCheckpointAxes(checkpoint, kpi, e)
<1>1. r.inventory = e.inventory /\ e.inventory \in Seq(STRING)
  BY EvidenceAssumption DEF PostCheckpointAxes
<1>2. r.family = "" \/ (e.inventory # <<>> /\ r.family = e.inventory[1])
  BY DEF PostCheckpointAxes
<1>3. e.inventory # <<>> => e.inventory[1] \in Range(e.inventory)
  BY <1>1 DEF Range
<1>. QED
  BY <1>1, <1>2, <1>3

\* What a tool writes is named for the selection it was written for.
LEMMA ReportNamed ==
  ASSUME NEW t \in Tools, NEW s, \A c \in ChainsOf(t) : s[c] \in ProfilesOf[c],
         NEW e \in Evidence \cup Arriving, NEW w
  PROVE  WellNamed(t, Report(t, s, e, w))
<1>1. ASSUME NEW c \in Chains, Gate(c) = t
      PROVE  Report(t, s, e, w).profile \in ProfilesOf[c]
  BY <1>1, GateNamesProfile DEF ChainsOf
<1>2. ASSUME t = "axes"
      PROVE  Report(t, s, e, w).family \in {""} \cup Range(Report(t, s, e, w).inventory)
  <2>1. Report(t, s, e, w) = PostCheckpointAxes(w["checkpoint"], w["next_kpi"], e)
    BY <1>2 DEF Report
  <2>. QED
    BY <2>1, AxesNamed
<1>. QED
  BY <1>1, <1>2 DEF WellNamed

LEMMA WriteNamed ==
  ASSUME NEW w, FilesNamed(w), NEW t \in Tools, NEW r, Intact(r) => WellNamed(t, r)
  PROVE  FilesNamed([w EXCEPT ![t] = r])
BY DEF FilesNamed

\* One run of an order.
LEMMA RunNamed ==
  ASSUME NEW w, FilesNamed(w), NEW t \in Tools, NEW e \in Evidence \cup Arriving
  PROVE  FilesNamed(Ran(w, t, CheckedIn, e))
<1>. DEFINE r == Report(t, CheckedIn, e, w)
<1>1. WellNamed(t, r)
  BY ReportNamed, CheckedInIsProfile DEF ChainsOf
<1>. HIDE DEF r
<1>2. FilesNamed([w EXCEPT ![t] = r])
  BY <1>1, WriteNamed
<1>. QED
  BY <1>2 DEF Ran, r

\* The files once all of an order were run.
LEMMA OrderNamed ==
  ASSUME NEW order \in Seq(Tools), NEW e \in Evidence \cup Arriving
  PROVE  FilesNamed(RunInOrder(order, CheckedIn, e))
<1>1. PICK f : /\ RunsTo(f, Len(order), order, CheckedIn, e)
               /\ RunInOrder(order, CheckedIn, e) = f[Len(order)]
  BY OrderRuns
<1>. DEFINE bad == {i \in 0..Len(order) : ~FilesNamed(f[i])}
<1>2. Len(order) \in Nat
  OBVIOUS
<1>3. f[0] = NoFiles
  BY <1>1, <1>2 DEF RunsTo
<1>4. FilesNamed(f[0])
  BY <1>3 DEF FilesNamed, NoFiles, Intact
<1>5. ASSUME NEW i \in 1..Len(order), FilesNamed(f[i - 1]) PROVE FilesNamed(f[i])
  <2>1. f[i] = Ran(f[i - 1], order[i], CheckedIn, e)
    BY <1>1, <1>2, RunsOn
  <2>2. order[i] \in Tools
    OBVIOUS
  <2>. QED
    BY <1>5, <2>1, <2>2, RunNamed
<1>6. ASSUME bad # {} PROVE FALSE
  <2>1. bad \in SUBSET (0..Len(order))
    OBVIOUS
  <2>2. PICK m \in bad : \A i \in bad : m <= i
    <3>. HIDE DEF bad
    <3>. QED
      BY <1>2, <1>6, <2>1, Least
  <2>3. m # 0
    BY <1>4
  <2>4. FilesNamed(f[m - 1])
    BY <1>2, <2>2, <2>3
  <2>. QED
    BY <1>5, <2>3, <2>4
<1>7. FilesNamed(f[Len(order)])
  BY <1>2, <1>6
<1>. QED
  BY <1>1, <1>7

LEMMA TInit == Init => TInv
<1>. SUFFICES ASSUME Init PROVE TInv
  OBVIOUS
<1>1. FilesNamed(work)
  BY OrderNamed, OrderAssumption DEF Init
<1>2. \A c \in Chains : selection[c] # TornSelection
  BY CheckedInIsProfile, ProfilesAreWhole DEF Init
<1>. QED
  BY <1>1, <1>2, CheckedInIsProfile DEF Init, TInv

\* Of the parts of the invariant, those a step may disturb.
Kept ==
  /\ FilesNamed(work')
  /\ selection' = [c \in Chains |-> selection'[c]]
  /\ \A c \in Chains : selection'[c] \in ProfilesOf[c] \cup {TornSelection}
  /\ \A c \in Chains : selection'[c] = TornSelection => c \in cut'
  /\ evidence' \in Evidence \cup Arriving

LEMMA AuditKeeps ==
  ASSUME TInv, NEW t \in Tools, Audit(t)
  PROVE  Kept
<1>. DEFINE r == Report(t, selection, evidence, work)
<1>1. \A c \in ChainsOf(t) : selection[c] # TornSelection /\ selection[c] \in ProfilesOf[c]
  BY DEF Audit, Readable, ChainsOf, TInv
<1>2. WellNamed(t, r)
  BY <1>1, ReportNamed DEF TInv
<1>3. work' = [work EXCEPT ![t] = r] /\ UNCHANGED <<selection, evidence>> /\ cut' = cut \ ChainsOf(t)
  BY DEF Audit
<1>. HIDE DEF r
<1>4. FilesNamed(work')
  BY <1>2, <1>3, WriteNamed DEF TInv
<1>. QED
  BY <1>1, <1>3, <1>4 DEF Kept, TInv

LEMMA KillKeeps ==
  ASSUME TInv, NEW t \in Tools, AuditKilled(t)
  PROVE  Kept
<1>1. work' = [work EXCEPT ![t] = Torn] /\ UNCHANGED <<selection, evidence, cut>>
  BY DEF AuditKilled
<1>2. FilesNamed(work')
  BY <1>1, WriteNamed DEF TInv, Intact
<1>. QED
  BY <1>1, <1>2 DEF Kept, TInv

\* What a setter may leave of the selections, whichever chain it is of.
LEMMA SetterKeepsSelections ==
  ASSUME TInv, NEW c \in Chains, NEW p \in ProfilesOf[c],
         \/ selection' = Chosen(c, p) /\ cut' \in {cut \ {c}, cut \cup {c}}
         \/ selection' = Chosen(c, TornSelection) /\ cut' = cut \cup {c}
  PROVE  /\ selection' = [d \in Chains |-> selection'[d]]
         /\ \A d \in Chains : selection'[d] \in ProfilesOf[d] \cup {TornSelection}
         /\ \A d \in Chains : selection'[d] = TornSelection => d \in cut'
<1>1. /\ selection' = [d \in Chains |-> selection'[d]]
      /\ \A d \in Chains \ {c} : selection'[d] = selection[d]
      /\ \/ selection'[c] = p
         \/ selection'[c] = TornSelection /\ c \in cut'
      /\ cut \ {c} \subseteq cut'
  BY DEF Chosen, TInv
<1>. QED
  BY <1>1, ProfilesAreWhole DEF TInv

LEMMA ApplyKeeps ==
  ASSUME TInv, NEW c \in Chains, NEW p \in ProfilesOf[c], Apply(c, p)
  PROVE  Kept
<1>. DEFINE r == Report(Gate(c), Chosen(c, p), evidence, work)
<1>1. Chosen(c, p)[c] = p
  BY DEF Chosen, TInv
<1>2. WellNamed(Gate(c), r)
  BY <1>1, GateIsTool, ReportNamed DEF TInv
<1>3. work' = [work EXCEPT ![Gate(c)] = r] /\ selection' = Chosen(c, p) /\ cut' = cut \ {c} /\ UNCHANGED evidence
  BY DEF Apply
<1>. HIDE DEF r
<1>4. FilesNamed(work')
  BY <1>2, <1>3, GateIsTool, WriteNamed DEF TInv
<1>. QED
  BY <1>3, <1>4, SetterKeepsSelections DEF Kept, TInv

LEMMA ApplyKilledKeeps ==
  ASSUME TInv, NEW c \in Chains, NEW p \in ProfilesOf[c], ApplyKilled(c, p)
  PROVE  Kept
<1>1. /\ selection' = Chosen(c, p) \/ selection' = Chosen(c, TornSelection)
      /\ work' = work \/ work' = [work EXCEPT ![Gate(c)] = Torn]
      /\ cut' = cut \cup {c} /\ UNCHANGED evidence
  BY DEF ApplyKilled
<1>2. FilesNamed(work')
  BY <1>1, GateIsTool, WriteNamed DEF TInv, Intact
<1>. QED
  BY <1>1, <1>2, SetterKeepsSelections DEF Kept, TInv

\* However many of its files the setter of the policy has written.
LEMMA PolicyFilesNamed ==
  ASSUME FilesNamed(work), NEW p \in ProfilesOf["policy"], NEW n \in 0..3
  PROVE  FilesNamed(PolicyWritten(p, n))
<1>. DEFINE w == PolicyWritten(p, n)
<1>1. w = [t \in Tools |-> w[t]]
  BY DEF PolicyWritten
<1>2. ASSUME NEW t \in Tools
      PROVE  w[t] = work[t] \/ (t \in {"policy_gate", "active_scoreboard", "next_kpi"} /\ w[t] = PolicyReports(p)[t])
  <2>1. w[t] = IF \E i \in 1..n : PolicyFiles[i] = t THEN PolicyReports(p)[t] ELSE work[t]
    BY DEF PolicyWritten
  <2>2. \A i \in 1..n : PolicyFiles[i] \in {"policy_gate", "active_scoreboard", "next_kpi"}
    BY DEF PolicyFiles
  <2>. QED
    BY <2>1, <2>2
<1>3. PolicyReports(p)["policy_gate"].profile = p
  BY DEF PolicyReports, PolicyGate
<1>4. ASSUME NEW t \in {"policy_gate", "active_scoreboard", "next_kpi"}
      PROVE  WellNamed(t, PolicyReports(p)[t])
  BY <1>3, GateValues DEF WellNamed
<1>. HIDE DEF w
<1>5. FilesNamed(w)
  BY <1>1, <1>2, <1>4 DEF FilesNamed
<1>. QED
  BY <1>5 DEF w

LEMMA PolicyKeeps ==
  ASSUME TInv, NEW p \in ProfilesOf["policy"], ApplyPolicy(p) \/ ApplyPolicyKilled(p)
  PROVE  Kept
<1>1. /\ \/ selection' = Chosen("policy", p) /\ cut' \in {cut \ {"policy"}, cut \cup {"policy"}}
         \/ selection' = Chosen("policy", TornSelection) /\ cut' = cut \cup {"policy"}
      /\ UNCHANGED evidence
  BY DEF ApplyPolicy, ApplyPolicyKilled
<1>2. "policy" \in Chains
  BY GateValues
<1>3. FilesNamed(work)
  BY DEF TInv
<1>4. FilesNamed(work')
  <2>1. CASE ApplyPolicy(p)
    BY <1>3, <2>1, PolicyFilesNamed DEF ApplyPolicy
  <2>2. CASE ApplyPolicyKilled(p) /\ work' = work
    BY <1>3, <2>2
  <2>3. CASE ApplyPolicyKilled(p) /\ work' # work
    <3>1. PICK n \in 0..2 : \/ work' = PolicyWritten(p, n)
                            \/ work' = [PolicyWritten(p, n) EXCEPT ![PolicyFiles[n + 1]] = Torn]
      BY <2>3 DEF ApplyPolicyKilled
    <3>2. FilesNamed(PolicyWritten(p, n))
      BY <1>3, PolicyFilesNamed
    <3>3. PolicyFiles[n + 1] \in Tools
      BY DEF PolicyFiles, Tools, NeedsOf
    <3>. QED
      BY <3>1, <3>2, <3>3, WriteNamed DEF Intact
  <2>. QED
    BY <2>1, <2>2, <2>3
<1>. QED
  BY <1>1, <1>2, <1>4, SetterKeepsSelections DEF Kept, TInv

LEMMA TStep == TInv /\ [Next]_vars => TInv'
<1>. SUFFICES ASSUME TInv, [Next]_vars PROVE TInv'
  OBVIOUS
<1>1. CASE UNCHANGED vars
  BY <1>1 DEF vars, TInv
<1>2. ASSUME NEW c \in Chains, SetProfile(c) PROVE Kept
  <2>1. PICK p \in Choices[c] : Apply(c, p) \/ ApplyKilled(c, p)
    BY <1>2 DEF SetProfile
  <2>2. p \in ProfilesOf[c]
    BY <2>1, ChoicesAssumption
  <2>. QED
    BY <2>1, <2>2, ApplyKeeps, ApplyKilledKeeps
<1>3. ASSUME SetThresholdPolicy PROVE Kept
  <2>1. PICK p \in Choices["policy"] : ApplyPolicy(p) \/ ApplyPolicyKilled(p)
    BY <1>3 DEF SetThresholdPolicy
  <2>2. p \in ProfilesOf["policy"]
    BY <2>1, GateValues, ChoicesAssumption
  <2>. QED
    BY <2>1, <2>2, PolicyKeeps
<1>4. ASSUME RunSome PROVE Kept
  <2>1. PICK t \in Tools : Audit(t)
    BY <1>4 DEF RunSome, Attended
  <2>. QED
    BY <2>1, AuditKeeps
<1>5. ASSUME ToolKilled PROVE Kept
  BY <1>5, KillKeeps DEF ToolKilled, Attended
<1>6. ASSUME Measure PROVE Kept
  BY <1>6 DEF Measure, Kept, TInv
<1>7. CASE Next
  <2>1. Kept
    BY <1>2, <1>3, <1>4, <1>5, <1>6, <1>7, GateValues
       DEF Next, SetSome, SetEntry, SetGoalAcceptance, SetBreadth, SetBreadthAcceptance, SetBranch,
           SetSameFamily, SetSameFamilyAcceptance, SetC910Runtime
  <2>. QED
    BY <2>1 DEF Kept, TInv
<1>. QED
  BY <1>1, <1>7

\* Whatever is run, killed, selected or measured, a gate names a profile of its
\* chain, and the axes a family of their inventory or none.
THEOREM TypeCorrect == Spec => []TypeOK
<1>1. TInv => TypeOK
  <2>. SUFFICES ASSUME TInv PROVE TypeOK
    OBVIOUS
  <2>1. \A c \in Chains : Intact(work[Gate(c)]) => work[Gate(c)].profile \in ProfilesOf[c]
    BY GateIsTool DEF TInv, FilesNamed, WellNamed
  <2>2. Intact(work["axes"]) => work["axes"].family \in {""} \cup Range(work["axes"].inventory)
    BY DEF TInv, FilesNamed, WellNamed, Tools, NeedsOf
  <2>. QED
    BY <2>1, <2>2 DEF TInv, TypeOK
<1>. QED
  BY <1>1, TInit, TStep, PTL DEF Spec

-----------------------------------------------------------------------------
(* Up to date.  Each tool finds the files it needs, from the first to the   *)
(* last, and none of them has anything new to write.                        *)

\* The matrices, whose files no other tool reads.
Matrices == {MatrixOf[c] : c \in Chains} \ {"branch_profiles"}

\* A tool that runs writes a file that others can read.
LEMMA ReportIsIntact ==
  ASSUME NEW t \in Tools \ Matrices, NEW s, NEW e \in Evidence \cup Arriving, NEW w
  PROVE  Intact(Report(t, s, e, w))
<1>1. CASE t \in {"options", "policy_gate", "active_scoreboard", "next_kpi", "checkpoint", "axes"}
  BY <1>1 DEF Report, PolicyOptions, PolicyGate, ActiveScoreboard, NextKpi, Kpi, Checkpoint,
              PostCheckpointAxes, Intact, Missing, Torn
<1>2. CASE t \in {"entry", "readiness", "override", "entry_gate", "seed", "goal_gate"}
  BY <1>2 DEF Report, Entry, Readiness, OverrideCandidates, EntryGate, SeedStatus, GoalGate, Intact, Missing, Torn
<1>3. CASE t \in {"breadth_status", "breadth_gate", "breadth_acceptance_gate", "breadth_axes"}
  BY <1>3 DEF Report, BreadthStatus, BreadthGate, BreadthAcceptance, AcceptanceReport, BreadthAxes,
              Intact, Missing, Torn
<1>4. CASE t \in {"branch_gate", "branch_profiles", "branch_candidates", "same_step", "same_gate"}
  BY <1>4 DEF Report, BranchGate, BranchProfiles, BranchCandidates, SameFamilyStep, SameFamilyGate, PolicyReport,
              Intact, Missing, Torn
<1>5. CASE t \in {"same_acceptance_gate", "same_next_axes", "c910_status", "c910_gate", "c910_split", "c910_tactics"}
  BY <1>5 DEF Report, SameFamilyAcceptance, AcceptanceReport, SameFamilyNextAxes, C910Status, C910Gate, C910Split,
              C910Tactics, Intact, Missing, Torn
<1>6. t \in {"options", "policy_gate", "active_scoreboard", "next_kpi", "checkpoint", "axes"} \cup
            {"entry", "readiness", "override", "entry_gate", "seed", "goal_gate"} \cup
            {"breadth_status", "breadth_gate", "breadth_acceptance_gate", "breadth_axes"} \cup
            {"branch_gate", "branch_profiles", "branch_candidates", "same_step", "same_gate"} \cup
            {"same_acceptance_gate", "same_next_axes", "c910_status", "c910_gate", "c910_split", "c910_tactics"}
  BY GateValues DEF Tools, NeedsOf, Matrices, MatrixOf
<1>. QED
  BY <1>1, <1>2, <1>3, <1>4, <1>5, <1>6

Fresh(t) == work[t] = Report(t, selection, evidence, work) /\ (t \notin Matrices => Intact(work[t]))

\* A tool that finds its files has written its report on the present state.
LEMMA FilesFoundAreFresh ==
  ASSUME TInv, UpToDate, NEW t \in Tools,
         \A n \in Needs(t) : n \notin Matrices /\ Fresh(n),
         \A n \in Optional(t) : n \notin Matrices /\ Fresh(n)
  PROVE  Fresh(t)
<1>1. \A c \in Chains : selection[c] # TornSelection
  BY DEF UpToDate, TInv
<1>2. /\ \A n \in Needs(t) : Intact(work[n])
      /\ \A n \in Optional(t) : work[n] # Torn
  BY DEF Fresh, Intact
<1>3. Readable(t)
  BY <1>1, <1>2 DEF Readable, FilesReadable, ChainsOf, Consults
<1>4. work[t] = Report(t, selection, evidence, work)
  BY <1>3 DEF UpToDate, Settled, Attended, Current
<1>5. evidence \in Evidence \cup Arriving
  BY DEF TInv
<1>. QED
  BY <1>4, <1>5, ReportIsIntact DEF Fresh

LEMMA MatrixValues ==
  Matrices = {"policy_matrix", "entry_matrix", "goal_matrix", "breadth_matrix", "breadth_acceptance_matrix",
              "same_matrix", "same_acceptance_matrix", "c910_profiles"}
BY GateValues DEF Matrices, MatrixOf

\* From the options of the policy to the accepted goal.
LEMMA GoalFilesAreFresh ==
  ASSUME TInv, UpToDate
  PROVE  \A t \in {"options", "policy_gate", "active_scoreboard", "next_kpi", "checkpoint", "axes", "entry",
                   "readiness", "override", "entry_gate", "seed", "goal_gate"} : Fresh(t)
<1>1. /\ Needs("options") = {} /\ "options" \in Tools
      /\ Needs("policy_gate") = {"options"} /\ "policy_gate" \in Tools
      /\ Needs("active_scoreboard") = {"policy_gate"} /\ "active_scoreboard" \in Tools
      /\ Needs("next_kpi") = {"policy_gate"} /\ "next_kpi" \in Tools
      /\ Needs("checkpoint") = {"active_scoreboard"} /\ "checkpoint" \in Tools
      /\ Needs("axes") = {"checkpoint", "active_scoreboard", "next_kpi"} /\ "axes" \in Tools
      /\ Needs("entry") = {"axes"} /\ "entry" \in Tools
      /\ Needs("readiness") = {"entry"} /\ "readiness" \in Tools
      /\ Needs("override") = {"readiness"} /\ "override" \in Tools
      /\ Needs("entry_gate") = {"entry", "readiness", "override"} /\ "entry_gate" \in Tools
      /\ Needs("seed") = {"checkpoint", "axes", "entry_gate"} /\ "seed" \in Tools
      /\ Needs("goal_gate") = {"checkpoint", "seed"} /\ "goal_gate" \in Tools
  BY DEF Needs, NeedsOf, Tools
<1>. DEFINE files == {"options", "policy_gate", "active_scoreboard", "next_kpi", "checkpoint", "axes", "entry",
                      "readiness", "override", "entry_gate", "seed", "goal_gate"}
<1>2. ASSUME NEW t \in files, \A n \in Needs(t) : n \in files /\ Fresh(n)
      PROVE  Fresh(t)
  <2>1. \A n \in files : n \notin Matrices
    BY MatrixValues
  <2>2. Optional(t) = {} /\ t \in Tools
    BY <1>1 DEF Optional
  <2>. QED
    BY <1>2, <2>1, <2>2, FilesFoundAreFresh
<1>3. Fresh("options")
  BY <1>1, <1>2
<1>4. Fresh("policy_gate")
  BY <1>1, <1>2, <1>3
<1>5. Fresh("active_scoreboard") /\ Fresh("next_kpi")
  BY <1>1, <1>2, <1>4
<1>6. Fresh("checkpoint")
  BY <1>1, <1>2, <1>5
<1>7. Fresh("axes")
  BY <1>1, <1>2, <1>5, <1>6
<1>8. Fresh("entry")
  BY <1>1, <1>2, <1>7
<1>9. Fresh("readiness")
  BY <1>1, <1>2, <1>8
<1>10. Fresh("override")
  BY <1>1, <1>2, <1>9
<1>11. Fresh("entry_gate")
  BY <1>1, <1>2, <1>8, <1>9, <1>10
<1>12. Fresh("seed")
  BY <1>1, <1>2, <1>6, <1>7, <1>11
<1>13. Fresh("goal_gate")
  BY <1>1, <1>2, <1>6, <1>12
<1>. QED
  BY <1>3, <1>4, <1>5, <1>6, <1>7, <1>8, <1>9, <1>10, <1>11, <1>12, <1>13

\* From E906 to the runtime gate of C910.
LEMMA FamilyFilesAreFresh ==
  ASSUME TInv, UpToDate
  PROVE  \A t \in {"breadth_status", "breadth_gate", "breadth_acceptance_gate", "breadth_axes", "branch_gate",
                   "branch_profiles", "branch_candidates", "same_step", "same_gate", "same_acceptance_gate",
                   "same_next_axes", "c910_status", "c910_gate", "c910_split", "c910_tactics"} : Fresh(t)
<1>1. /\ Needs("breadth_status") = {"goal_gate", "readiness", "override"} /\ "breadth_status" \in Tools
      /\ Needs("breadth_gate") = {"breadth_status"} /\ "breadth_gate" \in Tools
      /\ Needs("breadth_acceptance_gate") = {"goal_gate", "breadth_gate"} /\ "breadth_acceptance_gate" \in Tools
      /\ Needs("breadth_axes") = {"goal_gate", "breadth_acceptance_gate", "axes"} /\ "breadth_axes" \in Tools
      /\ Needs("branch_gate") = {"breadth_axes"} /\ "branch_gate" \in Tools
      /\ Needs("branch_profiles") = {"breadth_axes"} /\ "branch_profiles" \in Tools
      /\ Needs("branch_candidates") = {"breadth_axes", "branch_profiles"} /\ "branch_candidates" \in Tools
      /\ Needs("same_step") = {"branch_gate", "branch_candidates"} /\ "same_step" \in Tools
      /\ Needs("same_gate") = {"same_step"} /\ "same_gate" \in Tools
      /\ Needs("same_acceptance_gate") = {"branch_gate", "same_gate"} /\ "same_acceptance_gate" \in Tools
      /\ Needs("same_next_axes") = {"branch_candidates", "same_acceptance_gate"} /\ "same_next_axes" \in Tools
      /\ Needs("c910_status") = {} /\ "c910_status" \in Tools
      /\ Needs("c910_gate") = {"c910_status", "same_next_axes"} /\ "c910_gate" \in Tools
      /\ Needs("c910_split") = {} /\ "c910_split" \in Tools
      /\ Needs("c910_tactics") = {"c910_status", "c910_gate"} /\ "c910_tactics" \in Tools
  BY DEF Needs, NeedsOf, Tools
<1>. DEFINE files == {"breadth_status", "breadth_gate", "breadth_acceptance_gate", "breadth_axes", "branch_gate",
                      "branch_profiles", "branch_candidates", "same_step", "same_gate", "same_acceptance_gate",
                      "same_next_axes", "c910_status", "c910_gate", "c910_split", "c910_tactics"}
            below == {"goal_gate", "readiness", "override", "axes"}
<1>2. ASSUME NEW t \in files, \A n \in Needs(t) \cup Optional(t) : n \in files \cup below /\ Fresh(n)
      PROVE  Fresh(t)
  <2>1. \A n \in files \cup below : n \notin Matrices
    BY MatrixValues
  <2>2. t \in Tools
    BY <1>1
  <2>. QED
    BY <1>2, <2>1, <2>2, FilesFoundAreFresh
<1>3. \A n \in below : Fresh(n)
  BY GoalFilesAreFresh
<1>4. Fresh("breadth_status") /\ Fresh("c910_status") /\ Fresh("c910_split")
  BY <1>1, <1>2, <1>3 DEF Optional
<1>5. Fresh("breadth_gate")
  BY <1>1, <1>2, <1>4 DEF Optional
<1>6. Fresh("breadth_acceptance_gate")
  BY <1>1, <1>2, <1>3, <1>5 DEF Optional
<1>7. Fresh("breadth_axes")
  BY <1>1, <1>2, <1>3, <1>6 DEF Optional
<1>8. Fresh("branch_gate") /\ Fresh("branch_profiles")
  BY <1>1, <1>2, <1>7 DEF Optional
<1>9. Fresh("branch_candidates")
  BY <1>1, <1>2, <1>7, <1>8 DEF Optional
<1>10. Fresh("same_step")
  BY <1>1, <1>2, <1>8, <1>9 DEF Optional
<1>11. Fresh("same_gate")
  BY <1>1, <1>2, <1>10 DEF Optional
<1>12. Fresh("same_acceptance_gate")
  BY <1>1, <1>2, <1>8, <1>11 DEF Optional
<1>13. Fresh("same_next_axes")
  BY <1>1, <1>2, <1>9, <1>12 DEF Optional
<1>14. Fresh("c910_gate")
  BY <1>1, <1>2, <1>4, <1>13 DEF Optional
<1>15. Fresh("c910_tactics")
  BY <1>1, <1>2, <1>4, <1>14 DEF Optional
<1>. QED
  BY <1>4, <1>5, <1>6, <1>7, <1>8, <1>9, <1>10, <1>11, <1>12, <1>13, <1>14, <1>15

LEMMA MatricesAreFresh ==
  ASSUME TInv, UpToDate
  PROVE  \A t \in Matrices : Fresh(t)
<1>. SUFFICES ASSUME NEW t \in Matrices PROVE Fresh(t)
  OBVIOUS
<1>1. /\ t \in Tools
      /\ Needs(t) \cup Optional(t) \subseteq
           {"options", "entry", "readiness", "override", "checkpoint", "seed", "breadth_status", "goal_gate",
            "breadth_gate", "same_step", "branch_gate", "same_gate", "c910_status", "same_next_axes", "c910_tactics"}
  BY MatrixValues DEF Needs, NeedsOf, Optional, Tools
<1>2. \A n \in Needs(t) \cup Optional(t) : n \notin Matrices
  BY <1>1, MatrixValues
<1>3. \A n \in Needs(t) \cup Optional(t) : Fresh(n)
  BY <1>1, GoalFilesAreFresh, FamilyFilesAreFresh
<1>. QED
  BY <1>1, <1>2, <1>3, FilesFoundAreFresh

-----------------------------------------------------------------------------
(* What the files say once they are up to date. *)

LEMMA FreshGoalFiles ==
  ASSUME TInv, UpToDate
  PROVE  /\ work["options"] = PolicyOptions(evidence)
         /\ work["policy_gate"] = PolicyGate(selection["policy"], work["options"])
         /\ work["active_scoreboard"] = ActiveScoreboard(work["policy_gate"], evidence)
         /\ work["checkpoint"] = Checkpoint(work["active_scoreboard"], evidence)
         /\ work["axes"] = PostCheckpointAxes(work["checkpoint"], work["next_kpi"], evidence)
         /\ work["entry"] = Entry(work["axes"], evidence)
         /\ work["readiness"] = Readiness(work["entry"], evidence)
         /\ work["override"] = OverrideCandidates(work["readiness"], evidence)
         /\ work["entry_gate"]
              = EntryGate(selection["entry"], work["entry"], work["readiness"], work["override"])
         /\ work["seed"] = SeedStatus(work["checkpoint"], work["axes"], work["entry_gate"])
         /\ work["goal_gate"] = GoalGate(selection["goal"], work["checkpoint"], work["seed"])
<1>1. \A t \in {"options", "policy_gate", "active_scoreboard", "next_kpi", "checkpoint", "axes", "entry",
                "readiness", "override", "entry_gate", "seed", "goal_gate"} :
        work[t] = Report(t, selection, evidence, work)
  BY GoalFilesAreFresh DEF Fresh
<1>. QED
  BY <1>1 DEF Report

LEMMA FreshFamilyFiles ==
  ASSUME TInv, UpToDate
  PROVE  /\ work["breadth_status"]
              = BreadthStatus(work["goal_gate"], work["readiness"], work["override"], evidence)
         /\ work["breadth_gate"] = BreadthGate(selection["breadth"], work["breadth_status"])
         /\ work["breadth_acceptance_gate"]
              = BreadthAcceptance(selection["breadth_acceptance"], work["goal_gate"], work["breadth_gate"])
         /\ work["breadth_axes"]
              = BreadthAxes(work["goal_gate"], work["breadth_acceptance_gate"], work["axes"])
         /\ work["branch_gate"] = BranchGate(selection["branch"], work["breadth_axes"])
         /\ work["branch_profiles"] = BranchProfiles(selection["branch"], work["breadth_axes"])
         /\ work["branch_candidates"]
              = BranchCandidates(work["breadth_axes"], work["branch_profiles"], evidence)
         /\ work["same_step"] = SameFamilyStep(work["branch_gate"], work["branch_candidates"])
         /\ work["same_gate"] = SameFamilyGate(selection["same"], work["same_step"])
         /\ work["same_acceptance_gate"]
              = SameFamilyAcceptance(selection["same_acceptance"], work["branch_gate"], work["same_gate"])
         /\ work["same_next_axes"] = SameFamilyNextAxes(work["branch_candidates"], work["same_acceptance_gate"])
         /\ work["c910_status"] = C910Status(evidence)
         /\ work["c910_gate"] = C910Gate(selection["c910"], work["c910_status"], work["same_next_axes"])
         /\ work["c910_tactics"] = C910Tactics(work["c910_status"], work["c910_gate"], work["c910_split"])
<1>1. \A t \in {"breadth_status", "breadth_gate", "breadth_acceptance_gate", "breadth_axes", "branch_gate",
                "branch_profiles", "branch_candidates", "same_step", "same_gate", "same_acceptance_gate",
                "same_next_axes", "c910_status", "c910_gate", "c910_split", "c910_tactics"} :
        work[t] = Report(t, selection, evidence, work)
  BY FamilyFilesAreFresh DEF Fresh
<1>. QED
  BY <1>1 DEF Report

LEMMA FreshMatrices ==
  ASSUME TInv, UpToDate
  PROVE  /\ work["c910_profiles"]
              = C910Profiles(selection["c910"], work["c910_status"], work["same_next_axes"], work["c910_tactics"])
         /\ work["entry_matrix"]
              = EntryMatrix(selection["entry"], work["entry"], work["readiness"], work["override"])
         /\ work["goal_matrix"] = GoalMatrix(selection["goal"], work["checkpoint"], work["seed"])
         /\ work["breadth_matrix"] = BreadthMatrix(selection["breadth"], work["breadth_status"])
         /\ work["breadth_acceptance_matrix"]
              = BreadthAcceptanceMatrix(selection["breadth_acceptance"], work["goal_gate"], work["breadth_gate"])
         /\ work["same_matrix"] = SameFamilyMatrix(selection["same"], work["same_step"])
         /\ work["same_acceptance_matrix"]
              = SameFamilyAcceptanceMatrix(selection["same_acceptance"], work["branch_gate"], work["same_gate"])
<1>1. \A t \in Matrices : work[t] = Report(t, selection, evidence, work)
  BY MatricesAreFresh DEF Fresh
<1>. QED
  BY <1>1, MatrixValues DEF Report

\* With no setter left half done every selection is a profile of its chain.
LEMMA SelectionsAreWhole ==
  ASSUME TInv, UpToDate
  PROVE  \A c \in Chains : selection[c] \in ProfilesOf[c]
BY DEF TInv, UpToDate

-----------------------------------------------------------------------------
(* C910. *)

\* The tactics have no advice for who has not selected debugging.
LEMMA AdviceNeedsDebugging ==
  ASSUME TInv, UpToDate, selection["c910"] = "open_veer_fallback_family"
  PROVE  work["c910_tactics"].status = "choose_profile"
<1>1. work["c910_gate"].profile = "open_veer_fallback_family"
  BY FreshFamilyFiles DEF C910Gate
<1>. QED
  BY <1>1, FreshFamilyFiles DEF C910Tactics

LEMMA ProfilesRecommendDebugging ==
  ASSUME NEW current, NEW status, NEW axes, NEW tactics, tactics.status # "open_veer_fallback_family",
         C910Outcome("debug_c910_hybrid_runtime", status, axes) = "debug_ready"
  PROVE  C910Profiles(current, status, axes, tactics).recommended = "debug_c910_hybrid_runtime"
<1>. DEFINE ready == {p \in {"debug_c910_hybrid_runtime", "open_veer_fallback_family"} :
                        C910Outcome(p, status, axes) \in {"debug_ready", "recovered", "open_fallback_family_ready"}}
<1>1. "debug_c910_hybrid_runtime" \in ready
  OBVIOUS
<1>2. C910Profiles(current, status, axes, tactics).recommended
        = IF ready = {} THEN ""
          ELSE IF \/ "debug_c910_hybrid_runtime" \notin ready
                  \/ /\ Present(tactics) /\ tactics.status = "open_veer_fallback_family"
                     /\ "open_veer_fallback_family" \in ready
          THEN "open_veer_fallback_family"
          ELSE "debug_c910_hybrid_runtime"
  BY DEF C910Profiles
<1>. HIDE DEF ready
<1>. QED
  BY <1>1, <1>2

LEMMA AdviceIsToDebug ==
  ASSUME TInv, UpToDate, selection["c910"] = "open_veer_fallback_family",
         C910Outcome("debug_c910_hybrid_runtime", work["c910_status"], work["same_next_axes"]) = "debug_ready"
  PROVE  work["c910_profiles"].recommended = "debug_c910_hybrid_runtime"
<1>1. work["c910_tactics"].status = "choose_profile"
  BY AdviceNeedsDebugging
<1>. QED
  BY <1>1, FreshMatrices, ProfilesRecommendDebugging

\* The advice to give C910 up for VeeR, where C910 can be debugged, is given
\* only by files of different ages.
THEOREM VeerAdvice == Spec => []VeerAdviceIsStale
<1>1. TInv => VeerAdviceIsStale
  BY AdviceIsToDebug DEF VeerAdviceIsStale
<1>. QED
  BY <1>1, TInit, TStep, PTL DEF Spec

-----------------------------------------------------------------------------
(* The accepted goal. *)

\* What an accepted goal says of the files it was held against.
LEMMA GoalAccepted ==
  ASSUME NEW name \in {"accept_checkpoint_and_seed", "accept_checkpoint_only", "hold_checkpoint_and_seed"},
         NEW checkpoint, NEW seed, GoalGate(name, checkpoint, seed).status = "accepted_checkpoint_and_seed"
  PROVE  /\ name = "accept_checkpoint_and_seed"
         /\ checkpoint.status = "cross_family_checkpoint_ready"
         /\ seed.status = "ready_to_accept_selected_seed"
<1>1. GoalOutcome(name, checkpoint, seed) = "accepted_checkpoint_and_seed"
  BY DEF GoalGate
<1>. QED
  BY <1>1 DEF GoalOutcome

LEMMA SeedReady ==
  ASSUME NEW checkpoint, NEW axes, NEW gate,
         SeedStatus(checkpoint, axes, gate).status = "ready_to_accept_selected_seed"
  PROVE  axes.status = "broaden_non_opentitan_family" /\ gate.status = "single_surface_trio_ready"
BY DEF SeedStatus

LEMMA EntryReady ==
  ASSUME NEW name \in {"xuantie_single_surface_e902", "xuantie_family_pilot_hold"},
         NEW entry, NEW readiness, NEW override,
         EntryGate(name, entry, readiness, override).status = "single_surface_trio_ready"
  PROVE  name = "xuantie_single_surface_e902"
<1>1. EntryOutcome(name, entry, readiness, override) = "single_surface_trio_ready"
  BY DEF EntryGate
<1>. QED
  BY <1>1 DEF EntryOutcome

\* A row of the candidates is a bootstrapped design with its comparison.
LEMMA EntryWins ==
  ASSUME NEW name, NEW entry, NEW readiness, NEW e,
         EntryGate(name, entry, readiness, OverrideCandidates(readiness, e)).status = "single_surface_trio_ready"
  PROVE  "XuanTie-E902" \in DOMAIN readiness.boot /\ e.surface["XuanTie-E902"].default = "hybrid"
<1>. DEFINE rows == OverrideCandidates(readiness, e).rows
<1>1. EntryOutcome(name, entry, readiness, OverrideCandidates(readiness, e)) = "single_surface_trio_ready"
  BY DEF EntryGate
<1>2. "XuanTie-E902" \in DOMAIN rows /\ rows["XuanTie-E902"].wins
  <2>. DEFINE d == "XuanTie-E902"
              won == d \in DOMAIN rows /\ rows[d].wins
              ready == d \in DOMAIN rows /\ rows[d].ready
  <2>1. EntryOutcome(name, entry, readiness, OverrideCandidates(readiness, e))
          = IF entry.family \notin {"", "XuanTie"} THEN "blocked_wrong_family"
            ELSE IF name = "xuantie_family_pilot_hold"
                 THEN IF readiness.status \in {"ready_to_run_pilot", "pilot_artifact_present"}
                      THEN "family_pilot_ready" ELSE "family_pilot_blocked"
            ELSE IF won THEN "single_surface_trio_ready"
            ELSE IF ready THEN "single_surface_ready"
            ELSE "single_surface_blocked"
    BY Zenon DEF EntryOutcome
  <2>2. won
    <3>. HIDE DEF won, ready
    <3>. QED
      BY <1>1, <2>1
  <2>. QED
    BY <2>2
<1>3. rows = [d \in DOMAIN readiness.boot |-> [wins |-> e.surface[d].default = "hybrid", ready |-> readiness.boot[d]]]
  BY DEF OverrideCandidates
<1>4. "XuanTie-E902" \in DOMAIN readiness.boot
  BY <1>2, <1>3
<1>5. rows["XuanTie-E902"]
        = [wins |-> e.surface["XuanTie-E902"].default = "hybrid", ready |-> readiness.boot["XuanTie-E902"]]
  BY <1>3, <1>4
<1>. HIDE DEF rows
<1>6. [wins |-> e.surface["XuanTie-E902"].default = "hybrid", ready |-> readiness.boot["XuanTie-E902"]].wins
        = (e.surface["XuanTie-E902"].default = "hybrid")
  BY Zenon
<1>7. e.surface["XuanTie-E902"].default = "hybrid"
  BY <1>2, <1>5, <1>6, Zenon
<1>. QED
  BY <1>4, <1>7

LEMMA BootstrappedIsXuanTie ==
  ASSUME NEW entry, NEW e, NEW d \in DOMAIN Readiness(entry, e).boot
  PROVE  entry.family = "XuanTie" /\ d \in DOMAIN e.boot
<1>1. Readiness(entry, e).boot = IF entry.family = "XuanTie" THEN e.boot ELSE <<>>
  BY DEF Readiness
<1>2. DOMAIN <<>> = {}
  OBVIOUS
<1>. QED
  BY <1>1, <1>2

LEMMA EntryIsOfAxes ==
  ASSUME NEW axes, NEW e, Entry(axes, e).family = "XuanTie"
  PROVE  axes.family = "XuanTie" /\ Entry(axes, e).mode = EntryMode(e.shape)
BY DEF Entry

LEMMA AxesBroaden ==
  ASSUME NEW checkpoint, NEW kpi, NEW e,
         PostCheckpointAxes(checkpoint, kpi, e).status = "broaden_non_opentitan_family"
  PROVE  /\ checkpoint.exhausted /\ e.inventory # <<>>
         /\ PostCheckpointAxes(checkpoint, kpi, e).family = e.inventory[1]
BY DEF PostCheckpointAxes

\* The checkpoint is a line of strong hybrid wins of two families.
LEMMA CheckpointReady ==
  ASSUME NEW board, NEW e, Checkpoint(board, e).status = "cross_family_checkpoint_ready"
  PROVE  /\ Cardinality(ReadyRows(board.rows)) >= CheckpointSurfaces
         /\ HybridRows(board.rows) = ReadyRows(board.rows)
         /\ \A p \in HybridRows(board.rows) : board.rows[p].strong
         /\ Cardinality({LineFamily(p) : p \in DOMAIN board.rows}) >= 2
         /\ Checkpoint(board, e).exhausted => Cardinality(ReadyRows(board.rows)) >= e.pool
<1>. DEFINE rows == board.rows
            enough == Cardinality(ReadyRows(rows)) >= CheckpointSurfaces
            diverse == Cardinality({LineFamily(p) : p \in DOMAIN rows}) >= 2
<1>1. enough /\ StrongLine(rows) /\ diverse
  <2>1. Checkpoint(board, e).status
          = CASE ~enough -> "insufficient_active_surfaces"
              [] enough /\ ~AllHybrid(rows) -> "not_all_hybrid_wins"
              [] enough /\ AllHybrid(rows) /\ ~WeakestIsStrong(rows) -> "weakest_margin_below_threshold"
              [] enough /\ StrongLine(rows) /\ diverse -> "cross_family_checkpoint_ready"
              [] enough /\ StrongLine(rows) /\ ~diverse -> "single_family_checkpoint_ready"
    BY DEF Checkpoint
  <2>2. StrongLine(rows) <=> (AllHybrid(rows) /\ WeakestIsStrong(rows))
    BY DEF StrongLine
  <2>. HIDE DEF enough, diverse, rows
  <2>. QED
    BY <2>1, <2>2
<1>2. Checkpoint(board, e).exhausted => Cardinality(ReadyRows(rows)) >= e.pool
  BY DEF Checkpoint
<1>. QED
  BY <1>1, <1>2 DEF StrongLine, AllHybrid, WeakestIsStrong

LEMMA LinesOfPolicy ==
  ASSUME NEW name, NEW options
  PROVE  PolicyGate(name, options).paths \subseteq Lines
<1>1. PolicyGate(name, options).paths = PolicyOutcome(options, SelectedPolicy(name)).paths
  BY DEF PolicyGate
<1>2. \E x \in {"t5", "ds", "v1"} : PolicyOutcome(options, SelectedPolicy(name)).paths = Scenarios[x] \cup Extras
  BY DEF PolicyOutcome, SelectedPolicy
<1>3. \A x \in {"t5", "ds", "v1"} : Scenarios[x] \in Range(Scenarios)
  BY DEF Scenarios, Range
<1>. QED
  BY <1>1, <1>2, <1>3 DEF Lines

\* From the accepted goal down to the comparisons.
LEMMA GoalNeedsAll ==
  ASSUME TInv, UpToDate, work["goal_gate"].status = "accepted_checkpoint_and_seed"
  PROVE  LET line == work["policy_gate"].paths
         IN  /\ selection["goal"] = "accept_checkpoint_and_seed"
             /\ selection["entry"] = "xuantie_single_surface_e902"
             /\ \A p \in line : evidence.line[p].winner \in {"hybrid", "none", "unready"}
             /\ \A p \in line : evidence.line[p].winner = "hybrid" => evidence.line[p].strong
             /\ LET won == {p \in line : evidence.line[p].winner = "hybrid"}
                IN  Cardinality(won) >= CheckpointSurfaces /\ Cardinality(won) >= evidence.pool
             /\ Cardinality({LineFamily(p) : p \in line}) >= 2
             /\ evidence.inventory # <<>> /\ evidence.inventory[1] = "XuanTie"
             /\ "XuanTie-E902" \in DOMAIN evidence.boot
             /\ evidence.surface["XuanTie-E902"].default = "hybrid"
<1>. DEFINE line == work["policy_gate"].paths
            rows == work["active_scoreboard"].rows
<1>1. /\ selection["goal"] \in ProfilesOf["goal"]
      /\ selection["entry"] \in ProfilesOf["entry"]
  BY SelectionsAreWhole, GateValues
<1>2. /\ selection["goal"] = "accept_checkpoint_and_seed"
      /\ work["checkpoint"].status = "cross_family_checkpoint_ready"
      /\ work["seed"].status = "ready_to_accept_selected_seed"
  BY <1>1, FreshGoalFiles, ProfileValues, GoalAccepted
<1>3. /\ work["axes"].status = "broaden_non_opentitan_family"
      /\ work["entry_gate"].status = "single_surface_trio_ready"
  BY <1>2, FreshGoalFiles, SeedReady
<1>4. selection["entry"] = "xuantie_single_surface_e902"
  BY <1>1, <1>3, FreshGoalFiles, ProfileValues, EntryReady
<1>5. /\ "XuanTie-E902" \in DOMAIN work["readiness"].boot
      /\ evidence.surface["XuanTie-E902"].default = "hybrid"
  <2>1. EntryGate(selection["entry"], work["entry"], work["readiness"],
                  OverrideCandidates(work["readiness"], evidence)).status = "single_surface_trio_ready"
    BY <1>3, FreshGoalFiles, Zenon
  <2>2. "XuanTie-E902" \in DOMAIN work["readiness"].boot
    BY <2>1, EntryWins
  <2>3. evidence.surface["XuanTie-E902"].default = "hybrid"
    BY <2>1, EntryWins
  <2>. QED
    BY <2>2, <2>3
<1>6. work["entry"].family = "XuanTie" /\ "XuanTie-E902" \in DOMAIN evidence.boot
  BY <1>5, FreshGoalFiles, BootstrappedIsXuanTie
<1>7. work["axes"].family = "XuanTie"
  BY <1>6, FreshGoalFiles, EntryIsOfAxes
<1>8. /\ work["checkpoint"].exhausted /\ evidence.inventory # <<>>
      /\ evidence.inventory[1] = "XuanTie"
  BY <1>3, <1>7, FreshGoalFiles, AxesBroaden
<1>9. rows = [p \in line |-> evidence.line[p]]
  BY FreshGoalFiles DEF ActiveScoreboard, Scoreboard
<1>10. line \subseteq Lines
  BY FreshGoalFiles, LinesOfPolicy
<1>11. /\ Cardinality(ReadyRows(rows)) >= CheckpointSurfaces
       /\ HybridRows(rows) = ReadyRows(rows)
       /\ \A p \in HybridRows(rows) : rows[p].strong
       /\ Cardinality({LineFamily(p) : p \in DOMAIN rows}) >= 2
       /\ Cardinality(ReadyRows(rows)) >= evidence.pool
  BY <1>2, <1>8, FreshGoalFiles, CheckpointReady
<1>. HIDE DEF rows, line
<1>12. /\ HybridRows(rows) = {p \in line : evidence.line[p].winner = "hybrid"}
       /\ ReadyRows(rows) = {p \in line : evidence.line[p].winner \in {"hybrid", "baseline"}}
       /\ DOMAIN rows = line
  BY <1>9 DEF HybridRows, ReadyRows
<1>13. \A p \in line : evidence.line[p].winner \in Comparisons
  BY <1>10, EvidenceAssumption DEF TInv
<1>14. \A p \in line : evidence.line[p].winner \in {"hybrid", "none", "unready"}
  BY <1>11, <1>12, <1>13 DEF Comparisons
<1>15. \A p \in line : evidence.line[p].winner = "hybrid" => evidence.line[p].strong
  BY <1>9, <1>11, <1>12
<1>16. LET won == {p \in line : evidence.line[p].winner = "hybrid"}
       IN  Cardinality(won) >= CheckpointSurfaces /\ Cardinality(won) >= evidence.pool
  BY <1>11, <1>12
<1>17. Cardinality({LineFamily(p) : p \in line}) >= 2
  BY <1>11, <1>12
<1>. QED
  BY <1>2, <1>4, <1>5, <1>6, <1>8, <1>14, <1>15, <1>16, <1>17 DEF line

-----------------------------------------------------------------------------
(* From the gate of C910 back to the accepted goal. *)

LEMMA C910Opens ==
  ASSUME NEW name \in {"open_veer_fallback_family", "debug_c910_hybrid_runtime", "hold_c910_runtime_branch"},
         NEW e, NEW axes, C910Gate(name, C910Status(e), axes).status = "open_fallback_family_ready"
  PROVE  /\ name = "open_veer_fallback_family"
         /\ axes.status = "decide_continue_vs_fallback" /\ axes.fallback = "VeeR"
<1>. DEFINE st == C910Status(e)
<1>1. C910Outcome(name, st, axes) = "open_fallback_family_ready"
  BY DEF C910Gate
<1>2. st.status \in {"decide_debug_vs_open_veer", "ready_to_compare", "repair"}
  BY DEF C910Status
<1>. HIDE DEF st
<1>3. axes.status = "decide_continue_vs_fallback"
  BY <1>1 DEF C910Outcome
<1>4. CASE name = "hold_c910_runtime_branch"
  BY <1>1, <1>4 DEF C910Outcome
<1>5. CASE name = "debug_c910_hybrid_runtime"
  BY <1>1, <1>2, <1>5 DEF C910Outcome
<1>6. CASE name = "open_veer_fallback_family"
  BY <1>1, <1>3, <1>6 DEF C910Outcome
<1>. QED
  BY <1>4, <1>5, <1>6

LEMMA NextAxesDecide ==
  ASSUME NEW candidates, NEW acceptance,
         SameFamilyNextAxes(candidates, acceptance).status = "decide_continue_vs_fallback"
  PROVE  acceptance.status = "accepted"
BY DEF SameFamilyNextAxes

LEMMA NextAxesFallback ==
  ASSUME NEW candidates, NEW acceptance
  PROVE  SameFamilyNextAxes(candidates, acceptance).fallback = candidates.fallback
BY DEF SameFamilyNextAxes

\* What every acceptance asks.
LEMMA AcceptedAsks ==
  ASSUME NEW upstream \in BOOLEAN, NEW accept \in BOOLEAN, NEW gate, NEW ready,
         AcceptanceStatus(upstream, accept, gate, ready) = "accepted"
  PROVE  upstream /\ accept /\ gate \in ready
<1>. DEFINE in == gate \in ready
<1>1. AcceptanceStatus(upstream, accept, gate, ready)
        = CASE ~upstream -> "blocked_upstream"
            [] upstream /\ ~accept -> "hold"
            [] upstream /\ accept /\ ~in -> "blocked_not_ready"
            [] upstream /\ accept /\ in -> "accepted"
  BY DEF AcceptanceStatus
<1>. HIDE DEF in
<1>2. upstream /\ accept /\ in
  BY <1>1
<1>. QED
  BY <1>2 DEF in

LEMMA SameAccepted ==
  ASSUME NEW name, NEW branch, NEW gate, SameFamilyAcceptance(name, branch, gate).status = "accepted"
  PROVE  /\ name = "accept" /\ branch.status = "continue_same_family_ready"
         /\ gate.status \in ReadyStatuses
<1>. DEFINE upstream == branch.status = "continue_same_family_ready"
            accept == name = "accept"
<1>1. AcceptanceStatus(upstream, accept, gate.status, ReadyStatuses) = "accepted"
  BY DEF SameFamilyAcceptance, AcceptanceReport, SameFamilyAcceptanceStatus
<1>2. upstream \in BOOLEAN /\ accept \in BOOLEAN
  OBVIOUS
<1>. HIDE DEF upstream, accept
<1>3. upstream /\ accept /\ gate.status \in ReadyStatuses
  BY <1>1, <1>2, AcceptedAsks
<1>. QED
  BY <1>3 DEF upstream, accept

LEMMA BreadthAccepted ==
  ASSUME NEW name, NEW goal, NEW gate, BreadthAcceptance(name, goal, gate).status = "accepted"
  PROVE  /\ name = "accept" /\ goal.status = "accepted_checkpoint_and_seed"
         /\ gate.status \in ReadyStatuses \cup {"family_pilot_ready"}
<1>. DEFINE upstream == goal.status = "accepted_checkpoint_and_seed"
            accept == name = "accept"
            ready == ReadyStatuses \cup {"family_pilot_ready"}
<1>1. AcceptanceStatus(upstream, accept, gate.status, ready) = "accepted"
  BY DEF BreadthAcceptance, AcceptanceReport, BreadthAcceptanceStatus
<1>2. upstream \in BOOLEAN /\ accept \in BOOLEAN
  OBVIOUS
<1>. HIDE DEF upstream, accept, ready
<1>3. upstream /\ accept /\ gate.status \in ready
  BY <1>1, <1>2, AcceptedAsks
<1>. QED
  BY <1>3 DEF upstream, accept, ready

\* The candidates name VeeR beside a first design to go on with.
LEMMA CandidatesOffer ==
  ASSUME NEW axes, NEW profiles, NEW e, BranchCandidates(axes, profiles, e).fallback = "VeeR"
  PROVE  /\ "open_veer_fallback_family" \in profiles.ready /\ e.fallback_runner
         /\ axes.remaining # {}
<1>. DEFINE go == "xuantie_continue_same_family" \in profiles.ready /\ axes.remaining # {}
            open == "open_veer_fallback_family" \in profiles.ready /\ e.fallback_runner
<1>1. BranchCandidates(axes, profiles, e).fallback = IF go /\ open THEN "VeeR" ELSE ""
  BY DEF BranchCandidates
<1>2. go /\ open
  <2>. HIDE DEF go, open
  <2>. QED
    BY <1>1
<1>. QED
  BY <1>2

\* The first design is one of the remaining, and measured.
LEMMA CandidatesMeasured ==
  ASSUME NEW axes, NEW profiles, NEW e, BranchCandidates(axes, profiles, e).designs # {}
  PROVE  LET first == BranchCandidates(axes, profiles, e).first
         IN  /\ axes.remaining # {}
             /\ first = FirstDesign(axes.remaining, e)
             /\ BranchCandidates(axes, profiles, e).kind = LineKind(e.surface[first])
             /\ BranchCandidates(axes, profiles, e).value = e.surface[first].value
<1>. DEFINE go == "xuantie_continue_same_family" \in profiles.ready /\ axes.remaining # {}
            first == IF go THEN FirstDesign(axes.remaining, e) ELSE ""
            all == BranchCandidates(axes, profiles, e)
<1>1. /\ all.designs = IF go THEN axes.remaining ELSE {}
      /\ all.first = first
      /\ all.kind = IF go THEN LineKind(e.surface[first]) ELSE ""
      /\ all.value = IF go THEN e.surface[first].value ELSE 0
  BY DEF BranchCandidates
<1>2. go
  BY <1>1
<1>. QED
  BY <1>1, <1>2

LEMMA VeerIsReady ==
  ASSUME NEW current, NEW axes, "open_veer_fallback_family" \in BranchProfiles(current, axes).ready
  PROVE  axes.fallback = "VeeR"
<1>1. BranchOutcome("open_veer_fallback_family", axes)
        \in {"continue_same_family_ready", "open_fallback_family_ready"}
  BY DEF BranchProfiles, BranchReady
<1>. QED
  BY <1>1 DEF BranchOutcome

LEMMA BranchContinues ==
  ASSUME NEW name \in {"xuantie_continue_same_family", "open_veer_fallback_family", "hold_post_e906_branch"},
         NEW axes, BranchGate(name, axes).status = "continue_same_family_ready"
  PROVE  /\ name = "xuantie_continue_same_family"
         /\ axes.status = "decide_continue_vs_fallback" /\ axes.family = "XuanTie"
<1>1. BranchOutcome(name, axes) = "continue_same_family_ready"
  BY DEF BranchGate
<1>2. name = "xuantie_continue_same_family"
  BY <1>1 DEF BranchOutcome
<1>. QED
  BY <1>1, <1>2 DEF BranchOutcome

LEMMA BreadthDecides ==
  ASSUME NEW goal, NEW acceptance, NEW axes,
         BreadthAxes(goal, acceptance, axes).status = "decide_continue_vs_fallback"
  PROVE  goal.status = "accepted_checkpoint_and_seed" /\ acceptance.status = "accepted"
BY DEF BreadthAxes

LEMMA BreadthAxesNames ==
  ASSUME NEW goal, NEW acceptance, NEW axes
  PROVE  /\ BreadthAxes(goal, acceptance, axes).family = axes.family
         /\ BreadthAxes(goal, acceptance, axes).fallback = FallbackFamily(axes)
         /\ BreadthAxes(goal, acceptance, axes).remaining \subseteq Range(Members)
<1>1. BreadthAxes(goal, acceptance, axes).remaining
        = IF axes.family = "XuanTie" THEN Range(Members) \ {goal.design, acceptance.design} ELSE {}
  BY DEF BreadthAxes
<1>. QED
  BY <1>1 DEF BreadthAxes

\* Only the second family follows the first.
LEMMA FallbackIsSecond ==
  ASSUME NEW axes, axes.inventory \in Seq(STRING), axes.inventory[1] = axes.family,
         \A i, j \in 1..Len(axes.inventory) : axes.inventory[i] = axes.inventory[j] => i = j,
         FallbackFamily(axes) \in {"VeeR"}
  PROVE  axes.inventory[2] = "VeeR"
<1>. DEFINE inv == axes.inventory
            at == {i \in 1..Len(inv) : inv[i] = axes.family /\ i < Len(inv)}
<1>1. FallbackFamily(axes) = IF at = {} THEN "" ELSE inv[(CHOOSE i \in at : TRUE) + 1]
  BY DEF FallbackFamily
<1>2. at # {} /\ FallbackFamily(axes) = inv[(CHOOSE i \in at : TRUE) + 1]
  <2>. HIDE DEF at, inv
  <2>. QED
    BY <1>1
<1>3. (CHOOSE i \in at : TRUE) \in at
  BY <1>2
<1>4. Len(inv) \in Nat
  OBVIOUS
<1>5. \A i \in at : i = 1
  BY <1>4
<1>. QED
  BY <1>2, <1>3, <1>5

-----------------------------------------------------------------------------
(* E906 as the breadth. *)

LEMMA CandidateOnly ==
  ASSUME NEW goal, NEW readiness, NEW override, NEW e,
         BreadthGate("e906_candidate_only_threshold2", BreadthStatus(goal, readiness, override, e)).status
           \in ReadyStatuses \cup {"family_pilot_ready"}
  PROVE  /\ override.recommended = "XuanTie-E902"
         /\ e.e906.blocked /\ e.e906.two = "hybrid"
<1>. DEFINE st == BreadthStatus(goal, readiness, override, e)
            two == e.e906.blocked /\ e.e906.two = "hybrid"
            strongest == e.e906.strongest
            blocked == e.e906.blocked
<1>1. st.status
        = IF goal.status # "accepted_checkpoint_and_seed" THEN "blocked_accept_checkpoint_and_seed_first"
          ELSE IF override.recommended # "XuanTie-E902" THEN "blocked_unexpected_seed_order"
          ELSE IF override.fallback # "XuanTie-E906" THEN "blocked_unexpected_e906_fallback_order"
          ELSE IF two /\ strongest THEN "decide_threshold2_promotion"
          ELSE IF two THEN "decide_e906_candidate_only"
          ELSE IF blocked THEN "define_new_e906_default_gate"
          ELSE "advance_e906_default_gate"
  BY DEF BreadthStatus
<1>2. BreadthOutcome("e906_candidate_only_threshold2", st) \in ReadyStatuses \cup {"family_pilot_ready"}
  BY DEF BreadthGate
<1>. HIDE DEF st
<1>3. st.status \in {"decide_threshold2_promotion", "decide_e906_candidate_only"}
  BY <1>2 DEF BreadthOutcome, ReadyStatuses
<1>4. override.recommended = "XuanTie-E902" /\ two
  <2>. HIDE DEF two, strongest, blocked
  <2>. QED
    BY <1>1, <1>3
<1>. QED
  BY <1>4

LEMMA DefaultGateReady ==
  ASSUME NEW goal, NEW readiness, NEW override, NEW e,
         BreadthGate("e906_default_gate_hold", BreadthStatus(goal, readiness, override, e)).status
           \in ReadyStatuses \cup {"family_pilot_ready"}
  PROVE  ~e.e906.blocked
<1>. DEFINE st == BreadthStatus(goal, readiness, override, e)
            blocked == st.blocked
<1>1. BreadthOutcome("e906_default_gate_hold", st) \in ReadyStatuses \cup {"family_pilot_ready"}
  BY DEF BreadthGate
<1>2. BreadthOutcome("e906_default_gate_hold", st) = IF blocked THEN "default_gate_hold" ELSE "default_gate_ready"
  BY DEF BreadthOutcome
<1>3. ~blocked
  <2>. HIDE DEF st, blocked
  <2>. QED
    BY <1>1, <1>2 DEF ReadyStatuses
<1>4. st.blocked = e.e906.blocked
  BY DEF BreadthStatus
<1>. QED
  BY <1>3, <1>4, Zenon

LEMMA PilotCanRun ==
  ASSUME NEW goal, NEW readiness, NEW override, NEW e,
         BreadthGate("xuantie_family_pilot_recovery", BreadthStatus(goal, readiness, override, e)).status
           \in ReadyStatuses \cup {"family_pilot_ready"}
  PROVE  readiness.status = "ready_to_run_pilot"
<1>1. BreadthOutcome("xuantie_family_pilot_recovery", BreadthStatus(goal, readiness, override, e))
        = "family_pilot_ready"
  BY DEF BreadthGate, BreadthOutcome, ReadyStatuses
<1>2. BreadthStatus(goal, readiness, override, e).readiness = readiness.status
  BY DEF BreadthStatus
<1>. QED
  BY <1>1, <1>2 DEF BreadthOutcome

\* The candidates recommend a design only where a pilot has failed.
LEMMA OverrideAdvised ==
  ASSUME NEW readiness, NEW e, OverrideCandidates(readiness, e).recommended \in {"XuanTie-E902"}
  PROVE  readiness.mode = "family_pilot" /\ readiness.status = "override_ready"
<1>. DEFINE advise == /\ readiness.mode = "family_pilot" /\ readiness.status = "override_ready"
                      /\ DOMAIN readiness.boot # {}
            first == Best(DOMAIN readiness.boot, e, readiness.boot)
<1>1. OverrideCandidates(readiness, e).recommended = IF advise THEN first ELSE ""
  BY DEF OverrideCandidates
<1>2. advise
  <2>. HIDE DEF advise, first
  <2>. QED
    BY <1>1
<1>. QED
  BY <1>2

LEMMA PilotLeft ==
  ASSUME NEW pilot, NEW bootstrapped \in BOOLEAN,
         pilot.left \in {"unreadable", "success", "no_bench", "failed", "none"},
         pilot.bench \in BOOLEAN, pilot.tools \in BOOLEAN
  PROVE  /\ PilotReadiness(pilot, bootstrapped) = "override_ready" => pilot.left \in {"no_bench", "none"}
         /\ PilotReadiness(pilot, bootstrapped) = "ready_to_run_pilot" => pilot.left = "none" /\ pilot.tools
<1>. DEFINE bench == pilot.bench
            tools == pilot.tools
            left == pilot.left
<1>1. PilotReadiness(pilot, bootstrapped)
        = CASE left = "unreadable" -> "legacy_artifact_unreadable"
            [] left = "success"    -> "pilot_artifact_present"
            [] left = "no_bench" /\ bootstrapped  -> "override_ready"
            [] left = "no_bench" /\ ~bootstrapped -> "legacy_pilot_failed"
            [] left = "failed"     -> "legacy_pilot_failed"
            [] left = "none" /\ ~bench /\ bootstrapped -> "override_ready"
            [] left = "none" /\ ~bench /\ ~bootstrapped -> "blocked_by_missing_tool"
            [] left = "none" /\ bench /\ ~tools -> "blocked_by_missing_tool"
            [] left = "none" /\ bench /\ tools -> "ready_to_run_pilot"
  BY DEF PilotReadiness
<1>2. bench \in BOOLEAN /\ tools \in BOOLEAN
  OBVIOUS
<1>3. left \in {"unreadable", "success", "no_bench", "failed", "none"}
  OBVIOUS
<1>4. /\ PilotReadiness(pilot, bootstrapped) = "override_ready" => left \in {"no_bench", "none"}
      /\ PilotReadiness(pilot, bootstrapped) = "ready_to_run_pilot" => left = "none" /\ tools
  <2>. HIDE DEF bench, tools, left
  <2>. QED
    BY <1>1, <1>2, <1>3
<1>. QED
  BY <1>4

LEMMA ReadinessOfPilot ==
  ASSUME NEW entry, NEW e, Readiness(entry, e).status \in {"override_ready", "ready_to_run_pilot"}
  PROVE  /\ entry.mode = "family_pilot"
         /\ \E b \in BOOLEAN : Readiness(entry, e).status = PilotReadiness(e.pilot, b)
<1>. DEFINE boot == IF entry.family = "XuanTie" THEN e.boot ELSE <<>>
            some == \E d \in DOMAIN boot : boot[d]
<1>1. Readiness(entry, e).status
        = IF entry.family = "" THEN "no_recommended_entry"
          ELSE IF entry.mode = "family_pilot" THEN PilotReadiness(e.pilot, some)
          ELSE "needs_entry_mode_specific_runner"
  BY Zenon DEF Readiness
<1>2. some \in BOOLEAN
  OBVIOUS
<1>. HIDE DEF some
<1>3. entry.mode = "family_pilot" /\ Readiness(entry, e).status = PilotReadiness(e.pilot, some)
  BY <1>1
<1>. QED
  BY <1>2, <1>3

LEMMA PilotIsNotStock ==
  ASSUME NEW axes, NEW e, e.shape.stock \in BOOLEAN, Entry(axes, e).mode = "family_pilot"
  PROVE  ~e.shape.stock
<1>. DEFINE stock == e.shape.stock
            family == e.shape.family \/ ~e.shape.single
<1>1. EntryMode(e.shape) = "family_pilot"
  BY DEF Entry
<1>2. EntryMode(e.shape)
        = IF stock THEN "single_surface" ELSE IF family THEN "family_pilot" ELSE "single_surface"
  BY DEF EntryMode
<1>3. ~stock
  <2>. HIDE DEF stock, family
  <2>. QED
    BY <1>1, <1>2
<1>. QED
  BY <1>3

-----------------------------------------------------------------------------
(* C906 as the next step of the family. *)

LEMMA FirstIsOfDesigns ==
  ASSUME NEW designs, NEW e, designs # {}
  PROVE  FirstDesign(designs, e) \in designs
<1>. DEFINE wins == {d \in designs : LineKind(e.surface[d]) = "default_gate_hybrid_win"}
            candidates == {d \in designs : LineKind(e.surface[d]) = "candidate_only_hybrid_win"}
            rest == IF wins # {} THEN wins ELSE IF candidates # {} THEN candidates ELSE designs
<1>1. FirstDesign(designs, e) = IF e.faster \in rest THEN e.faster ELSE CHOOSE d \in rest : TRUE
  BY DEF FirstDesign
<1>2. rest \subseteq designs /\ rest # {}
  OBVIOUS
<1>. HIDE DEF rest
<1>. QED
  BY <1>1, <1>2

LEMMA SameGateReady ==
  ASSUME NEW name \in {"c906_candidate", "c906_hold"}, NEW step,
         SameFamilyGate(name, step).status \in ReadyStatuses
  PROVE  /\ \/ step.status = "ready_to_accept_default_gate"
            \/ step.status = "decide_candidate_only" /\ step.value = 5
         /\ step.design \in Range(Members) => step.design = "XuanTie-C906"
<1>. DEFINE p == SameFamilyProfile[name]
<1>1. PolicyStatus(p, step) \in {"candidate_only_ready", "default_gate_ready"}
  BY DEF SameFamilyGate, PolicyReport, ReadyStatuses
<1>2. /\ p = IF name = "c906_candidate" THEN Candidate("XuanTie-C906", 5) ELSE Hold("XuanTie-C906")
  BY DEF SameFamilyProfile
<1>3. p.design = "XuanTie-C906" /\ (p.mode = "default_gate_hold" \/ p.value = 5)
  BY <1>2 DEF Candidate, Hold
<1>. HIDE DEF p
<1>4. ~Mismatch(p, step)
  BY <1>1 DEF PolicyStatus
<1>5. \/ step.status = "ready_to_accept_default_gate"
      \/ step.status = "decide_candidate_only" /\ step.value = 5
  BY <1>1, <1>3, <1>4 DEF PolicyStatus, HoldStatus, CandidateStatus
<1>6. \A x \in Range(Members) : x # ""
  <2>1. DOMAIN Members = 1..4 /\ \A i \in 1..4 : Members[i] # ""
    BY DEF Members
  <2>. QED
    BY <2>1 DEF Range
<1>7. step.design \in Range(Members) => step.design = "XuanTie-C906"
  BY <1>3, <1>4, <1>6 DEF Mismatch
<1>. QED
  BY <1>5, <1>7

\* A step that can be accepted is that of the first candidate.
LEMMA StepOfCandidates ==
  ASSUME NEW gate, NEW candidates,
         SameFamilyStep(gate, candidates).status \in {"ready_to_accept_default_gate", "decide_candidate_only"}
  PROVE  /\ candidates.designs # {}
         /\ SameFamilyStep(gate, candidates).design = candidates.first
         /\ SameFamilyStep(gate, candidates).value = candidates.value
         /\ SameFamilyStep(gate, candidates).status
              = [default_gate_hybrid_win |-> "ready_to_accept_default_gate",
                 candidate_only_hybrid_win |-> "decide_candidate_only",
                 comparison_exists_but_not_ready |-> "default_gate_unresolved",
                 no_comparison_artifact |-> "run_trio"][candidates.kind]
BY DEF SameFamilyStep

LEMMA KindWins ==
  ASSUME NEW s
  PROVE  /\ LineKind(s) \in {"default_gate_hybrid_win", "candidate_only_hybrid_win",
                             "comparison_exists_but_not_ready", "no_comparison_artifact"}
         /\ LineKind(s) = "default_gate_hybrid_win" => s.default = "hybrid"
         /\ LineKind(s) = "candidate_only_hybrid_win" => s.candidate = "hybrid"
BY DEF LineKind

LEMMA C906Wins ==
  ASSUME TInv, UpToDate, work["same_gate"].status \in ReadyStatuses
  PROVE  Wins(evidence.surface["XuanTie-C906"], 5)
<1>. DEFINE step == work["same_step"]
            first == work["branch_candidates"].first
            kind == work["branch_candidates"].kind
<1>1. selection["same"] \in {"c906_candidate", "c906_hold"}
  BY SelectionsAreWhole, GateValues, ProfileValues
<1>2. /\ \/ step.status = "ready_to_accept_default_gate"
         \/ step.status = "decide_candidate_only" /\ step.value = 5
      /\ step.design \in Range(Members) => step.design = "XuanTie-C906"
  BY <1>1, FreshFamilyFiles, SameGateReady
<1>3. work["branch_candidates"].designs # {} /\ step.design = first
  BY <1>2, FreshFamilyFiles, StepOfCandidates
<1>4. /\ step.value = work["branch_candidates"].value
      /\ step.status = [default_gate_hybrid_win |-> "ready_to_accept_default_gate",
                        candidate_only_hybrid_win |-> "decide_candidate_only",
                        comparison_exists_but_not_ready |-> "default_gate_unresolved",
                        no_comparison_artifact |-> "run_trio"][kind]
  BY <1>2, FreshFamilyFiles, StepOfCandidates
<1>5. work["breadth_axes"].remaining # {} /\ first = FirstDesign(work["breadth_axes"].remaining, evidence)
  BY <1>3, FreshFamilyFiles, CandidatesMeasured
<1>6. kind = LineKind(evidence.surface[first]) /\ work["branch_candidates"].value = evidence.surface[first].value
  BY <1>3, FreshFamilyFiles, CandidatesMeasured
<1>7. work["breadth_axes"].remaining \subseteq Range(Members)
  BY FreshFamilyFiles, BreadthAxesNames
<1>8. first = "XuanTie-C906"
  BY <1>2, <1>3, <1>5, <1>7, FirstIsOfDesigns
<1>. DEFINE s == evidence.surface["XuanTie-C906"]
<1>9. kind = LineKind(s) /\ step.value = s.value
  BY <1>4, <1>6, <1>8
<1>. HIDE DEF step, first, kind, s
<1>10. \/ LineKind(s) = "default_gate_hybrid_win"
       \/ LineKind(s) = "candidate_only_hybrid_win" /\ s.value = 5
  BY <1>2, <1>4, <1>9, KindWins
<1>11. Wins(s, 5)
  BY <1>10, KindWins DEF Wins
<1>. QED
  BY <1>11 DEF s

-----------------------------------------------------------------------------
(* What the opening of VeeR rests on. *)

\* A recommended E902 is a pilot that could not be run.
LEMMA OverrideIsMeasured ==
  ASSUME TInv, UpToDate, work["override"].recommended \in {"XuanTie-E902"}
  PROVE  ~evidence.shape.stock /\ evidence.pilot.left \in {"no_bench", "none"}
<1>1. work["readiness"].status = "override_ready"
  BY FreshGoalFiles, OverrideAdvised
<1>2. /\ work["entry"].mode = "family_pilot"
      /\ \E b \in BOOLEAN : work["readiness"].status = PilotReadiness(evidence.pilot, b)
  BY <1>1, FreshGoalFiles, ReadinessOfPilot
<1>3. /\ evidence.pilot.left \in {"unreadable", "success", "no_bench", "failed", "none"}
      /\ evidence.pilot.bench \in BOOLEAN /\ evidence.pilot.tools \in BOOLEAN /\ evidence.shape.stock \in BOOLEAN
  BY EvidenceAssumption DEF TInv
<1>4. PICK b \in BOOLEAN : work["readiness"].status = PilotReadiness(evidence.pilot, b)
  BY <1>2
<1>5. evidence.pilot.left \in {"no_bench", "none"}
  BY <1>1, <1>2, <1>3, <1>4, PilotLeft
<1>6. ~evidence.shape.stock
  BY <1>2, <1>3, FreshGoalFiles, PilotIsNotStock
<1>. QED
  BY <1>5, <1>6

LEMMA PilotIsMeasured ==
  ASSUME TInv, UpToDate, work["readiness"].status = "ready_to_run_pilot"
  PROVE  ~evidence.shape.stock /\ evidence.pilot.left = "none" /\ evidence.pilot.tools
<1>1. /\ work["entry"].mode = "family_pilot"
      /\ \E b \in BOOLEAN : work["readiness"].status = PilotReadiness(evidence.pilot, b)
  BY FreshGoalFiles, ReadinessOfPilot
<1>2. /\ evidence.pilot.left \in {"unreadable", "success", "no_bench", "failed", "none"}
      /\ evidence.pilot.bench \in BOOLEAN /\ evidence.pilot.tools \in BOOLEAN /\ evidence.shape.stock \in BOOLEAN
  BY EvidenceAssumption DEF TInv
<1>3. PICK b \in BOOLEAN : work["readiness"].status = PilotReadiness(evidence.pilot, b)
  BY <1>1
<1>4. evidence.pilot.left = "none" /\ evidence.pilot.tools
  BY <1>1, <1>2, <1>3, PilotLeft
<1>5. ~evidence.shape.stock
  BY <1>1, <1>2, FreshGoalFiles, PilotIsNotStock
<1>. QED
  BY <1>4, <1>5

LEMMA BreadthNeedsAll ==
  ASSUME TInv, UpToDate, work["breadth_gate"].status \in ReadyStatuses \cup {"family_pilot_ready"}
  PROVE  BreadthIsBacked
<1>. DEFINE status == BreadthStatus(work["goal_gate"], work["readiness"], work["override"], evidence)
<1>1. BreadthGate(selection["breadth"], status).status \in ReadyStatuses \cup {"family_pilot_ready"}
  BY FreshFamilyFiles
<1>2. ASSUME selection["breadth"] = "e906_candidate_only_threshold2"
      PROVE  /\ evidence.e906.blocked /\ evidence.e906.two = "hybrid"
             /\ ~evidence.shape.stock /\ evidence.pilot.left \in {"no_bench", "none"}
  <2>1. /\ work["override"].recommended = "XuanTie-E902"
        /\ evidence.e906.blocked /\ evidence.e906.two = "hybrid"
    BY <1>1, <1>2, CandidateOnly, Zenon
  <2>2. ~evidence.shape.stock /\ evidence.pilot.left \in {"no_bench", "none"}
    BY <2>1, OverrideIsMeasured
  <2>. QED
    BY <2>1, <2>2
<1>3. ASSUME selection["breadth"] = "e906_default_gate_hold"
      PROVE  ~evidence.e906.blocked
  BY <1>1, <1>3, DefaultGateReady, Zenon
<1>4. ASSUME selection["breadth"] = "xuantie_family_pilot_recovery"
      PROVE  ~evidence.shape.stock /\ evidence.pilot.left = "none" /\ evidence.pilot.tools
  <2>1. work["readiness"].status = "ready_to_run_pilot"
    BY <1>1, <1>4, PilotCanRun, Zenon
  <2>. QED
    BY <2>1, PilotIsMeasured
<1>. QED
  BY <1>2, <1>3, <1>4, Zenon DEF BreadthIsBacked

LEMMA AxesInventory ==
  ASSUME NEW checkpoint, NEW kpi, NEW e
  PROVE  PostCheckpointAxes(checkpoint, kpi, e).inventory = e.inventory
BY DEF PostCheckpointAxes

\* The fallback family of the axes is the second of the inventory.
LEMMA VeerIsSecond ==
  ASSUME TInv, UpToDate, FallbackFamily(work["axes"]) = "VeeR",
         work["axes"].family = evidence.inventory[1]
  PROVE  evidence.inventory[2] = "VeeR"
<1>1. work["axes"].inventory = evidence.inventory
  BY FreshGoalFiles, AxesInventory
<1>2. /\ evidence.inventory \in Seq(STRING)
      /\ \A i, j \in 1..Len(evidence.inventory) : evidence.inventory[i] = evidence.inventory[j] => i = j
  BY EvidenceAssumption DEF TInv
<1>. QED
  BY <1>1, <1>2, FallbackIsSecond

LEMMA VeerNeedsAll ==
  ASSUME TInv, UpToDate, work["c910_gate"].status = "open_fallback_family_ready"
  PROVE  /\ work["goal_gate"].status = "accepted_checkpoint_and_seed"
         /\ \A c \in {"breadth_acceptance", "branch", "same_acceptance", "c910"} : selection[c] = CheckedIn[c]
         /\ BreadthIsBacked
         /\ evidence.inventory[2] = "VeeR" /\ evidence.fallback_runner
         /\ Wins(evidence.surface["XuanTie-C906"], 5)
<1>1. /\ selection["c910"]
           \in {"open_veer_fallback_family", "debug_c910_hybrid_runtime", "hold_c910_runtime_branch"}
      /\ selection["branch"]
           \in {"xuantie_continue_same_family", "open_veer_fallback_family", "hold_post_e906_branch"}
  BY SelectionsAreWhole, GateValues, ProfileValues
<1>2. /\ selection["c910"] = "open_veer_fallback_family"
      /\ work["same_next_axes"].status = "decide_continue_vs_fallback"
      /\ work["same_next_axes"].fallback = "VeeR"
  BY <1>1, FreshFamilyFiles, C910Opens
<1>3. work["same_acceptance_gate"].status = "accepted"
  BY <1>2, FreshFamilyFiles, NextAxesDecide
<1>4. /\ selection["same_acceptance"] = "accept"
      /\ work["branch_gate"].status = "continue_same_family_ready"
      /\ work["same_gate"].status \in ReadyStatuses
  BY <1>3, FreshFamilyFiles, SameAccepted
<1>5. /\ selection["branch"] = "xuantie_continue_same_family"
      /\ work["breadth_axes"].status = "decide_continue_vs_fallback"
      /\ work["breadth_axes"].family = "XuanTie"
  BY <1>1, <1>4, FreshFamilyFiles, BranchContinues
<1>6. /\ work["goal_gate"].status = "accepted_checkpoint_and_seed"
      /\ work["breadth_acceptance_gate"].status = "accepted"
  BY <1>5, FreshFamilyFiles, BreadthDecides
<1>7. /\ selection["breadth_acceptance"] = "accept"
      /\ work["breadth_gate"].status \in ReadyStatuses \cup {"family_pilot_ready"}
  BY <1>6, FreshFamilyFiles, BreadthAccepted
<1>8. work["branch_candidates"].fallback = "VeeR"
  BY <1>2, FreshFamilyFiles, NextAxesFallback
<1>9. /\ "open_veer_fallback_family" \in work["branch_profiles"].ready
      /\ evidence.fallback_runner
  BY <1>8, FreshFamilyFiles, CandidatesOffer
<1>10. work["breadth_axes"].fallback = "VeeR"
  BY <1>9, FreshFamilyFiles, VeerIsReady
<1>11. FallbackFamily(work["axes"]) = "VeeR" /\ work["axes"].family = "XuanTie"
  BY <1>5, <1>10, FreshFamilyFiles, BreadthAxesNames
<1>12. evidence.inventory[1] = "XuanTie"
  BY <1>6, GoalNeedsAll
<1>13. evidence.inventory[2] = "VeeR"
  BY <1>11, <1>12, VeerIsSecond
<1>14. \A c \in {"breadth_acceptance", "branch", "same_acceptance", "c910"} : selection[c] = CheckedIn[c]
  BY <1>2, <1>4, <1>5, <1>7 DEF CheckedIn
<1>. QED
  BY <1>4, <1>6, <1>7, <1>9, <1>13, <1>14, BreadthNeedsAll, C906Wins

-----------------------------------------------------------------------------
(* The matrices of profiles: what one advises to go on with is open. *)

LEMMA MatrixAdvises ==
  ASSUME NEW current, NEW status, NEW profiles, NEW ready, NEW holds,
         Matrix(current, status, profiles, ready, holds).status = "accept_current"
  PROVE  status[current] \in ready
<1>. DEFINE open == {p \in DOMAIN status : status[p] \in ready \cup holds}
            chosen == current = FirstIn(profiles, open) /\ status[current] \in ready
<1>1. Matrix(current, status, profiles, ready, holds).status
        = IF open = {} THEN "repair_profiles" ELSE IF chosen THEN "accept_current" ELSE "choose_named"
  BY DEF Matrix
<1>2. chosen
  <2>. HIDE DEF open, chosen
  <2>. QED
    BY <1>1
<1>. QED
  BY <1>2

LEMMA OpenValues ==
  OpenStatuses = {"single_surface_ready", "single_surface_trio_ready", "family_pilot_ready", "accepted",
                  "accepted_checkpoint_and_seed", "continue_same_family_ready", "open_fallback_family_ready",
                  "debug_ready", "recovered", "candidate_only_ready", "default_gate_ready"}
BY DEF OpenStatuses, ReadyStatuses

LEMMA EntryAdvice ==
  ASSUME NEW current \in {"xuantie_single_surface_e902", "xuantie_family_pilot_hold"},
         NEW entry, NEW readiness, NEW override,
         EntryMatrix(current, entry, readiness, override).status = "accept_current"
  PROVE  EntryGate(current, entry, readiness, override).status \in OpenStatuses
<1>. DEFINE status == [p \in {"xuantie_family_pilot_hold", "xuantie_single_surface_e902"} |->
                         EntryOutcome(p, entry, readiness, override)]
            ready == {"single_surface_ready", "single_surface_trio_ready", "family_pilot_ready"}
            profiles == <<"xuantie_family_pilot_hold", "xuantie_single_surface_e902">>
<1>1. Matrix(current, status, profiles, ready, {}).status = "accept_current"
  BY DEF EntryMatrix
<1>2. status[current] = EntryOutcome(current, entry, readiness, override)
  OBVIOUS
<1>. HIDE DEF status, profiles, ready
<1>3. status[current] \in ready
  BY <1>1, MatrixAdvises
<1>4. ready \subseteq OpenStatuses
  BY OpenValues DEF ready
<1>. QED
  BY <1>2, <1>3, <1>4 DEF EntryGate

LEMMA GoalAdvice ==
  ASSUME NEW current, NEW checkpoint, NEW seed,
         GoalMatrix(current, checkpoint, seed).status = "accept_current"
  PROVE  GoalGate(current, checkpoint, seed).status = "accepted_checkpoint_and_seed"
<1>. DEFINE names == <<"accept_checkpoint_and_seed", "accept_checkpoint_only", "hold_checkpoint_and_seed">>
            accepted == {p \in Range(names) : GoalOutcome(p, checkpoint, seed) = "accepted_checkpoint_and_seed"}
            partial == {p \in Range(names) : GoalOutcome(p, checkpoint, seed) = "checkpoint_accepted_seed_pending"}
<1>1. GoalMatrix(current, checkpoint, seed)
        = IF current \in accepted THEN [status |-> "accept_current", recommended |-> current]
          ELSE IF accepted # {} THEN [status |-> "choose_named", recommended |-> FirstIn(names, accepted)]
          ELSE IF partial # {} THEN [status |-> "accept_checkpoint_before_seed", recommended |-> FirstIn(names, partial)]
          ELSE [status |-> "repair_profiles", recommended |-> "hold_checkpoint_and_seed"]
  BY DEF GoalMatrix
<1>2. current \in accepted
  <2>. HIDE DEF names, accepted, partial
  <2>. QED
    BY <1>1
<1>. QED
  BY <1>2 DEF GoalGate

LEMMA BreadthAdvice ==
  ASSUME NEW current \in {"e906_candidate_only_threshold2", "e906_default_gate_hold", "xuantie_family_pilot_recovery"},
         NEW status, BreadthMatrix(current, status).status = "accept_current"
  PROVE  BreadthGate(current, status).status \in OpenStatuses
<1>. DEFINE profiles == <<"e906_candidate_only_threshold2", "e906_default_gate_hold", "xuantie_family_pilot_recovery">>
            outcome == [p \in Range(profiles) |-> BreadthOutcome(p, status)]
            ready == ReadyStatuses \cup {"family_pilot_ready"}
<1>1. Matrix(current, outcome, profiles, ready, {"default_gate_hold"}).status = "accept_current"
  BY DEF BreadthMatrix
<1>2. current \in Range(profiles)
  <2>1. DOMAIN profiles = 1..3 /\ \E i \in 1..3 : profiles[i] = current
    OBVIOUS
  <2>. HIDE DEF profiles
  <2>. QED
    BY <2>1 DEF Range
<1>3. outcome[current] = BreadthOutcome(current, status)
  BY <1>2
<1>. HIDE DEF outcome, profiles, ready
<1>4. outcome[current] \in ready
  BY <1>1, MatrixAdvises
<1>5. ready \subseteq OpenStatuses
  BY OpenValues DEF ready, ReadyStatuses
<1>. QED
  BY <1>3, <1>4, <1>5 DEF BreadthGate

LEMMA BreadthAcceptanceAdvice ==
  ASSUME NEW current \in {"accept", "hold"}, NEW goal, NEW gate,
         BreadthAcceptanceMatrix(current, goal, gate).status = "accept_current"
  PROVE  BreadthAcceptance(current, goal, gate).status \in OpenStatuses
<1>. DEFINE outcome == [p \in {"accept", "hold"} |-> BreadthAcceptanceStatus(p, goal, gate)]
            profiles == <<"accept", "hold">>
<1>1. Matrix(current, outcome, profiles, {"accepted"}, {"hold"}).status = "accept_current"
  BY DEF BreadthAcceptanceMatrix
<1>2. outcome[current] = BreadthAcceptanceStatus(current, goal, gate)
  OBVIOUS
<1>. HIDE DEF outcome, profiles
<1>3. outcome[current] \in {"accepted"}
  BY <1>1, MatrixAdvises
<1>. QED
  BY <1>2, <1>3, OpenValues DEF BreadthAcceptance, AcceptanceReport

LEMMA BranchAdvice ==
  ASSUME NEW current, NEW axes, BranchProfiles(current, axes).status = "accept_current"
  PROVE  BranchGate(current, axes).status \in OpenStatuses
<1>. DEFINE ready == BranchReady(axes)
<1>1. BranchProfiles(current, axes).status
        = IF ready = {} THEN "repair_profiles" ELSE IF ready = {current} THEN "accept_current" ELSE "choose_named"
  BY DEF BranchProfiles
<1>. HIDE DEF ready
<1>2. current \in ready
  BY <1>1
<1>3. BranchOutcome(current, axes) \in {"continue_same_family_ready", "open_fallback_family_ready"}
  BY <1>2 DEF ready, BranchReady
<1>. QED
  BY <1>3, OpenValues DEF BranchGate

LEMMA SameAdvice ==
  ASSUME NEW current \in {"c906_candidate", "c906_hold"}, NEW step,
         SameFamilyMatrix(current, step).status = "accept_current"
  PROVE  SameFamilyGate(current, step).status \in OpenStatuses
<1>. DEFINE outcome == [p \in {"c906_candidate", "c906_hold"} |-> PolicyStatus(SameFamilyProfile[p], step)]
            profiles == <<"c906_candidate", "c906_hold">>
<1>1. Matrix(current, outcome, profiles, ReadyStatuses, {"default_gate_hold"}).status = "accept_current"
  BY DEF SameFamilyMatrix
<1>2. outcome[current] = PolicyStatus(SameFamilyProfile[current], step)
  OBVIOUS
<1>. HIDE DEF outcome, profiles
<1>3. outcome[current] \in ReadyStatuses
  BY <1>1, MatrixAdvises
<1>. QED
  BY <1>2, <1>3 DEF SameFamilyGate, PolicyReport, OpenStatuses

LEMMA SameAcceptanceAdvice ==
  ASSUME NEW current \in {"accept", "hold"}, NEW branch, NEW gate,
         SameFamilyAcceptanceMatrix(current, branch, gate).status = "accept_current"
  PROVE  SameFamilyAcceptance(current, branch, gate).status \in OpenStatuses
<1>. DEFINE outcome == [p \in {"accept", "hold"} |-> SameFamilyAcceptanceStatus(p, branch, gate)]
            profiles == <<"accept", "hold">>
<1>1. Matrix(current, outcome, profiles, {"accepted"}, {"hold"}).status = "accept_current"
  BY DEF SameFamilyAcceptanceMatrix
<1>2. outcome[current] = SameFamilyAcceptanceStatus(current, branch, gate)
  OBVIOUS
<1>. HIDE DEF outcome, profiles
<1>3. outcome[current] \in {"accepted"}
  BY <1>1, MatrixAdvises
<1>. QED
  BY <1>2, <1>3, OpenValues DEF SameFamilyAcceptance, AcceptanceReport

\* The matrix of C910 recommends none but an open profile; no profile has the
\* empty name.
LEMMA C910Advice ==
  ASSUME NEW current, NEW status, NEW axes, NEW tactics,
         C910Profiles(current, status, axes, tactics).status = "accept_current"
  PROVE  C910Gate(current, status, axes).status \in OpenStatuses
<1>. DEFINE names == {"debug_c910_hybrid_runtime", "open_veer_fallback_family"}
            open == {"debug_ready", "recovered", "open_fallback_family_ready"}
            ready == {p \in names : C910Outcome(p, status, axes) \in open}
            advised == /\ Present(tactics) /\ tactics.status = "open_veer_fallback_family"
                       /\ "open_veer_fallback_family" \in ready
            recommended == IF ready = {} THEN ""
                           ELSE IF "debug_c910_hybrid_runtime" \notin ready \/ advised
                           THEN "open_veer_fallback_family" ELSE "debug_c910_hybrid_runtime"
<1>1. C910Profiles(current, status, axes, tactics).status
        = IF ready = {} THEN "repair_profiles"
          ELSE IF current = recommended THEN "accept_current" ELSE "choose_named"
  BY DEF C910Profiles
<1>2. advised => "open_veer_fallback_family" \in ready
  OBVIOUS
<1>3. ready \subseteq names
  OBVIOUS
<1>4. ready # {} => recommended \in ready
  <2>. HIDE DEF ready, advised
  <2>. QED
    BY <1>2, <1>3
<1>5. current \in ready
  <2>. HIDE DEF ready, recommended
  <2>. QED
    BY <1>1, <1>4
<1>6. C910Outcome(current, status, axes) \in open
  BY <1>5
<1>7. open \subseteq OpenStatuses
  BY OpenValues
<1>. QED
  BY <1>6, <1>7 DEF C910Gate

LEMMA MatrixOfChains ==
  /\ MatrixOf["entry"] = "entry_matrix" /\ MatrixOf["goal"] = "goal_matrix"
  /\ MatrixOf["breadth"] = "breadth_matrix" /\ MatrixOf["breadth_acceptance"] = "breadth_acceptance_matrix"
  /\ MatrixOf["branch"] = "branch_profiles" /\ MatrixOf["same"] = "same_matrix"
  /\ MatrixOf["same_acceptance"] = "same_acceptance_matrix" /\ MatrixOf["c910"] = "c910_profiles"
BY DEF MatrixOf

LEMMA AdviceNeedsOpen ==
  ASSUME TInv, UpToDate
  PROVE  AdviceIsBacked
<1>1. /\ selection["entry"] \in {"xuantie_single_surface_e902", "xuantie_family_pilot_hold"}
      /\ selection["breadth"]
           \in {"e906_candidate_only_threshold2", "e906_default_gate_hold", "xuantie_family_pilot_recovery"}
      /\ selection["breadth_acceptance"] \in {"accept", "hold"}
      /\ selection["same"] \in {"c906_candidate", "c906_hold"}
      /\ selection["same_acceptance"] \in {"accept", "hold"}
  BY SelectionsAreWhole, GateValues, ProfileValues
<1>2. work["entry_matrix"].status = "accept_current" => work["entry_gate"].status \in OpenStatuses
  BY <1>1, FreshGoalFiles, FreshMatrices, EntryAdvice
<1>3. work["goal_matrix"].status = "accept_current" => work["goal_gate"].status \in OpenStatuses
  BY FreshGoalFiles, FreshMatrices, GoalAdvice, OpenValues
<1>4. work["breadth_matrix"].status = "accept_current" => work["breadth_gate"].status \in OpenStatuses
  BY <1>1, FreshFamilyFiles, FreshMatrices, BreadthAdvice
<1>5. work["breadth_acceptance_matrix"].status = "accept_current"
        => work["breadth_acceptance_gate"].status \in OpenStatuses
  BY <1>1, FreshFamilyFiles, FreshMatrices, BreadthAcceptanceAdvice
<1>6. work["branch_profiles"].status = "accept_current" => work["branch_gate"].status \in OpenStatuses
  BY FreshFamilyFiles, BranchAdvice
<1>7. work["same_matrix"].status = "accept_current" => work["same_gate"].status \in OpenStatuses
  BY <1>1, FreshFamilyFiles, FreshMatrices, SameAdvice
<1>8. work["same_acceptance_matrix"].status = "accept_current"
        => work["same_acceptance_gate"].status \in OpenStatuses
  BY <1>1, FreshFamilyFiles, FreshMatrices, SameAcceptanceAdvice
<1>9. work["c910_profiles"].status = "accept_current" => work["c910_gate"].status \in OpenStatuses
  BY FreshFamilyFiles, FreshMatrices, C910Advice
<1>. QED
  BY <1>2, <1>3, <1>4, <1>5, <1>6, <1>7, <1>8, <1>9, GateValues, MatrixOfChains DEF AdviceIsBacked

\* Once every file is up to date, an accepted goal, the opening of VeeR and the
\* advice of every matrix rest on the selections and measurements of now.
THEOREM DecisionsRestOnMeasurements == Spec => []DecisionsAreBacked
<1>1. TInv => DecisionsAreBacked
  <2>. SUFFICES ASSUME TInv, UpToDate PROVE GoalIsBacked /\ VeerIsBacked /\ AdviceIsBacked
    BY DEF DecisionsAreBacked
  <2>1. GoalIsBacked
    BY GoalNeedsAll DEF GoalIsBacked
  <2>2. VeerIsBacked
    BY VeerNeedsAll DEF VeerIsBacked
  <2>3. AdviceIsBacked
    BY AdviceNeedsOpen
  <2>. QED
    BY <2>1, <2>2, <2>3
<1>. QED
  BY <1>1, TInit, TStep, PTL DEF Spec
=============================================================================
