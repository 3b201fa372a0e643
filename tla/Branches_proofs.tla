--------------------------- MODULE Branches_proofs ---------------------------
(***************************************************************************)
(* Proofs about the branches after VeeR.                                   *)
(***************************************************************************)
EXTENDS Branches, WellFoundedInduction, FiniteSetTheorems, TLAPS

\* One tool of an order is run on the files w.
Ran(w, t, s, e) ==
  IF \A n \in Needs(t) : Intact(w[n]) THEN [w EXCEPT ![t] = Report(t, s, e, w)] ELSE w

NoFiles == [t \in Tools |-> Missing]

\* f has the files after each of the first n tools of an order.
RunsTo(f, n, order, s, e) ==
  f = [i \in 0..n |-> IF i = 0 THEN NoFiles ELSE Ran(f[i - 1], order[i], s, e)]

\* A nonempty set of numbers up to n has a least one.
LEMMA Least ==
  ASSUME NEW n \in Nat, NEW T \in SUBSET (0..n), T # {}
  PROVE  \E t \in T : \A u \in T : t <= u
<1>. DEFINE below(t) == { i \in 0..n : i < t }
            belows == { below(t) : t \in T }
<1>1. belows \subseteq FiniteSubsetsOf(0..n) /\ belows # {}
  <2>1. IsFiniteSet(0..n)
    BY FS_Interval
  <2>2. \A t \in T : below(t) \in SUBSET (0..n) /\ IsFiniteSet(below(t))
    BY <2>1, FS_Subset
  <2>. QED
    BY <2>2 DEF FiniteSubsetsOf
<1>2. PICK m \in T : \A t \in T : <<below(t), below(m)>> \notin StrictSubsetOrdering(0..n)
  <2>1. IsWellFoundedOn(StrictSubsetOrdering(0..n), FiniteSubsetsOf(0..n))
    BY FS_StrictSubsetOrderingWellFounded
  <2>. HIDE DEF belows
  <2>2. \E x \in belows : \A y \in belows : ~(<<y, x>> \in StrictSubsetOrdering(0..n))
    BY <1>1, <2>1, WFMin
  <2>. QED
    BY <2>2 DEF belows
<1>3. ASSUME NEW t \in T, t < m  PROVE FALSE
  <2>1. below(t) \in SUBSET (0..n) /\ below(m) \in SUBSET (0..n)
    OBVIOUS
  <2>2. below(t) \subseteq below(m) /\ t \in below(m) /\ t \notin below(t)
    BY <1>3
  <2>. QED
    BY <1>2, <2>1, <2>2 DEF StrictSubsetOrdering
<1>. QED
  BY <1>3

\* The files after each of the first n tools of an order.
LEMMA FilesAfter ==
  ASSUME NEW order \in Seq(Tools), NEW s, NEW e
  PROVE  \A n \in 0..Len(order) :
           \E f : RunsTo(f, n, order, s, e)
<1>. DEFINE Has(n) == \E f : RunsTo(f, n, order, s, e)
            bad == {n \in 0..Len(order) : ~Has(n)}
<1>1. Has(0)
  <2>1. [i \in 0..0 |-> NoFiles] = [i \in 0..0 |-> IF i = 0 THEN NoFiles ELSE Ran([j \in 0..0 |-> NoFiles][i - 1], order[i], s, e)]
    OBVIOUS
  <2>. QED
    BY <2>1 DEF RunsTo
<1>2. ASSUME NEW n \in 1..Len(order), Has(n - 1) PROVE Has(n)
  <2>1. PICK f : f = [i \in 0..n - 1 |-> IF i = 0 THEN NoFiles ELSE Ran(f[i - 1], order[i], s, e)]
    BY <1>2 DEF RunsTo
  <2>. DEFINE g == [i \in 0..n |-> IF i < n THEN f[i] ELSE Ran(f[n - 1], order[n], s, e)]
  <2>2. \A i \in 0..n : g[i] = IF i = 0 THEN NoFiles ELSE Ran(g[i - 1], order[i], s, e)
    <3>. SUFFICES ASSUME NEW i \in 0..n PROVE g[i] = IF i = 0 THEN NoFiles ELSE Ran(g[i - 1], order[i], s, e)
      OBVIOUS
    <3>1. i # 0 => g[i - 1] = f[i - 1]
      OBVIOUS
    <3>2. i < n => f[i] = IF i = 0 THEN NoFiles ELSE Ran(f[i - 1], order[i], s, e)
      BY <2>1
    <3>. QED
      BY <3>1, <3>2
  <2>3. g = [i \in 0..n |-> IF i = 0 THEN NoFiles ELSE Ran(g[i - 1], order[i], s, e)]
    BY <2>2
  <2>. QED
    BY <2>3 DEF RunsTo
<1>. HIDE DEF Has
<1>3. ASSUME bad # {} PROVE FALSE
  <2>0. Len(order) \in Nat /\ bad \in SUBSET (0..Len(order))
    OBVIOUS
  <2>1. PICK m \in bad : \A n \in bad : m <= n
    <3>. HIDE DEF bad
    <3>. QED
      BY <1>3, <2>0, Least
  <2>2. m # 0
    BY <1>1
  <2>3. Has(m - 1)
    BY <2>1, <2>2
  <2>. QED
    BY <1>2, <2>2, <2>3
<1>. QED
  BY <1>3 DEF Has

\* Each step of the runs writes one file more.
LEMMA RunsOn ==
  ASSUME NEW n \in Nat, NEW f, NEW order, NEW s, NEW e, RunsTo(f, n, order, s, e), NEW i \in 1..n
  PROVE  f[i] = Ran(f[i - 1], order[i], s, e)
<1>. DEFINE next(j) == IF j = 0 THEN NoFiles ELSE Ran(f[j - 1], order[j], s, e)
<1>1. f = [j \in 0..n |-> next(j)]
  BY DEF RunsTo
<1>2. i \in 0..n /\ i # 0
  OBVIOUS
<1>3. f[i] = next(i)
  <2>. HIDE DEF next
  <2>. QED
    BY <1>1, <1>2
<1>. QED
  BY <1>2, <1>3

LEMMA OrderRuns ==
  ASSUME NEW order \in Seq(Tools), NEW s, NEW e
  PROVE  \E f : /\ RunsTo(f, Len(order), order, s, e)
                /\ RunInOrder(order, s, e) = f[Len(order)]
<1>. DEFINE after[i \in 0..Len(order)] ==
        IF i = 0 THEN [t \in Tools |-> Missing]
        ELSE LET w == after[i - 1]
                 t == order[i]
             IN  IF \A n \in Needs(t) : Intact(w[n])
                 THEN [w EXCEPT ![t] = Report(t, s, e, w)] ELSE w
<1>1. RunInOrder(order, s, e) = after[Len(order)]
  BY DEF RunInOrder
<1>2. ASSUME NEW f, RunsTo(f, Len(order), order, s, e)
      PROVE  RunsTo(after, Len(order), order, s, e)
  <2>1. f = [i \in 0..Len(order) |->
        IF i = 0 THEN [t \in Tools |-> Missing]
        ELSE LET w == f[i - 1]
                 t == order[i]
             IN  IF \A n \in Needs(t) : Intact(w[n])
                 THEN [w EXCEPT ![t] = Report(t, s, e, w)] ELSE w]
    BY <1>2 DEF RunsTo, NoFiles, Ran
  <2>2. after = [i \in 0..Len(order) |->
        IF i = 0 THEN [t \in Tools |-> Missing]
        ELSE LET w == after[i - 1]
                 t == order[i]
             IN  IF \A n \in Needs(t) : Intact(w[n])
                 THEN [w EXCEPT ![t] = Report(t, s, e, w)] ELSE w]
    BY <2>1
  <2>. QED
    BY <2>2 DEF RunsTo, NoFiles, Ran
<1>3. \E f : RunsTo(f, Len(order), order, s, e)
  <2>1. Len(order) \in 0..Len(order)
    OBVIOUS
  <2>. QED
    BY <2>1, FilesAfter
<1>. HIDE DEF after
<1>. QED
  BY <1>1, <1>2, <1>3

-----------------------------------------------------------------------------
(* Type correctness. *)

WellNamed(t, r) ==
  /\ \A c \in Chains : Gate(c) = t => r.profile \in ProfilesOf[c]
  /\ t = "post_blackparrot_axes" => r.family \in {"", "Vortex"}

FilesNamed(w) ==
  /\ w = [t \in Tools |-> w[t]]
  /\ \A t \in Tools : Intact(w[t]) => WellNamed(t, w[t])

TInv ==
  /\ selection = [c \in Chains |-> selection[c]]
  /\ \A c \in Chains : selection[c] \in ProfilesOf[c] \cup {TornSelection}
  /\ \A c \in Chains : selection[c] = TornSelection => c \in cut
  /\ evidence \in Evidence \cup Arriving
  /\ FilesNamed(work)

\* The gate and the status of the other branch read each other: were both cut
\* short, neither could be written again.
CycleIsOpen == work["vortex_gate"] # Torn \/ work["xiangshan_status"] # Torn

LEMMA GateValues ==
  /\ Chains = {"vortex", "vortex_policy", "vortex_acceptance", "xiangshan", "xiangshan_acceptance",
               "openpiton", "openpiton_acceptance"}
  /\ Gate("vortex") = "vortex_gate" /\ Gate("vortex_policy") = "vortex_policy_gate"
  /\ Gate("vortex_acceptance") = "vortex_acceptance_gate"
  /\ Gate("xiangshan") = "xiangshan_gate"
  /\ Gate("xiangshan_acceptance") = "xiangshan_acceptance_gate"
  /\ Gate("openpiton") = "openpiton_gate"
  /\ Gate("openpiton_acceptance") = "openpiton_acceptance_gate"
BY DEF Chains, CheckedIn, Gate

\* A chain's gate is one tool, the gate of no other chain.
LEMMA GateIsTool ==
  \A c \in Chains : Gate(c) \in Tools /\ ChainsOf(Gate(c)) = {c}
<1>1. \A c \in Chains : Gate(c) \in Tools
  BY GateValues DEF Tools, NeedsOf
<1>2. \A c, d \in Chains : Gate(c) = Gate(d) => c = d
  BY GateValues
<1>. QED
  BY <1>1, <1>2 DEF ChainsOf

LEMMA CheckedInIsProfile ==
  /\ CheckedIn = [c \in Chains |-> CheckedIn[c]]
  /\ \A c \in Chains : CheckedIn[c] \in ProfilesOf[c]
BY DEF Chains, CheckedIn, ProfilesOf, Debug, Reopen, HoldBranch

\* "torn" is the name of no profile.
LEMMA ProfilesAreWhole == \A c \in Chains : TornSelection \notin ProfilesOf[c]
BY GateValues DEF ProfilesOf, TornSelection, Debug, Reopen, HoldBranch

\* A gate names the profile it was computed for.
LEMMA GateNamesProfile ==
  ASSUME NEW c \in Chains, NEW s, NEW e, NEW w
  PROVE  Report(Gate(c), s, e, w).profile = s[c]
<1>1. CASE c = "vortex"
  BY <1>1, GateValues DEF Report, VortexGate
<1>2. CASE c = "vortex_policy"
  BY <1>2, GateValues DEF Report, VortexPolicyGate, PolicyReport
<1>3. CASE c = "vortex_acceptance"
  BY <1>3, GateValues DEF Report, VortexAcceptance
<1>4. CASE c = "xiangshan"
  BY <1>4, GateValues DEF Report, XiangShanGate, PolicyReport
<1>5. CASE c = "xiangshan_acceptance"
  BY <1>5, GateValues DEF Report, XiangShanAcceptance, LateAcceptance
<1>6. CASE c = "openpiton"
  BY <1>6, GateValues DEF Report, OpenPitonGate
<1>7. CASE c = "openpiton_acceptance"
  BY <1>7, GateValues DEF Report, OpenPitonAcceptance, LateAcceptance
<1>. QED
  BY <1>1, <1>2, <1>3, <1>4, <1>5, <1>6, <1>7, GateValues

\* What a tool writes is named for the selection it was written for.
LEMMA ReportNamed ==
  ASSUME NEW t \in Tools, NEW s, \A c \in ChainsOf(t) : s[c] \in ProfilesOf[c], NEW e, NEW w
  PROVE  WellNamed(t, Report(t, s, e, w))
<1>1. ASSUME NEW c \in Chains, Gate(c) = t
      PROVE  Report(t, s, e, w).profile \in ProfilesOf[c]
  BY <1>1, GateNamesProfile DEF ChainsOf
<1>2. t = "post_blackparrot_axes" => Report(t, s, e, w).family \in {"", "Vortex"}
  BY DEF Report, PostBlackParrotAxes, Opens
<1>. QED
  BY <1>1, <1>2 DEF WellNamed

LEMMA WriteNamed ==
  ASSUME NEW w, FilesNamed(w), NEW t \in Tools, NEW r, Intact(r) => WellNamed(t, r)
  PROVE  FilesNamed([w EXCEPT ![t] = r])
BY DEF FilesNamed

\* The gate of Vortex is never written half.
LEMMA GateIsWhole ==
  \A name, status, axes : Intact(VortexGate(name, status, axes))
BY DEF Intact, VortexGate, Missing, Torn

\* One run of an order.
LEMMA RunNamed ==
  ASSUME NEW w, FilesNamed(w), w["vortex_gate"] # Torn, NEW t \in Tools, NEW e
  PROVE  FilesNamed(Ran(w, t, CheckedIn, e)) /\ Ran(w, t, CheckedIn, e)["vortex_gate"] # Torn
<1>. DEFINE r == Report(t, CheckedIn, e, w)
<1>1. WellNamed(t, r)
  BY ReportNamed, CheckedInIsProfile DEF ChainsOf
<1>2. t = "vortex_gate" => r # Torn
  BY GateIsWhole DEF Report, Intact
<1>. HIDE DEF r
<1>3. FilesNamed([w EXCEPT ![t] = r])
  BY <1>1, WriteNamed
<1>4. [w EXCEPT ![t] = r]["vortex_gate"] # Torn
  BY <1>2 DEF FilesNamed, Tools, NeedsOf
<1>. QED
  BY <1>3, <1>4 DEF Ran, r

\* The files once all of an order were run.
LEMMA OrderNamed ==
  ASSUME NEW order \in Seq(Tools), NEW e
  PROVE  LET w == RunInOrder(order, CheckedIn, e)
         IN  FilesNamed(w) /\ w["vortex_gate"] # Torn
<1>1. PICK f : /\ RunsTo(f, Len(order), order, CheckedIn, e)
               /\ RunInOrder(order, CheckedIn, e) = f[Len(order)]
  BY OrderRuns
<1>. DEFINE Fine(i) == FilesNamed(f[i]) /\ f[i]["vortex_gate"] # Torn
            bad == {i \in 0..Len(order) : ~Fine(i)}
<1>2. Len(order) \in Nat
  OBVIOUS
<1>3. f[0] = NoFiles
  BY <1>1, <1>2 DEF RunsTo
<1>4. Fine(0)
  <2>1. \A t \in Tools : NoFiles[t] = Missing
    BY DEF NoFiles
  <2>2. FilesNamed(NoFiles)
    BY <2>1 DEF FilesNamed, NoFiles, Intact
  <2>3. NoFiles["vortex_gate"] # Torn
    BY <2>1 DEF Tools, NeedsOf, Missing, Torn
  <2>. QED
    BY <1>3, <2>2, <2>3
<1>5. ASSUME NEW i \in 1..Len(order), Fine(i - 1) PROVE Fine(i)
  <2>1. f[i] = Ran(f[i - 1], order[i], CheckedIn, e)
    BY <1>1, <1>2, RunsOn
  <2>2. order[i] \in Tools
    OBVIOUS
  <2>. QED
    BY <1>5, <2>1, <2>2, RunNamed
<1>. HIDE DEF Fine
<1>6. ASSUME bad # {} PROVE FALSE
  <2>1. bad \in SUBSET (0..Len(order))
    OBVIOUS
  <2>2. PICK m \in bad : \A i \in bad : m <= i
    <3>. HIDE DEF bad
    <3>. QED
      BY <1>2, <1>6, <2>1, Least
  <2>3. m # 0
    BY <1>4
  <2>4. Fine(m - 1)
    BY <1>2, <2>2, <2>3
  <2>. QED
    BY <1>5, <2>3, <2>4
<1>7. Fine(Len(order))
  BY <1>2, <1>6
<1>. QED
  BY <1>1, <1>7 DEF Fine

LEMMA TInit == Init => TInv /\ CycleIsOpen
<1>. SUFFICES ASSUME Init PROVE TInv /\ CycleIsOpen
  OBVIOUS
<1>1. FilesNamed(work) /\ work["vortex_gate"] # Torn
  BY OrderNamed, OrderAssumption DEF Init
<1>2. \A c \in Chains : selection[c] # TornSelection
  BY CheckedInIsProfile, ProfilesAreWhole DEF Init
<1>. QED
  BY <1>1, <1>2, CheckedInIsProfile DEF Init, TInv, CycleIsOpen

\* Of the parts of the invariant, those a step may disturb.
Kept ==
  /\ FilesNamed(work')
  /\ selection' = [c \in Chains |-> selection'[c]]
  /\ \A c \in Chains : selection'[c] \in ProfilesOf[c] \cup {TornSelection}
  /\ \A c \in Chains : selection'[c] = TornSelection => c \in cut'
  /\ evidence' \in Evidence \cup Arriving
  /\ CycleIsOpen'

LEMMA AuditKeeps ==
  ASSUME TInv, CycleIsOpen, NEW t \in Tools, Audit(t)
  PROVE  Kept
<1>. DEFINE r == Report(t, selection, evidence, work)
<1>1. \A c \in ChainsOf(t) : selection[c] \in ProfilesOf[c]
  BY DEF Audit, Readable, ChainsOf, TInv
<1>2. WellNamed(t, r)
  BY <1>1, ReportNamed
<1>3. t = "vortex_gate" => r # Torn
  BY GateIsWhole DEF Report, Intact
<1>4. t = "xiangshan_status" => r # Torn
  BY DEF Report, XiangShanStatus, Torn
<1>5. work' = [work EXCEPT ![t] = r] /\ UNCHANGED <<selection, evidence>> /\ cut' = cut \ ChainsOf(t)
  BY DEF Audit
<1>6. \A c \in ChainsOf(t) : selection[c] # TornSelection
  BY DEF Audit, Readable
<1>. HIDE DEF r
<1>7. FilesNamed(work')
  BY <1>2, <1>5, WriteNamed DEF TInv
<1>8. CycleIsOpen'
  BY <1>3, <1>4, <1>5 DEF TInv, FilesNamed, CycleIsOpen, Tools, NeedsOf
<1>. QED
  BY <1>5, <1>6, <1>7, <1>8 DEF Kept, TInv

\* A tool that is killed as it writes had read the other file of the cycle.
LEMMA KillKeeps ==
  ASSUME TInv, CycleIsOpen, NEW t \in Tools, AuditKilled(t)
  PROVE  Kept
<1>1. /\ t = "vortex_gate" => work["xiangshan_status"] # Torn
      /\ t = "xiangshan_status" => work["vortex_gate"] # Torn
  BY DEF AuditKilled, Readable, FilesReadable, Optional
<1>2. work' = [work EXCEPT ![t] = Torn] /\ UNCHANGED <<selection, evidence, cut>>
  BY DEF AuditKilled
<1>3. FilesNamed(work')
  BY <1>2, WriteNamed DEF TInv, Intact
<1>4. CycleIsOpen'
  BY <1>1, <1>2 DEF TInv, FilesNamed, CycleIsOpen, Tools, NeedsOf
<1>. QED
  BY <1>2, <1>3, <1>4 DEF Kept, TInv

LEMMA ApplyKeeps ==
  ASSUME TInv, CycleIsOpen, NEW c \in Chains, NEW p \in ProfilesOf[c], Apply(c, p)
  PROVE  Kept
<1>. DEFINE r == Report(Gate(c), Chosen(c, p), evidence, work)
<1>1. /\ Chosen(c, p)[c] = p
      /\ Chosen(c, p) = [d \in Chains |-> Chosen(c, p)[d]]
      /\ \A d \in Chains \ {c} : Chosen(c, p)[d] = selection[d]
  BY DEF Chosen, TInv
<1>2. WellNamed(Gate(c), r)
  BY <1>1, GateIsTool, ReportNamed
<1>3. Gate(c) = "vortex_gate" => r # Torn
  BY GateIsWhole DEF Report, Intact
<1>4. Gate(c) # "xiangshan_status"
  BY GateValues
<1>5. work' = [work EXCEPT ![Gate(c)] = r] /\ selection' = Chosen(c, p) /\ cut' = cut \ {c} /\ UNCHANGED evidence
  BY DEF Apply
<1>. HIDE DEF r
<1>6. FilesNamed(work')
  BY <1>2, <1>5, GateIsTool, WriteNamed DEF TInv
<1>7. CycleIsOpen'
  BY <1>3, <1>4, <1>5, GateIsTool DEF TInv, FilesNamed, CycleIsOpen, Tools, NeedsOf
<1>8. /\ \A d \in Chains : selection'[d] \in ProfilesOf[d] \cup {TornSelection}
      /\ \A d \in Chains : selection'[d] = TornSelection => d \in cut'
  BY <1>1, <1>5, ProfilesAreWhole DEF TInv
<1>. QED
  BY <1>1, <1>5, <1>6, <1>7, <1>8 DEF Kept, TInv

LEMMA ApplyKilledKeeps ==
  ASSUME TInv, CycleIsOpen, NEW c \in Chains, NEW p \in ProfilesOf[c], ApplyKilled(c, p)
  PROVE  Kept
<1>1. Gate(c) = "vortex_gate" => work["xiangshan_status"] # Torn
  BY DEF ApplyKilled, FilesReadable, Optional
<1>2. /\ selection' = Chosen(c, p) \/ selection' = Chosen(c, TornSelection)
      /\ work' = work \/ work' = [work EXCEPT ![Gate(c)] = Torn]
      /\ cut' = cut \cup {c} /\ UNCHANGED evidence
  BY DEF ApplyKilled
<1>3. FilesNamed(work')
  BY <1>2, GateIsTool, WriteNamed DEF TInv, Intact
<1>4. CycleIsOpen'
  <2>1. Gate(c) # "xiangshan_status" /\ Gate(c) \in Tools
    BY GateValues, GateIsTool
  <2>. QED
    BY <1>1, <1>2, <2>1 DEF TInv, FilesNamed, CycleIsOpen, Tools, NeedsOf
<1>5. /\ selection' = [d \in Chains |-> selection'[d]]
      /\ \A d \in Chains \ {c} : selection'[d] = selection[d]
      /\ selection'[c] \in {p, TornSelection}
  BY <1>2 DEF Chosen, TInv
<1>. QED
  BY <1>2, <1>3, <1>4, <1>5 DEF Kept, TInv

LEMMA TStep == TInv /\ CycleIsOpen /\ [Next]_vars => TInv' /\ CycleIsOpen'
<1>. SUFFICES ASSUME TInv, CycleIsOpen, [Next]_vars PROVE TInv' /\ CycleIsOpen'
  OBVIOUS
<1>1. CASE UNCHANGED vars
  BY <1>1 DEF vars, TInv, CycleIsOpen
<1>2. ASSUME NEW c \in Chains, SetProfile(c) PROVE Kept
  <2>1. PICK p \in Choices[c] : Apply(c, p) \/ ApplyKilled(c, p)
    BY <1>2 DEF SetProfile
  <2>2. p \in ProfilesOf[c]
    BY <2>1, ChoicesAssumption
  <2>. QED
    BY <2>1, <2>2, ApplyKeeps, ApplyKilledKeeps
<1>3. ASSUME Follow PROVE Kept
  <2>. DEFINE p == ProfileForTactic(work["resolution"].tactic)
  <2>1. p \in ProfilesOf["vortex"] /\ Apply("vortex", p) /\ "vortex" \in Chains
    BY <1>3, GateValues DEF Follow
  <2>. HIDE DEF p
  <2>. QED
    BY <2>1, ApplyKeeps
<1>4. ASSUME RunTool \/ ToolKilled PROVE Kept
  BY <1>4, AuditKeeps, KillKeeps DEF RunTool, ToolKilled, Attended
<1>5. ASSUME Measure PROVE Kept
  BY <1>5 DEF Measure, Kept, TInv, CycleIsOpen
<1>6. CASE Next
  <2>1. Kept
    BY <1>2, <1>3, <1>4, <1>5, <1>6, GateValues
       DEF Next, SetVortex, SetVortexPolicy, SetVortexAcceptance, SetXiangShan,
           SetXiangShanAcceptance, SetOpenPiton, SetOpenPitonAcceptance
  <2>. QED
    BY <2>1 DEF Kept, TInv
<1>. QED
  BY <1>1, <1>6

\* Whatever is run, killed, selected or measured, a gate names a profile of its
\* chain, and the axes after BlackParrot name Vortex or nothing.
THEOREM TypeCorrect == Spec => []TypeOK
<1>1. TInv => TypeOK
  <2>. SUFFICES ASSUME TInv PROVE TypeOK
    OBVIOUS
  <2>1. \A c \in Chains : Intact(work[Gate(c)]) => work[Gate(c)].profile \in ProfilesOf[c]
    BY GateIsTool DEF TInv, FilesNamed, WellNamed
  <2>2. Intact(work["post_blackparrot_axes"]) => work["post_blackparrot_axes"].family \in {"", "Vortex"}
    BY DEF TInv, FilesNamed, WellNamed, Tools, NeedsOf
  <2>. QED
    BY <2>1, <2>2 DEF TInv, TypeOK
<1>. QED
  BY <1>1, TInit, TStep, PTL DEF Spec

-----------------------------------------------------------------------------
(* Up to date.  No tool that could run has anything new to write; that each *)
(* of them can run follows tool by tool, from those that need no file, and  *)
(* for the cycle of the two branches from CycleIsOpen.                      *)

LEMMA SurfaceStepIntact ==
  \A d, s : Intact(SurfaceStep(d, s))
BY DEF Intact, SurfaceStep, Missing, Torn

LEMMA PolicyIntact ==
  \A name, p, step : Intact(PolicyReport(name, p, step))
BY DEF Intact, PolicyReport, Missing, Torn

LEMMA LateAcceptanceIntact ==
  \A name, upstream, ready : Intact(LateAcceptance(name, upstream, ready))
BY DEF Intact, LateAcceptance, Missing, Torn

LEMMA OpensIntact ==
  \A status, family, fallback : Intact(Opens(status, family, fallback))
BY DEF Intact, Opens, Missing, Torn

LEMMA AdviceIntact ==
  \A status, tactic : Intact(Advice(status, tactic))
BY DEF Intact, Advice, Missing, Torn

\* The tools whose files others need to be there.
Read ==
  {"vortex_status", "vortex_gate", "vortex_profiles", "vortex_deeper", "vortex_tactics", "vortex_step",
   "vortex_policy_gate", "vortex_acceptance_gate", "xiangshan_status", "xiangshan_tactics", "resolution",
   "xiangshan_step", "xiangshan_gate", "xiangshan_acceptance_gate", "openpiton_step", "openpiton_gate",
   "openpiton_acceptance_gate", "post_openpiton_axes", "post_blackparrot_axes", "post_vortex_axes"}

\* A tool that runs writes a file that others can read.
LEMMA ReportIsIntact ==
  ASSUME NEW t \in Read, NEW s, NEW e \in Evidence \cup Arriving, NEW w,
         t = "resolution" => w["vortex_gate"].profile \in ProfilesOf["vortex"]
  PROVE  Intact(Report(t, s, e, w))
<1>. DEFINE r == Report(t, s, e, w)
<1>1. CASE t = "vortex_status"
  BY <1>1 DEF Report, VortexStatus, Intact, Missing, Torn
<1>2. CASE t = "vortex_gate"
  BY <1>2, GateIsWhole DEF Report
<1>3. CASE t = "vortex_profiles"
  BY <1>3 DEF Report, VortexProfiles, Intact, Missing, Torn
<1>4. CASE t = "vortex_deeper"
  BY <1>4 DEF Report, VortexDeeper, Intact, Missing, Torn
<1>5. CASE t = "vortex_tactics"
  BY <1>5, AdviceIntact DEF Report, VortexTactics
<1>6. CASE t = "vortex_step"
  <2>1. Intact(Blocked("blocked_not_ready", "Vortex"))
    BY DEF Blocked, Intact, Missing, Torn
  <2>. QED
    BY <1>6, <2>1, SurfaceStepIntact DEF Report, VortexStep
<1>7. CASE t \in {"vortex_policy_gate", "xiangshan_gate"}
  BY <1>7, PolicyIntact DEF Report, VortexPolicyGate, XiangShanGate
<1>8. CASE t = "vortex_acceptance_gate"
  BY <1>8 DEF Report, VortexAcceptance, Intact, Missing, Torn
<1>9. CASE t = "xiangshan_status"
  BY <1>9 DEF Report, XiangShanStatus, Intact, Missing, Torn
<1>10. CASE t = "xiangshan_tactics"
  BY <1>10, AdviceIntact DEF Report, XiangShanTactics
<1>11. CASE t = "resolution"
  BY <1>11, AdviceIntact DEF Report, Resolution, ProfilesOf
<1>12. CASE t = "xiangshan_step"
  <2>1. Intact(Blocked("blocked_not_ready", "XiangShan"))
    BY DEF Blocked, Intact, Missing, Torn
  <2>. QED
    BY <1>12, <2>1, SurfaceStepIntact DEF Report, XiangShanStep
<1>13. CASE t \in {"xiangshan_acceptance_gate", "openpiton_acceptance_gate"}
  BY <1>13, LateAcceptanceIntact DEF Report, XiangShanAcceptance, OpenPitonAcceptance
<1>14. CASE t = "openpiton_step"
  <2>1. e.surface["OpenPiton"].default \in Comparisons
    BY EvidenceAssumption
  <2>. QED
    BY <1>14, <2>1 DEF Report, OpenPitonStep, Comparisons, Intact, Missing, Torn
<1>15. CASE t = "openpiton_gate"
  BY <1>15 DEF Report, OpenPitonGate, Intact, Missing, Torn
<1>16. CASE t \in {"post_openpiton_axes", "post_blackparrot_axes", "post_vortex_axes"}
  BY <1>16, OpensIntact DEF Report, PostOpenPitonAxes, PostBlackParrotAxes, PostVortexAxes
<1>. QED
  BY <1>1, <1>2, <1>3, <1>4, <1>5, <1>6, <1>7, <1>8, <1>9, <1>10, <1>11, <1>12, <1>13, <1>14,
     <1>15, <1>16 DEF Read

\* A tool that finds its files has written its report on the present state.
LEMMA ReadableIsCurrent ==
  ASSUME TInv, UpToDate, NEW t \in Tools,
         \A n \in Needs(t) : Intact(work[n]), \A n \in Optional(t) : work[n] # Torn
  PROVE  work[t] = Report(t, selection, evidence, work)
<1>1. Readable(t)
  BY DEF Readable, FilesReadable, ChainsOf, Consults, UpToDate, TInv, Chains, CheckedIn
<1>. QED
  BY <1>1 DEF UpToDate, Settled, Attended, Current

Fresh(t) == work[t] = Report(t, selection, evidence, work) /\ Intact(work[t])

LEMMA FilesFoundAreFresh ==
  ASSUME TInv, UpToDate, NEW t \in Read, t \in Tools,
         t = "resolution" => work["vortex_gate"].profile \in ProfilesOf["vortex"],
         \A n \in Needs(t) : Fresh(n), \A n \in Optional(t) : Fresh(n)
  PROVE  Fresh(t)
<1>1. /\ \A n \in Needs(t) : Intact(work[n])
      /\ \A n \in Optional(t) : work[n] # Torn
  BY DEF Fresh, Intact
<1>2. work[t] = Report(t, selection, evidence, work)
  BY <1>1, ReadableIsCurrent
<1>3. evidence \in Evidence \cup Arriving
  BY DEF TInv
<1>. QED
  BY <1>2, <1>3, ReportIsIntact DEF Fresh

LEMMA NeedsValues ==
  /\ Read \subseteq Tools
  /\ \A t \in {"vortex_status", "vortex_step", "xiangshan_status", "xiangshan_step", "openpiton_step",
               "post_blackparrot_axes", "blackparrot_step"} : Needs(t) = {} /\ t \in Tools
  /\ Needs("vortex_gate") = {"vortex_status", "post_blackparrot_axes"}
  /\ Needs("vortex_profiles") = {"vortex_status", "post_blackparrot_axes"}
  /\ Needs("vortex_deeper") = {"xiangshan_acceptance_gate", "vortex_status"}
  /\ Needs("vortex_tactics") = {"vortex_status", "vortex_gate"}
  /\ Needs("vortex_policy_gate") = {"vortex_step"}
  /\ Needs("vortex_acceptance_gate") = {"vortex_gate", "vortex_policy_gate"}
  /\ Needs("xiangshan_tactics") = {"xiangshan_status"}
  /\ Needs("resolution") = {"vortex_gate", "xiangshan_status", "xiangshan_tactics", "vortex_tactics"}
  /\ Needs("xiangshan_deeper") = {"resolution"} /\ "xiangshan_deeper" \in Tools
  /\ Needs("xiangshan_gate") = {"xiangshan_step"}
  /\ Needs("xiangshan_acceptance_gate") = {"vortex_gate", "xiangshan_gate"}
  /\ Needs("openpiton_gate") = {"openpiton_step"}
  /\ Needs("openpiton_acceptance_gate") = {"xiangshan_status", "openpiton_gate"}
  /\ Needs("post_openpiton_axes") = {"openpiton_acceptance_gate"}
  /\ Needs("post_vortex_axes") = {"vortex_acceptance_gate"}
BY DEF Needs, NeedsOf, Tools, Read

\* The two files of the cycle.
LEMMA CycleIsFresh ==
  ASSUME TInv, CycleIsOpen, UpToDate, Fresh("vortex_status"), Fresh("post_blackparrot_axes")
  PROVE  Fresh("vortex_gate") /\ Fresh("xiangshan_status")
<1>0. evidence \in Evidence \cup Arriving
  BY DEF TInv
<1>1. ASSUME work["vortex_gate"] # Torn PROVE Fresh("xiangshan_status")
  <2>1. work["xiangshan_status"] = Report("xiangshan_status", selection, evidence, work)
    BY <1>1, NeedsValues, ReadableIsCurrent DEF Optional
  <2>. QED
    BY <1>0, <2>1, ReportIsIntact DEF Fresh, Read
<1>2. ASSUME work["xiangshan_status"] # Torn PROVE Fresh("vortex_gate")
  <2>1. \A n \in Needs("vortex_gate") : Intact(work[n])
    BY NeedsValues DEF Fresh
  <2>2. \A n \in Optional("vortex_gate") : work[n] # Torn
    BY <1>2 DEF Optional
  <2>3. "vortex_gate" \in Read /\ "vortex_gate" \in Tools
    BY NeedsValues DEF Read
  <2>4. work["vortex_gate"] = Report("vortex_gate", selection, evidence, work)
    BY <2>1, <2>2, <2>3, ReadableIsCurrent
  <2>. QED
    BY <1>0, <2>3, <2>4, ReportIsIntact DEF Fresh
<1>. QED
  BY <1>1, <1>2 DEF CycleIsOpen, Fresh, Intact

LEMMA AllAreFresh ==
  ASSUME TInv, CycleIsOpen, UpToDate
  PROVE  /\ \A t \in Read : Fresh(t)
         /\ \A t \in {"xiangshan_deeper", "blackparrot_step"} : work[t] = Report(t, selection, evidence, work)
<1>1. ASSUME NEW t \in Read \ {"resolution"}, \A n \in Needs(t) : Fresh(n), \A n \in Optional(t) : Fresh(n)
      PROVE  Fresh(t)
  BY <1>1, NeedsValues, FilesFoundAreFresh
<1>2. Fresh("post_blackparrot_axes") /\ Fresh("openpiton_step") /\ Fresh("vortex_step") /\ Fresh("xiangshan_step")
  BY <1>1, NeedsValues DEF Read, Optional
<1>3. Fresh("vortex_status")
  BY <1>1, <1>2, NeedsValues DEF Read, Optional
<1>4. Fresh("vortex_gate") /\ Fresh("xiangshan_status")
  BY <1>2, <1>3, CycleIsFresh
<1>5. Fresh("vortex_policy_gate") /\ Fresh("xiangshan_gate") /\ Fresh("openpiton_gate")
  BY <1>1, <1>2, NeedsValues DEF Read, Optional
<1>6. Fresh("vortex_acceptance_gate") /\ Fresh("xiangshan_acceptance_gate") /\ Fresh("openpiton_acceptance_gate")
  BY <1>1, <1>4, <1>5, NeedsValues DEF Read, Optional
<1>7. Fresh("vortex_deeper") /\ Fresh("post_vortex_axes") /\ Fresh("post_openpiton_axes")
  BY <1>1, <1>3, <1>4, <1>6, NeedsValues DEF Read, Optional
<1>8. Fresh("vortex_tactics")
  BY <1>1, <1>3, <1>4, <1>6, <1>7, NeedsValues DEF Read, Optional
<1>9. Fresh("vortex_profiles")
  BY <1>1, <1>2, <1>3, <1>4, <1>8, NeedsValues DEF Read, Optional
<1>10. Fresh("xiangshan_tactics")
  BY <1>1, <1>4, <1>9, NeedsValues DEF Read, Optional
<1>11. work["vortex_gate"].profile \in ProfilesOf["vortex"]
  BY <1>4, NeedsValues, GateValues DEF Fresh, TInv, FilesNamed, WellNamed, Read
<1>12. Fresh("resolution")
  <2>1. \A n \in Needs("resolution") : Fresh(n)
    BY <1>4, <1>8, <1>10, NeedsValues
  <2>2. \A n \in Optional("resolution") : Fresh(n)
    BY <1>6, <1>7 DEF Optional
  <2>3. "resolution" \in Read /\ "resolution" \in Tools
    BY NeedsValues DEF Read
  <2>. QED
    BY <1>11, <2>1, <2>2, <2>3, FilesFoundAreFresh
<1>13. \A t \in {"xiangshan_deeper", "blackparrot_step"} : work[t] = Report(t, selection, evidence, work)
  <2>. SUFFICES ASSUME NEW t \in {"xiangshan_deeper", "blackparrot_step"}
                PROVE  work[t] = Report(t, selection, evidence, work)
    OBVIOUS
  <2>1. \A n \in Needs(t) : Intact(work[n])
    BY <1>12, NeedsValues DEF Fresh
  <2>2. Optional(t) = {} /\ t \in Tools
    BY NeedsValues DEF Optional
  <2>. QED
    BY <2>1, <2>2, ReadableIsCurrent
<1>. QED
  BY <1>2, <1>3, <1>4, <1>5, <1>6, <1>7, <1>8, <1>9, <1>10, <1>12, <1>13 DEF Read

-----------------------------------------------------------------------------
(* What the files say once they are up to date. *)

\* The files of an up-to-date campaign, each by the rule of its tool.
LEMMA FreshFiles ==
  ASSUME TInv, CycleIsOpen, UpToDate
  PROVE  /\ work["vortex_status"] = VortexStatus(evidence, work["post_blackparrot_axes"])
         /\ work["vortex_gate"]
              = VortexGate(selection["vortex"], work["vortex_status"], work["post_blackparrot_axes"])
         /\ work["vortex_tactics"]
              = VortexTactics(evidence, work["vortex_status"], work["vortex_gate"],
                              work["vortex_acceptance_gate"], work["vortex_deeper"])
         /\ work["vortex_step"] = VortexStep(evidence, work["vortex_status"])
         /\ work["vortex_policy_gate"] = VortexPolicyGate(selection["vortex_policy"], work["vortex_step"])
         /\ work["vortex_acceptance_gate"]
              = VortexAcceptance(selection["vortex_acceptance"], work["vortex_gate"], work["vortex_policy_gate"])
         /\ work["xiangshan_status"] = XiangShanStatus(evidence, work["vortex_gate"])
         /\ work["xiangshan_tactics"] = XiangShanTactics(evidence, work["xiangshan_status"])
         /\ work["resolution"]
              = Resolution(work["vortex_gate"], work["vortex_acceptance_gate"],
                           work["xiangshan_tactics"], work["vortex_tactics"])
         /\ work["xiangshan_deeper"] = XiangShanDeeper(evidence, work["resolution"])
         /\ work["xiangshan_step"] = XiangShanStep(evidence, work["xiangshan_deeper"])
         /\ work["xiangshan_gate"] = XiangShanGate(selection["xiangshan"], work["xiangshan_step"])
         /\ work["xiangshan_acceptance_gate"]
              = XiangShanAcceptance(selection["xiangshan_acceptance"], work["vortex_gate"], work["xiangshan_gate"])
         /\ work["openpiton_step"] = OpenPitonStep(evidence, work["xiangshan_status"])
         /\ work["openpiton_gate"] = OpenPitonGate(selection["openpiton"], work["openpiton_step"])
         /\ work["openpiton_acceptance_gate"]
              = OpenPitonAcceptance(selection["openpiton_acceptance"], work["xiangshan_status"], work["openpiton_gate"])
         /\ work["post_openpiton_axes"]
              = PostOpenPitonAxes(evidence, work["openpiton_acceptance_gate"], work["xiangshan_status"])
         /\ work["blackparrot_step"] = BlackParrotStep(evidence, work["post_openpiton_axes"])
         /\ work["post_blackparrot_axes"] = PostBlackParrotAxes(work["blackparrot_step"])
<1>1. \A t \in Read \cup {"xiangshan_deeper", "blackparrot_step"} : work[t] = Report(t, selection, evidence, work)
  BY AllAreFresh DEF Fresh
<1>. QED
  BY <1>1 DEF Read, Report

\* With no setter left half done every selection is a profile of its chain.
LEMMA SelectionsAreWhole ==
  ASSUME TInv, UpToDate
  PROVE  \A c \in Chains : selection[c] \in ProfilesOf[c]
BY DEF TInv, UpToDate

\* XiangShan's tactics recommend Vortex only while its branch is the open one.
LEMMA ReopeningVortex ==
  ASSUME NEW e, NEW gate, XiangShanTactics(e, XiangShanStatus(e, gate)).tactic = "reopen_vortex_debug"
  PROVE  gate.status = "reopen_ready"
<1>1. XiangShanStatus(e, gate).reopened = (gate.status = "reopen_ready")
  BY DEF XiangShanStatus
<1>2. XiangShanStatus(e, gate).reopened
  BY DEF XiangShanTactics, Advice, Reopen
<1>. QED
  BY <1>1, <1>2

\* And the tactics of Vortex recommend XiangShan only while debugging is.
LEMMA ReopeningXiangShan ==
  ASSUME NEW e, NEW status, NEW gate, NEW acceptance, NEW deeper,
         VortexTactics(e, status, gate, acceptance, deeper).tactic = Reopen
  PROVE  gate.profile = Debug /\ gate.status = "debug_ready"
BY DEF VortexTactics, Advice, Reopen

\* So up-to-date files never show the loop.
LEMMA NoLoop ==
  ASSUME TInv, CycleIsOpen, UpToDate
  PROVE  ~(work["xiangshan_tactics"].tactic = "reopen_vortex_debug" /\ work["vortex_tactics"].tactic = Reopen)
<1>1. work["xiangshan_tactics"].tactic = "reopen_vortex_debug" => work["vortex_gate"].status = "reopen_ready"
  BY FreshFiles, ReopeningVortex
<1>2. work["vortex_tactics"].tactic = Reopen => work["vortex_gate"].status = "debug_ready"
  BY FreshFiles, ReopeningXiangShan
<1>. QED
  BY <1>1, <1>2

\* The profile of Vortex's gate.
LEMMA GateProfile ==
  ASSUME TInv, CycleIsOpen, UpToDate
  PROVE  work["vortex_gate"].profile = selection["vortex"] /\ selection["vortex"] \in {Debug, Reopen, HoldBranch}
<1>1. work["vortex_gate"].profile = selection["vortex"]
  BY FreshFiles DEF VortexGate
<1>2. selection["vortex"] \in ProfilesOf["vortex"]
  BY SelectionsAreWhole, GateValues
<1>. QED
  BY <1>1, <1>2 DEF ProfilesOf

LEMMA LoopNeedsStaleFiles ==
  ASSUME TInv, CycleIsOpen, UpToDate
  PROVE  work["resolution"].status \notin {"avoid_loop_keep_xiangshan", "avoid_loop_keep_vortex"}
<1>1. work["resolution"] \in {Advice("follow_post_vortex_axes", "post_vortex_axes"),
                              Advice("follow_xiangshan", work["xiangshan_tactics"].tactic),
                              Advice("follow_vortex", work["vortex_tactics"].tactic),
                              Advice("repair_context", "repair")}
  BY NoLoop, GateProfile, FreshFiles DEF Resolution
<1>. QED
  BY <1>1 DEF Advice

\* The loop of the two branches is seen only in files of different ages: no run
\* that refreshes them all ends with the resolution breaking a loop.
THEOREM LoopIsStale == Spec => []LoopSeenOnlyInStaleFiles
<1>1. TInv /\ CycleIsOpen => LoopSeenOnlyInStaleFiles
  BY LoopNeedsStaleFiles DEF LoopSeenOnlyInStaleFiles
<1>. QED
  BY <1>1, TInit, TStep, PTL DEF Spec

\* A policy gate that is ready has a step that shows a win.
LEMMA ReadyGate ==
  ASSUME NEW name, NEW p, NEW step, PolicyReport(name, p, step).status \in ReadyStatuses
  PROVE  /\ step.status \in {"ready_to_accept_default_gate", "decide_candidate_only"}
         /\ step.status = "decide_candidate_only" => (p.mode # "default_gate_hold" /\ step.value = p.value)
<1>1. PolicyStatus(p, step) \in ReadyStatuses
  BY DEF PolicyReport
<1>. QED
  BY <1>1 DEF PolicyStatus, HoldStatus, CandidateStatus, ReadyStatuses

\* No tactic but that of a loop is to debug XiangShan deeper.
LEMMA DeeperNeedsLoop ==
  ASSUME TInv, CycleIsOpen, UpToDate
  PROVE  work["resolution"].tactic # "deeper_xiangshan_debug"
<1>1. work["resolution"] \in {Advice("follow_post_vortex_axes", "post_vortex_axes"),
                              Advice("follow_xiangshan", work["xiangshan_tactics"].tactic),
                              Advice("follow_vortex", work["vortex_tactics"].tactic),
                              Advice("repair_context", "repair")}
  BY NoLoop, GateProfile, FreshFiles DEF Resolution
<1>2. work["xiangshan_tactics"].tactic # "deeper_xiangshan_debug"
  BY FreshFiles DEF XiangShanTactics, Advice, Reopen
<1>3. work["vortex_tactics"].tactic # "deeper_xiangshan_debug"
  BY FreshFiles DEF VortexTactics, Advice, Reopen
<1>. QED
  BY <1>1, <1>2, <1>3 DEF Advice

\* Up to date, XiangShan's step is blocked, its gate with it, and nothing is
\* there to accept.
LEMMA AcceptingNeedsLoop ==
  ASSUME TInv, CycleIsOpen, UpToDate
  PROVE  work["xiangshan_acceptance_gate"].status # "accepted"
<1>1. work["xiangshan_deeper"].status = "follow_branch_resolution_first"
  BY DeeperNeedsLoop, FreshFiles DEF XiangShanDeeper
<1>2. work["xiangshan_step"].status = "blocked_not_ready"
  BY <1>1, FreshFiles DEF XiangShanStep, Blocked
<1>3. work["xiangshan_gate"].status \notin ReadyStatuses
  BY <1>2, ReadyGate, FreshFiles DEF XiangShanGate
<1>. QED
  BY <1>3, FreshFiles DEF XiangShanAcceptance, LateAcceptance

\* Whatever was measured, XiangShan is accepted only by files of different ages.
THEOREM XiangShanIsStale == Spec => []AcceptedXiangShanIsStale
<1>1. TInv /\ CycleIsOpen => AcceptedXiangShanIsStale
  BY AcceptingNeedsLoop DEF AcceptedXiangShanIsStale
<1>. QED
  BY <1>1, TInit, TStep, PTL DEF Spec

LEMMA VortexAccepted ==
  ASSUME NEW name, NEW branch, NEW policy, VortexAcceptance(name, branch, policy).status = "accepted"
  PROVE  branch.status = "recovered" /\ name = "accept" /\ policy.status \in ReadyStatuses
<1>1. VortexAcceptance(name, branch, policy).status
        = AcceptanceStatus(branch.status = "recovered", name = "accept", policy.status, ReadyStatuses)
  BY DEF VortexAcceptance
<1>. QED
  BY <1>1 DEF AcceptanceStatus

\* The branch recovers when it debugs Vortex, and Vortex builds.
LEMMA VortexRecovered ==
  ASSUME NEW name \in {Debug, Reopen, HoldBranch}, NEW status, NEW axes,
         VortexGate(name, status, axes).status = "recovered"
  PROVE  /\ name = Debug /\ status.status = "ready_to_finish_trio"
         /\ axes.status = "decide_open_next_family_after_loss"
<1>1. VortexBranch(name, status, axes) = "recovered"
  BY DEF VortexGate
<1>. QED
  BY <1>1 DEF VortexBranch, Debug, Reopen, HoldBranch

LEMMA VortexBuilds ==
  ASSUME NEW e, NEW axes, VortexStatus(e, axes).status = "ready_to_finish_trio"
  PROVE  e.vortex.runs /\ e.vortex.built
BY DEF VortexStatus

\* BlackParrot lost, and was looked at as the family after OpenPiton.
LEMMA BlackParrotLost ==
  ASSUME NEW e, NEW axes,
         PostBlackParrotAxes(BlackParrotStep(e, axes)).status = "decide_open_next_family_after_loss"
  PROVE  /\ e.surface["BlackParrot"].candidate = "baseline"
         /\ axes.family = "BlackParrot"
<1>1. BlackParrotStep(e, axes).status = "candidate_only_baseline_win"
  BY DEF PostBlackParrotAxes, Opens
<1>. QED
  BY <1>1 DEF BlackParrotStep, Recommends

\* OpenPiton won at its default gate and was accepted.
LEMMA OpenPitonWon ==
  ASSUME NEW e \in Evidence \cup Arriving, NEW name \in {"default_gate", "default_gate_hold"}, NEW accept,
         NEW xiangshan,
         LET gate == OpenPitonGate(name, OpenPitonStep(e, xiangshan))
         IN  PostOpenPitonAxes(e, OpenPitonAcceptance(accept, xiangshan, gate), xiangshan).family = "BlackParrot"
  PROVE  e.surface["OpenPiton"].default = "hybrid" /\ name = "default_gate" /\ accept = "accept"
<1>. DEFINE step == OpenPitonStep(e, xiangshan)
            gate == OpenPitonGate(name, step)
            acceptance == OpenPitonAcceptance(accept, xiangshan, gate)
<1>1. acceptance.status = "accepted"
  <2>. HIDE DEF acceptance
  <2>. QED
    BY DEF PostOpenPitonAxes, Opens, acceptance
<1>2. accept = "accept" /\ gate.status = "default_gate_ready"
  BY <1>1 DEF OpenPitonAcceptance, LateAcceptance
<1>3. step.status = "ready_to_accept_default_gate" /\ name = "default_gate"
  <2>. HIDE DEF step
  <2>. QED
    BY <1>2 DEF OpenPitonGate
<1>4. e.surface["OpenPiton"].default = "hybrid"
  BY <1>3, EvidenceAssumption DEF OpenPitonStep, Comparisons
<1>. QED
  BY <1>2, <1>3, <1>4

\* From the acceptance of Vortex down to OpenPiton.
LEMMA AcceptingVortexNeedsAll ==
  ASSUME TInv, CycleIsOpen, UpToDate, work["vortex_acceptance_gate"].status = "accepted"
  PROVE  /\ selection["vortex"] = Debug /\ selection["vortex_acceptance"] = "accept"
         /\ evidence.vortex.runs /\ evidence.vortex.built
         /\ Wins(evidence.surface["Vortex"], 4)
         /\ evidence.surface["BlackParrot"].candidate = "baseline"
         /\ evidence.surface["OpenPiton"].default = "hybrid"
         /\ selection["openpiton"] = "default_gate" /\ selection["openpiton_acceptance"] = "accept"
<1>1. /\ work["vortex_gate"].status = "recovered" /\ selection["vortex_acceptance"] = "accept"
      /\ work["vortex_policy_gate"].status \in ReadyStatuses
  BY FreshFiles, VortexAccepted
<1>2. /\ selection["vortex"] = Debug /\ work["vortex_status"].status = "ready_to_finish_trio"
      /\ work["post_blackparrot_axes"].status = "decide_open_next_family_after_loss"
  BY <1>1, FreshFiles, GateProfile, VortexRecovered
<1>3. evidence.vortex.runs /\ evidence.vortex.built
  BY <1>2, FreshFiles, VortexBuilds, Zenon
<1>4. Wins(evidence.surface["Vortex"], 4)
  <2>1. work["vortex_step"] = SurfaceStep("Vortex", evidence.surface["Vortex"])
    BY <1>2, FreshFiles DEF VortexStep
  <2>. DEFINE p == Profile[selection["vortex_policy"]]
  <2>2. p \in {Candidate("Vortex", 4), Hold("Vortex")}
    BY SelectionsAreWhole, GateValues DEF ProfilesOf, Profile
  <2>3. PolicyReport(selection["vortex_policy"], p, work["vortex_step"]).status \in ReadyStatuses
    BY <1>1, FreshFiles DEF VortexPolicyGate
  <2>. HIDE DEF p
  <2>4. /\ work["vortex_step"].status \in {"ready_to_accept_default_gate", "decide_candidate_only"}
        /\ work["vortex_step"].status = "decide_candidate_only" =>
             p.mode # "default_gate_hold" /\ work["vortex_step"].value = p.value
    BY <2>3, ReadyGate
  <2>5. p.mode # "default_gate_hold" => p.value = 4
    BY <2>2 DEF Candidate, Hold
  <2>6. SurfaceStep("Vortex", evidence.surface["Vortex"]).value = evidence.surface["Vortex"].value
    BY DEF SurfaceStep
  <2>. QED
    BY <2>1, <2>4, <2>5, <2>6 DEF SurfaceStep, Wins
<1>5. /\ evidence.surface["BlackParrot"].candidate = "baseline"
      /\ work["post_openpiton_axes"].family = "BlackParrot"
  BY <1>2, FreshFiles, BlackParrotLost
<1>6. /\ evidence.surface["OpenPiton"].default = "hybrid"
      /\ selection["openpiton"] = "default_gate" /\ selection["openpiton_acceptance"] = "accept"
  <2>1. selection["openpiton"] \in {"default_gate", "default_gate_hold"}
    BY SelectionsAreWhole, GateValues DEF ProfilesOf
  <2>2. evidence \in Evidence \cup Arriving
    BY DEF TInv
  <2>. QED
    BY <1>5, <2>1, <2>2, FreshFiles, OpenPitonWon
<1>. QED
  BY <1>1, <1>2, <1>3, <1>4, <1>5, <1>6

\* Up to date, accepting Vortex rests on the present state of all below it.
THEOREM VortexIsBacked == Spec => []AcceptedVortexIsBacked
<1>1. TInv /\ CycleIsOpen => AcceptedVortexIsBacked
  BY AcceptingVortexNeedsAll DEF AcceptedVortexIsBacked
<1>. QED
  BY <1>1, TInit, TStep, PTL DEF Spec
=============================================================================
