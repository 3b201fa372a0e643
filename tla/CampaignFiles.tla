---------------------------- MODULE CampaignFiles ----------------------------
(***************************************************************************)
(* The files through which the campaign tools of src/src/tools work        *)
(* together.  A tool (audit_campaign_*.py) reads some files of work/, the  *)
(* measurements of output/validation, and its profile selection, computes  *)
(* a report, and overwrites its one file of work/.  A setter               *)
(* (set_campaign_*.py) changes the selection of one chain and rewrites the *)
(* chain's gate.  Nothing orders the tools: an operator runs each of them  *)
(* by hand, so a report is as old as its last run.                         *)
(*                                                                         *)
(* A module that models a part of the campaign defines the constants below *)
(* and takes this module with INSTANCE; Report is where the tools differ.  *)
(***************************************************************************)
EXTENDS Naturals, Sequences

CONSTANTS
  Tools,              \* the audit tools, each the only writer of work[tool]
  Chains,             \* what has a selection.json and a setter
  Gate(_),            \* the tool whose file the setter of a chain rewrites
  Needs(_),           \* the files a tool fails without: plain _read_json
  Optional(_),        \* those it reads if they exist, and which then must parse
  Consults(_),        \* chains of other gates whose selection.json a tool reads
  Choices,            \* [chain |-> the profiles an operator may apply]
  CheckedIn,          \* [chain |-> the profile of the repository's selection]
  Evidence,           \* the measurements there may be at first
  Arriving,           \* those that may replace them later
  Report(_, _, _, _), \* what a tool writes: tool, selection, evidence, work
  Attended,           \* bound: the tools the operator runs in this instance
  Fragile             \* bound: the tools that may be killed as they write

VARIABLES
  selection,  \* [chain |-> profile name], config/campaign_*/selection.json
  evidence,   \* the measurements and inventory the tools read
  work,       \* [tool |-> report], work/campaign_*.json
  cut         \* ghost: chains whose setter was killed between its two files

vars == <<selection, evidence, work, cut>>

Missing == [status |-> "missing"]
Torn == [status |-> "torn"]      \* write_text truncates before it writes
TornSelection == "torn"

Intact(report) == report \notin {Missing, Torn}
ChainsOf(t) == {c \in Chains : Gate(c) = t}

FilesInit ==
  /\ selection = CheckedIn
  /\ evidence \in Evidence
  /\ work = [t \in Tools |-> Missing]
  /\ cut = {}

\* The files once the tools of order were run, one after the other, on a fresh
\* clone; a tool whose files are not there writes nothing.
RunInOrder(order, s, e) ==
  LET after[i \in 0..Len(order)] ==
        IF i = 0 THEN [t \in Tools |-> Missing]
        ELSE LET w == after[i - 1]
                 t == order[i]
             IN  IF \A n \in Needs(t) : Intact(w[n])
                 THEN [w EXCEPT ![t] = Report(t, s, e, w)] ELSE w
  IN  after[Len(order)]

-----------------------------------------------------------------------------
FilesReadable(t) ==
  /\ \A n \in Needs(t) : Intact(work[n])
  /\ \A n \in Optional(t) : work[n] # Torn

Readable(t) ==
  /\ FilesReadable(t)
  /\ \A c \in ChainsOf(t) \cup Consults(t) : selection[c] # TornSelection

\* Mutation: a tool whose file is there leaves it as it is.
AuditOnce(t) ==
  /\ Readable(t)
  /\ ~Intact(work[t])
  /\ work' = [work EXCEPT ![t] = Report(t, selection, evidence, work)]
  /\ cut' = cut \ ChainsOf(t)
  /\ UNCHANGED <<selection, evidence>>

\* One run of an audit tool.
Audit(t) ==
  /\ Readable(t)
  /\ work' = [work EXCEPT ![t] = Report(t, selection, evidence, work)]
  /\ cut' = cut \ ChainsOf(t)
  /\ UNCHANGED <<selection, evidence>>

AuditKilled(t) ==
  /\ t \in Fragile
  /\ Readable(t)
  /\ work' = [work EXCEPT ![t] = Torn]
  /\ UNCHANGED <<selection, evidence, cut>>

Chosen(c, p) == [selection EXCEPT ![c] = p]

\* Mutation: the gate is computed from the selection.json still on disk.
ApplyFromDisk(c, p) ==
  /\ Readable(Gate(c))
  /\ selection' = Chosen(c, p)
  /\ work' = [work EXCEPT ![Gate(c)] = Report(Gate(c), selection, evidence, work)]
  /\ cut' = cut \ {c}
  /\ UNCHANGED evidence

\* apply_profile: the gate is computed from the selection about to be written,
\* then selection.json is written, then the gate.
Apply(c, p) ==
  /\ FilesReadable(Gate(c))
  /\ selection' = Chosen(c, p)
  /\ work' = [work EXCEPT ![Gate(c)] = Report(Gate(c), Chosen(c, p), evidence, work)]
  /\ cut' = cut \ {c}
  /\ UNCHANGED evidence

\* A setter killed while it writes the selection, between its two files, or
\* while it writes the gate.
ApplyKilled(c, p) ==
  /\ Gate(c) \in Fragile
  /\ FilesReadable(Gate(c))
  /\ cut' = cut \cup {c}
  /\ \/ /\ selection' = Chosen(c, TornSelection)
        /\ UNCHANGED work
     \/ /\ selection' = Chosen(c, p)
        /\ UNCHANGED work
     \/ /\ selection' = Chosen(c, p)
        /\ work' = [work EXCEPT ![Gate(c)] = Torn]
  /\ UNCHANGED evidence

SetProfile(c) == \E p \in Choices[c] : Apply(c, p) \/ ApplyKilled(c, p)

\* A runner outside the campaign writes new measurements.
Measure == /\ evidence' \in Arriving \ {evidence}
           /\ UNCHANGED <<selection, work, cut>>

RunTool == \E t \in Attended : Audit(t)
ToolKilled == \E t \in Attended : AuditKilled(t)

-----------------------------------------------------------------------------
Current(t) == work[t] = Report(t, selection, evidence, work)

\* No tool that can run would write anything new.
Settled == \A t \in Attended : Readable(t) => Current(t)

\* The operator who refreshes: no tool with something new to write is
\* forgotten for ever.
Refreshed == \A t \in Attended : WF_vars(Audit(t))
=============================================================================
