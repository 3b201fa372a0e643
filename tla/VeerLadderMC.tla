---------------------------- MODULE VeerLadderMC ----------------------------
(* Instances of VeerLadder for TLC. *)
EXTENDS VeerLadder, TLC

\* Both profiles of the chains in open, the checked-in one of the others.
Choose(open) ==
  [c \in Chains |-> IF c \notin open THEN {CheckedIn[c]}
                    ELSE ProfilesOf[c]]

Open == "open_fallback_family_ready"
All == {EH1, EH2, EL2}
Order == <<EH1, EH2, EL2>>
CandidateWin(value) == Surface("unready", "hybrid", value)
AllWon == (EH1 :> CandidateWin(5) @@ EH2 :> CandidateWin(4) @@ EL2 :> CandidateWin(6))

Best == [runtime |-> Open, footprint |-> Order, bootstrapped |-> All, surface |-> AllWon, families |-> 2]

\* The candidate of the second surface measured at the first one's threshold.
WrongThreshold == [Best EXCEPT !.surface[EH2] = CandidateWin(5)]

\* One thing after another differs from what the repository has.
Variants ==
  {Best, WrongThreshold,
   [Best EXCEPT !.runtime = "debug"],
   [Best EXCEPT !.families = 0],
   [Best EXCEPT !.footprint = <<EH2, EH1, EL2>>],
   [Best EXCEPT !.footprint = <<EH1, EL2, EH2>>]}
  \cup {[Best EXCEPT !.bootstrapped = All \ {d}] : d \in All}
  \cup {[Best EXCEPT !.surface[d] = Surface(x, "none", 0)] : d \in All, x \in Comparisons}
  \cup {[Best EXCEPT !.surface[d] = Surface("unready", y, 5)] :
          d \in All, y \in {"none", "baseline", "hybrid"}}

MCHoldSecond == Choose({"same", "final_acceptance"})
MCVariants == Variants
MCWrongThreshold == {WrongThreshold}
=============================================================================
