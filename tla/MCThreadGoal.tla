------------------------------ MODULE MCThreadGoal ------------------------------
(* Instances of ThreadGoal.                                                    *)
EXTENDS ThreadGoal, TLC

\* A session whose user has set a goal bound to a learning goal and has asked for
\* automatic follow-ups, n at most.
AGoal == [rev |-> 1, edit |-> 1, bound |-> TRUE, status |-> "active",
          mode |-> "manual", max |-> 1, used |-> 0, streak |-> 0]
AutoGoal(n) ==
  {<<GoalRow("updated", NoRun, AGoal, ""),
     GoalRow("policy", NoRun, [AGoal EXCEPT !.rev = 2, !.edit = 2, !.mode = "auto", !.max = n], "")>>}
OneFollowup == AutoGoal(1)

Says(verdict, progress, deposit) ==
  [verdict |-> verdict, progress |-> progress, deposit |-> deposit]
FewJudgements ==
  {Says("ended", FALSE, FALSE), Says("ended", TRUE, TRUE), Says("missing", TRUE, FALSE),
   Says("unmet", FALSE, TRUE), Says("unmet", TRUE, FALSE)}
MCSymmetry == Permutations(Proc) \union Permutations(Slot)
=============================================================================
