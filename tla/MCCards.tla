------------------------------- MODULE MCCards -------------------------------
(* Two cards of one change, one card of two, and a proposal with two changes; two Recipes, two profiles, *)
(* two brews and two proposals of a profile.                                                             *)
EXTENDS Cards, TLC
CONSTANTS s1, s2, s3, t1, t2, l1, l2, b1, b2
MCSymmetry == Permutations({s1, s2, s3}) \cup Permutations({t1, t2}) \cup Permutations({l1, l2})
Sized(proposal, cards, changes, rows, limits, more) ==
  [draft |-> proposal, waiting |-> cards, changes |-> changes, rows |-> rows, limits |-> limits, acts |-> more]
TwoCards == Sized(FALSE, 2, 1, 3, 0, 0)
TwoChanges == Sized(FALSE, 1, 2, 3, 0, 0)
TwoCardsOfLimits == Sized(FALSE, 2, 1, 2, 2, 0)
TwoChangesOfLimits == Sized(FALSE, 1, 2, 2, 2, 0)
ChangedProfile == Sized(TRUE, 1, 2, 0, 0, 1)
MCScenes == {TwoCards, TwoChanges, TwoCardsOfLimits, TwoChangesOfLimits, ChangedProfile}
MCLimitCards == {TwoChangesOfLimits}
Looking(at, versions, turns) == [at |-> at, versions |-> versions, turns |-> turns]
MCViews == {Looking("list", 4, 5), Looking("design", 3, 5), Looking("change", 3, 4)}
MCNoViews == {}
=============================================================================
