SPECIFICATION CardsSpec
CONSTANTS
  s1 = s1 s2 = s2 s3 = s3 t1 = t1 t2 = t2 l1 = l1 l2 = l2
  Says = {s1, s2, s3}
  Tiers = {t1, t2}
  Limits = {l1, l2}
  Scenes <- MCScenes
  b1 = b1 b2 = b2 None = 0
  Brews = {b1, b2}
  Profiles = {1, 2}
  Recipes = {1, 2}
  Proposals = {1, 2}
  Views <- MCViews
SYMMETRY MCSymmetry
CHECK_DEADLOCK FALSE
INVARIANTS TablesOK CardsApply
PROPERTIES DraftSettles AnswersOnlyTheAsked BrewsItsProfile AcceptKeeps
