-------------------------------- MODULE Cards --------------------------------
(* What an agent proposes and a person answers, in both of its kinds: changes of a signature, and       *)
(* Recipes with their profiles.  Either is looked at on its own: they meet in the rows a profile's       *)
(* version carries, which the signatures follow, and in its brew and owner, which the Recipes follow.    *)
EXTENDS Requests, Recipes

NoView == [at |-> "none", versions |-> 0, turns |-> 0]

CardsInit ==
  \/ Init /\ book = NoBook /\ view = NoView
  \/ /\ RecipesInit
     /\ db = [ok |-> TRUE, rows |-> <<>>, limits |-> <<>>, requests |-> <<>>]
     /\ tool = NoCall /\ draft = "none" /\ failed = FALSE /\ acts = 0
     /\ scene = CHOOSE s \in Scenes : TRUE

CardsNext ==
  \/ view = NoView /\ Next /\ UNCHANGED recipeVars
  \/ view # NoView /\ RecipesNext /\ UNCHANGED vars

CardsSpec == CardsInit /\ [][CardsNext]_<<vars, recipeVars>>

\* Rows, requests, Recipes and cards are of their types, what a card says of a row is so, and nothing is
\* there twice that a unique index allows once.
TablesOK == RequestsOK /\ BookOK

\* A card that waits can be answered: nothing it rests on has changed since.
CardsApply == WaitingApplies /\ WaitingCards
=============================================================================
