------------------------------- MODULE Recipes -------------------------------
(* Recipes and who changes them: the person at the pages, the agent in the chats, the sync and the     *)
(* machine's display (db/repos/recipes.py, recipe_proposals.py, outcome_proposals.py, drafts/board.py). *)
(* A step is one transaction.  What a form or a tool asks in one and writes in another is two steps,    *)
(* and everybody else acts in between.                                                                  *)
EXTENDS RecipeTables

CONSTANT Views   \* what is looked at, and how many versions a Recipe gets

ASSUME RecipesAssumption ==
  /\ \A S \in {Brews, Profiles, Recipes, Proposals} : IsFiniteSet(S) /\ None \notin S
  /\ \A S \in {Profiles, Recipes, Proposals} : S # {} /\ S \subseteq Nat
  /\ Cardinality(Brews) >= 2
  /\ Views \subseteq [at : {"list", "design", "change"}, versions : Nat, turns : Nat]

NoStep == [kind |-> "none", recipe |-> None, ref |-> Nothing, proposal |-> None]

VARIABLES
  book,   \* the tables, and what a form or a tool has asked and not written yet
  view    \* what is looked at, and how many turns are left

recipeVars == <<book, view>>

NoBook ==
  [ok |-> TRUE, loose |-> {}, files |-> {}, step |-> NoStep,
   active |-> [p \in Profiles |-> None], owned |-> [p \in Profiles |-> {}], listed |-> [p \in Profiles |-> {}],
   recipe |-> [r \in Recipes |-> NoRecipe], card |-> [r \in Recipes |-> NoCard],
   proposal |-> [d \in Proposals |-> NoProposal]]

\* One profile.  Beside it a file of the machine, a Recipe being designed, or its own Recipe, whose
\* first version may state a prediction and have a rated shot.
Beginning(p, r, mine, other, tasted) ==
  LET one == [NoBook EXCEPT !.active[p] = mine, !.owned[p] = {mine}, !.listed[p] = {mine}] IN
  CASE view.at = "list" -> [one EXCEPT !.loose = {other}, !.files = {Ownerless(other)}]
    [] view.at = "design" -> DesignCreated(one, r)
    [] view.at = "change" -> [Listed(Attached(Created(one, r, Ref(p, mine), FALSE), p, Ref(p, other)), p, other)
                                EXCEPT !.recipe[r].versions[1].predicted = tasted,
                                       !.recipe[r].versions[1].shots = IF tasted THEN "rated" ELSE "none"]

RecipesInit ==
  /\ view \in Views
  /\ LET mine == CHOOSE brew \in Brews : TRUE
         other == CHOOSE brew \in Brews \ {mine} : TRUE
     IN  \E tasted \in BOOLEAN : book = Beginning(Min(Profiles), Min(Recipes), mine, other, tasted)

---------------------------------------------------------------------------
Refs == [owner : Profiles \cup {None}, brew : Brews]
Known(b) == {ref \in Refs : ref.brew \in IF ref.owner = None THEN b.loose ELSE b.owned[ref.owner]}
Exists(r) == book.recipe[r].current # 0

\* Ids are given out in order.
First(ids) == IF ids = {} THEN {} ELSE {Min(ids)}
NewRecipe == First({r \in Recipes : ~Exists(r)})
NewProfile == First({p \in Profiles : book.active[p] = None})
NewProposal == First({d \in Proposals : book.proposal[d].status = "none"})

RoomIn(b) == \A r \in Recipes : Len(b.recipe[r].versions) <= view.versions

At(places) == view.at \in places
Turn == view.turns > 0 /\ view' = [view EXCEPT !.turns = @ - 1]

\* A refusal undoes the transaction.
Does(result) == /\ result.ok /\ RoomIn(result)
                /\ book' = result

\* A form or a tool that is refused at last leaves everything as it was.
Ends(result, otherwise) ==
  /\ RoomIn(result)
  /\ book' = [(IF result.ok THEN result ELSE otherwise) EXCEPT !.step = NoStep]

---------------------------------------------------------------------------
(* The pages of Recipes                                                            *)

CreateRecipe ==
  /\ At({"list", "design"}) /\ Turn
  /\ \E r \in NewRecipe, ref \in Known(book) : Does(Created(book, r, ref, FALSE))

\* The Add a version form: a profile for a Recipe that has none is asked about first.
FormAsks ==
  /\ At({"list", "design"}) /\ Turn
  /\ book.step = NoStep
  /\ \E r \in Recipes, ref \in Known(book) :
       /\ Exists(r) /\ book.recipe[r].profile = None /\ StartsOn(book, ref, FALSE)
       /\ book' = [book EXCEPT !.step = [NoStep EXCEPT !.kind = "form", !.recipe = r, !.ref = ref]]

FormWrites ==
  /\ book.step.kind = "form"
  /\ IF ~Exists(book.step.recipe) THEN Ends(book, book)
     ELSE Ends(Written(book, book.step.recipe, book.step.ref, Plain), book)
  /\ UNCHANGED view

\* Its other fields, with a prediction or not.
FormChanges ==
  /\ At({"list", "change"}) /\ Turn
  /\ \E r \in Recipes, predicted, major \in BOOLEAN :
       /\ Exists(r) /\ ~book.recipe[r].designing
       /\ predicted \/ major => At({"change"})
       /\ Does(Written(book, r, CurrentOf(book, r).ref, [predicted |-> predicted, major |-> major, keep |-> FALSE]))

Revert ==
  /\ Turn
  /\ \E r \in Recipes : \E i \in DOMAIN book.recipe[r].versions :
       i # book.recipe[r].current /\ Does(Reverted(book, r, i))

CreateDesign ==
  /\ At({"design"}) /\ Turn
  /\ \E r \in NewRecipe : Does(DesignCreated(book, r))

DiscardDesign ==
  /\ At({"design"}) /\ Turn
  /\ \E r \in Recipes : Exists(r) /\ Does(DesignDiscarded(book, r))

---------------------------------------------------------------------------
(* The profile list                                                                *)

\* A proposal is stored with its version: of a new profile, or a change to one, perhaps argued in the
\* chat of a Recipe.
StoredAs(d, brew, dest, recipe) ==
  [book EXCEPT !.proposal[d] = [NoProposal EXCEPT !.status = "draft", !.ref = Ref(dest, brew),
                                                  !.dest = dest, !.recipe = recipe],
               !.loose = IF dest = None THEN @ \cup {brew} ELSE @,
               !.owned = [p \in Profiles |-> IF p = dest THEN @[p] \cup {brew} ELSE @[p]]]
OnList == {p \in Profiles : book.active[p] # None}
Dests == OnList \cup {None}

ProposeProfile ==
  /\ Turn
  /\ \E d \in NewProposal, brew \in Brews, dest \in Dests, recipe \in Recipes \cup {None} :
       /\ At({"change"}) => dest # None
       /\ recipe # None => /\ At({"change"}) /\ Exists(recipe)
                           /\ ~OutcomeBlocks(CurrentOf(book, recipe))
       /\ book' = StoredAs(d, brew, dest, recipe)

\* Approved: refused when the list has it already, or a profile is called what the new one would be.
Puttable(d) ==
  LET it == book.proposal[d] IN
  IF it.dest = None THEN it.status = "draft"
  ELSE it.status \in {"draft", "approved"} /\ it.ref # Ref(it.dest, book.active[it.dest])

\* The profile a proposal of a new one becomes.
Lands(dest) == IF dest = None THEN NewProfile ELSE {dest}

Put ==
  /\ Turn
  /\ \E d \in Proposals, major \in BOOLEAN : \E new \in Lands(book.proposal[d].dest) :
       /\ Puttable(d)
       /\ major => At({"change"}) /\ book.proposal[d].dest # None
       /\ Does(PutProposal(book, d, new, major))

MakesActive ==
  /\ Turn
  /\ \E p \in Profiles : \E brew \in book.listed[p] \ {book.active[p]} : Does(MakeActive(book, p, brew))

\* A sync of the list: a file joins it; a proposal's profile is on the machine.
Adopt ==
  /\ At({"list"}) /\ Turn
  /\ \E file \in book.files, p \in NewProfile :
       Does(InsertProfile([book EXCEPT !.files = @ \ {file}, !.loose = @ \cup {file.brew}],
                             p, Ownerless(file.brew)))

Push ==
  /\ At({"design"}) /\ Turn
  /\ \E d \in Proposals, p \in Profiles :
       /\ book.proposal[d].status = "approved" /\ book.proposal[d].ref = Ref(p, book.active[p])
       /\ book' = [book EXCEPT !.proposal[d].status = "pushed"]

\* On the Profiles page a person turns a proposal down, or refines it, whoever waits for it; a pushed
\* one whose file a sync takes off the machine is discarded with it.
Closes(at) ==
  Turn /\ \E d \in Proposals :
    book.proposal[d].status \in at /\ book' = [book EXCEPT !.proposal[d].status = "discarded", !.proposal[d].closed = TRUE]
TurnDown == Closes({"draft", "approved"})
TakenOff == At({"design"}) /\ Closes({"pushed"})

\* What the display saved over a profile's file is kept as its version; a person may make it the active
\* one.  The mirror stored it as nobody's, as the profile's, or as the version of another that has the brew.
EditAtMachine ==
  /\ At({"list"}) /\ Turn
  /\ \E p \in OnList, brew \in Brews, machines \in BOOLEAN :
       /\ brew # book.active[p]
       /\ \E owner \in {None, p} \cup {q \in Profiles : brew \in book.owned[q]} :
            LET seen == IF owner = None THEN [book EXCEPT !.loose = @ \cup {brew}] ELSE book
                kept == AddVersion(seen, p, Ref(owner, brew))
            IN  Does(IF machines THEN MakeActive(kept, p, brew) ELSE kept)

\* A starting point: its proposal is stored, then the Recipe on it.
StartingPoint ==
  /\ At({"list"}) /\ Turn
  /\ book.step = NoStep
  /\ \E d \in NewProposal, brew \in Brews, dest \in Dests :
       book' = [StoredAs(d, brew, dest, None)
                     EXCEPT !.step = [NoStep EXCEPT !.kind = "start", !.ref = Ref(dest, brew), !.proposal = d]]

StartingPointCreates ==
  /\ book.step.kind = "start"
  /\ \E r \in NewRecipe : Ends(Created(book, r, book.step.ref, TRUE), book)
  /\ UNCHANGED view

---------------------------------------------------------------------------
(* The chats and their cards                                                       *)

\* The agent proposes a first recipe: its profile is stored, then the card, or the proposal is discarded.
ProposeFirst ==
  /\ At({"design"}) /\ Turn
  /\ book.step = NoStep
  /\ \E r \in Recipes, d \in NewProposal, brew \in Brews, dest \in Dests :
       /\ book.recipe[r].designing
       /\ book' = [StoredAs(d, brew, dest, None)
                     EXCEPT !.step = [NoStep EXCEPT !.kind = "card", !.recipe = r, !.proposal = d]]

CardWrites ==
  /\ book.step.kind = "card"
  /\ Ends(CardCreated(book, book.step.recipe, "design", book.step.proposal),
          Discarded(book, {book.step.proposal}))
  /\ UNCHANGED view

ProposeChange ==
  /\ At({"change"}) /\ Turn
  /\ \E r \in Recipes : Does(CardCreated(book, r, "change", None))

\* A change's card puts nothing, and neither does a first recipe's whose profile is answered.
Puts(card) ==
  IF card.proposal = None THEN {None}
  ELSE IF book.proposal[card.proposal].status = "draft" THEN Lands(book.proposal[card.proposal].dest) ELSE {None}

AcceptCard ==
  /\ Turn
  /\ \E r \in Recipes, major \in BOOLEAN : \E new \in Puts(book.card[r]) :
       /\ book.card[r].status = "waiting"
       /\ major => book.card[r].kind = "change"
       /\ Does(Accepted(book, r, new, major))

DeclineCard ==
  /\ Turn
  /\ \E r \in Recipes : book.card[r].status = "waiting" /\ Does(Declined(book, r))

---------------------------------------------------------------------------
(* Predictions, grades and shots                                                   *)

Version(r, i) == book.recipe[r].versions[i]
Recorded(r, i, version) == book' = [book EXCEPT !.recipe[r].versions[i] = version]

Predict ==
  /\ At({"change"}) /\ Turn
  /\ \E r \in Recipes : \E i \in DOMAIN book.recipe[r].versions :
       /\ Version(r, i).shots = "none" /\ Version(r, i).outcome = "none"
       /\ Recorded(r, i, [Version(r, i) EXCEPT !.predicted = ~@])

ProposeGrade ==
  /\ At({"change"}) /\ Turn
  /\ \E r \in Recipes : \E i \in DOMAIN book.recipe[r].versions :
       Gradable(Version(r, i)) /\ Recorded(r, i, [Version(r, i) EXCEPT !.grade = TRUE])

\* The person grades on the page, or answers the agent's card with its grade or another; takes a grade
\* back; dismisses the card.
Grade ==
  /\ At({"change"}) /\ Turn
  /\ \E r \in Recipes : \E i \in DOMAIN book.recipe[r].versions :
       LET v == Version(r, i) IN
       \/ Gradable(v) /\ Recorded(r, i, [v EXCEPT !.outcome = "person"])
       \/ Gradable(v) /\ v.grade /\ Recorded(r, i, [v EXCEPT !.outcome = "person", !.grade = FALSE])
       \/ v.outcome # "none" /\ Recorded(r, i, [v EXCEPT !.outcome = "none"])
       \/ v.grade /\ Recorded(r, i, [v EXCEPT !.grade = FALSE])

\* A shot is filed under a version, or taken off it; it is rated, or discarded.
Shot ==
  /\ At({"design", "change"}) /\ Turn
  /\ \E r \in Recipes : \E i \in DOMAIN book.recipe[r].versions :
       \E to \in IF At({"design"}) THEN {"filed"} ELSE IF Version(r, i).shots = "rated" THEN {"none", "filed"} ELSE {"rated"} :
         Recorded(r, i, [Version(r, i) EXCEPT !.shots = to])

RecipesNext ==
  \/ CreateRecipe \/ FormAsks \/ FormWrites \/ FormChanges \/ Revert \/ CreateDesign \/ DiscardDesign
  \/ ProposeProfile \/ Put \/ MakesActive \/ Adopt \/ Push \/ TurnDown \/ TakenOff \/ EditAtMachine \/ StartingPoint \/ StartingPointCreates
  \/ ProposeFirst \/ CardWrites \/ ProposeChange \/ AcceptCard \/ DeclineCard
  \/ Predict \/ ProposeGrade \/ Grade \/ Shot

RecipesSpec == RecipesInit /\ [][RecipesNext]_recipeVars

---------------------------------------------------------------------------
\* The tables hold what their columns allow.
BookTypes ==
  /\ book.ok /\ book.loose \subseteq Brews /\ book.files \subseteq Refs
  /\ \A p \in Profiles : /\ book.listed[p] \subseteq book.owned[p] /\ book.owned[p] \subseteq Brews
                         /\ book.active[p] \in book.listed[p] \cup {None}
  /\ \A r \in Recipes : /\ book.recipe[r].current \in DOMAIN book.recipe[r].versions \cup {0}
                        /\ book.card[r].status \in {"none", "waiting", "accepted", "declined", "stale"}
  /\ \A d \in Proposals : book.proposal[d].status \in {"none", "draft", "approved", "pushed", "discarded"}
  /\ book.step.kind \in {"none", "form", "start", "card"}

\* No two versions of a Recipe have one name, and no two Recipes one profile; a Recipe being designed has
\* its empty version alone, and no profile: what the unique indexes would otherwise turn into an error.
Distinct ==
  /\ \A r \in Recipes : \A i, j \in DOMAIN book.recipe[r].versions :
       i # j => <<Version(r, i).major, Version(r, i).minor>> # <<Version(r, j).major, Version(r, j).minor>>
  /\ \A p \in Profiles : Cardinality(RecipesOf(book, p)) <= 1
  /\ \A r \in Recipes : book.recipe[r].designing => /\ book.recipe[r].profile = None
                                                    /\ NamedIn(book, r) = {Nothing}
BookOK == BookTypes /\ Distinct

\* A card that waits was argued against the version the Recipe brews, and is a first recipe only while
\* the Recipe is being designed; its proposal stands, or was closed where a person sees it; and a card's
\* profile nobody answered yet has its card waiting.
WaitingCards ==
  /\ \A r \in Recipes : book.card[r].status = "waiting" =>
       /\ book.card[r].base = book.recipe[r].current
       /\ (book.card[r].kind = "design") = book.recipe[r].designing
       /\ LET d == book.card[r].proposal IN
          d = None \/ book.proposal[d].closed \/ book.proposal[d].status \in {"draft", "approved", "pushed"}
  /\ \A d \in Proposals : book.proposal[d].carded /\ book.proposal[d].status = "draft" =>
       \E r \in Recipes : book.card[r].status = "waiting" /\ book.card[r].proposal = d

\* Every version of a Recipe brews a version its profile owns, or one nobody owns when it has none, and
\* that version is there.
OwnVersions ==
  \A r \in Recipes : \A ref \in NamedIn(book, r) \ {Nothing} :
    ref.owner = book.recipe[r].profile /\ ref \in Known(book)

\* When a profile has another active version, or a Recipe there is gets a profile, the Recipe names the
\* active version in that very step; but for a form, which names the version it was shown.
AskedEarlier == book.step.kind = "form" /\ book'.step = NoStep
Follows ==
  \A r \in Recipes : LET p == book'.recipe[r].profile IN
    /\ Exists(r) /\ p # None
    /\ book'.active[p] # book.active[p] \/ (book.recipe[r].profile # p /\ ~AskedEarlier)
    => CurrentOf(book', r).ref = Ref(p, book'.active[p])

\* A Recipe and its profile brew one thing after every step, whatever is adopted, approved, reverted and taken over.
BrewsItsProfile == [][OwnVersions' /\ Follows]_recipeVars

\* Accepting a change records an outcome only where there was none, and leaves none open that the agent
\* has argued past.
AcceptKeeps ==
  [][\A r \in Recipes :
       book.card[r].status = "waiting" /\ book'.card[r].status = "accepted" =>
         /\ \A i \in DOMAIN book.recipe[r].versions :
              Version(r, i).outcome # "none" => book'.recipe[r].versions[i].outcome = Version(r, i).outcome
         /\ book.card[r].kind = "change" => ~Open(book'.recipe[r].versions[book.card[r].base])]_recipeVars
=============================================================================
