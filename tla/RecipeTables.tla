---------------------------- MODULE RecipeTables ----------------------------
(* The tables of Recipes, their versions, their cards and the proposals of profiles, and what the     *)
(* repositories write to them (db/repos/recipes.py, db/repos/profile_board.py, drafts/board.py).       *)
(* A profile's version is named by the profile that owns it and what it brews: one profile has a brew  *)
(* once, and so have the versions no profile owns.  An operator takes the tables and returns them as   *)
(* one transaction leaves them; ok is FALSE when it refuses, which undoes the transaction.             *)
EXTENDS Integers, Sequences, FiniteSets, FiniteSetsExt, SequencesExt

CONSTANTS Brews, Profiles, Recipes, Proposals, None

Ref(owner, brew) == [owner |-> owner, brew |-> brew]
Ownerless(brew) == Ref(None, brew)
Nothing == Ref(None, None)   \* the first version of a Recipe being designed names no profile's

NoRecipe == [profile |-> None, designing |-> FALSE, current |-> 0, versions |-> <<>>]
NoCard == [status |-> "none", base |-> 0, kind |-> "change", proposal |-> None]
\* History: it had a card; it was closed on the Profiles page, or by a sync.
NoProposal == [status |-> "none", ref |-> Nothing, dest |-> None, recipe |-> None, carded |-> FALSE, closed |-> FALSE]
FirstVersion(ref) == [ref |-> ref, major |-> 1, minor |-> 0, predicted |-> FALSE,
                      outcome |-> "none", grade |-> FALSE, shots |-> "none"]

\* How a version is written: with a prediction, as a major one, as the answer to the waiting card.
Plain == [predicted |-> FALSE, major |-> FALSE, keep |-> FALSE]

Denied(b) == [b EXCEPT !.ok = FALSE]

CurrentOf(b, r) == b.recipe[r].versions[b.recipe[r].current]
NamedIn(b, r) == {v.ref : v \in ToSet(b.recipe[r].versions)}
Naming(b, ref) == {r \in Recipes : ref \in NamedIn(b, r)}
RecipesOf(b, p) == {r \in Recipes : b.recipe[r].profile = p}
Open(v) == v.predicted /\ v.outcome = "none"

---------------------------------------------------------------------------
(* Whose a version is                                                              *)

\* Whether the profile may take the ownerless version over: no Recipe names it, or the one that does
\* has this profile, or has none, brews it now, brews no other profile's, and the profile is free.
TakenOverWith(b, p, ref) ==
  LET named == Naming(b, ref) IN
  /\ \A r, o \in named : r = o
  /\ \A r \in named :
       /\ RecipesOf(b, p) \subseteq {r}
       /\ \A v \in NamedIn(b, r) : v.owner \in {None, p}
       /\ \/ b.recipe[r].profile = p
          \/ b.recipe[r].profile = None /\ CurrentOf(b, r).ref = ref

\* Everything that names the version names the profile's from now on.
TakeOver(b, p, brew) ==
  LET Moved(ref) == IF ref = Ownerless(brew) THEN Ref(p, brew) ELSE ref
  IN [b EXCEPT !.loose = @ \ {brew}, !.owned[p] = @ \cup {brew},
        !.recipe = [r \in Recipes |-> [@[r] EXCEPT !.versions =
                      [i \in DOMAIN @ |-> [@[i] EXCEPT !.ref = Moved(@)]]]],
        !.proposal = [d \in Proposals |-> [@[d] EXCEPT !.ref = Moved(@)]],
        !.files = {Moved(f) : f \in @}, !.step.ref = Moved(@)]

Takes(b, p, ref) == /\ ref.owner = None /\ ref.brew \notin b.owned[p]
                    /\ TakenOverWith(b, p, ref)

\* The profile has a version of the brew: that one, or a copy of it.
Attached(b, p, ref) ==
  IF Takes(b, p, ref) THEN TakeOver(b, p, ref.brew) ELSE [b EXCEPT !.owned[p] = @ \cup {ref.brew}]

Listed(b, p, brew) == [b EXCEPT !.listed[p] = @ \cup {brew}]

Renamed(b, r, old, new) ==
  [b EXCEPT !.recipe[r].versions =
     [i \in DOMAIN @ |-> [@[i] EXCEPT !.ref = IF @ = old THEN new ELSE @]]]

\* Mutant: only what the Recipe brews now becomes the profile's.
SettledNow(b, p, r) ==
  LET ref == CurrentOf(b, r).ref
  IN  IF ref.owner # None THEN b
      ELSE Listed(Renamed(Attached(b, p, ref), r, ref, Ref(p, ref.brew)), p, ref.brew)

\* The Recipe has just become the profile's: so do the versions it names that no profile owned.
Settled(b, p, r) ==
  FoldSet(LAMBDA ref, sofar :
            Listed(Renamed(Attached(sofar, p, ref), r, ref, Ref(p, ref.brew)), p, ref.brew),
          b, {ref \in NamedIn(b, r) : ref.owner = None /\ ref # Nothing})

---------------------------------------------------------------------------
(* A Recipe's versions                                                             *)

\* Proposals not sent to the machine yet.
Discarded(b, ds) ==
  [b EXCEPT !.proposal = [d \in Proposals |->
     IF d \in ds /\ @[d].status \in {"draft", "approved"} THEN [@[d] EXCEPT !.status = "discarded"] ELSE @[d]]]

\* The card that waited was argued against a version the Recipe has left.
RetireWaiting(b, r, keep) ==
  IF keep \/ b.card[r].status # "waiting" THEN b
  ELSE Discarded([b EXCEPT !.card[r].status = "stale"], {b.card[r].proposal})

\* Mutant: the minor after the current version's, as after a revert.
NextNameOn(recipe, major) ==
  LET now == recipe.versions[recipe.current]
  IN  IF major THEN <<now.major + 1, 0>> ELSE <<now.major, now.minor + 1>>

\* The next major, or the next minor of the current version's major.
NextName(recipe, major) ==
  LET now == recipe.versions[recipe.current].major
  IN  IF major THEN <<Max({v.major : v \in ToSet(recipe.versions)}) + 1, 0>>
      ELSE <<now, Max({v.minor : v \in {w \in ToSet(recipe.versions) : w.major = now}}) + 1>>

InsertVersion(b, r, ref, how) ==
  LET recipe == b.recipe[r]
      name == NextName(recipe, how.major)
      version == [FirstVersion(ref) EXCEPT !.major = name[1], !.minor = name[2], !.predicted = how.predicted]
  IN  IF ref # Nothing /\ ref.owner # recipe.profile THEN Denied(b)
      ELSE RetireWaiting([b EXCEPT !.recipe[r].versions = Append(@, version),
                                   !.recipe[r].current = Len(recipe.versions) + 1], r, how.keep)

\* The profile a Recipe may start on: a free one's active version, or a version nobody names, of a
\* file the list has not adopted.  A proposal's version need be neither.
StartsOn(b, ref, fromAProposal) ==
  \/ ref = Nothing
  \/ /\ ref.owner # None /\ RecipesOf(b, ref.owner) = {}
     /\ fromAProposal \/ b.active[ref.owner] = ref.brew
  \/ /\ ref # Nothing /\ ref.owner = None /\ Naming(b, ref) = {}
     /\ fromAProposal \/ ref \in b.files

\* A Recipe without a profile is given one with its next version.
GiveProfile(b, r, p) == Settled([b EXCEPT !.recipe[r].profile = p], p, r)

AppendVersion(b, r, ref, how) ==
  LET legacy == ref.owner # None /\ b.recipe[r].profile = None
  IN  IF legacy /\ ~StartsOn(b, ref, FALSE) THEN Denied(b)
      ELSE InsertVersion(IF legacy THEN GiveProfile(b, r, ref.owner) ELSE b, r, ref, how)

\* The profile's active version has changed: its Recipe follows, unless it names that one already.
FollowProfile(b, p, how) ==
  LET active == Ref(p, b.active[p])
      behind == {r \in RecipesOf(b, p) : CurrentOf(b, r).ref # active}
  IN  IF behind = {} THEN b ELSE AppendVersion(b, CHOOSE r \in behind : TRUE, active, how)

DesignRefusal(recipe) == Len(recipe.versions) # 1 \/ recipe.versions[1].shots # "none"

\* The first recipe is written onto the empty version of a Recipe being designed.
FillDesign(b, r, ref, keep) ==
  IF DesignRefusal(b.recipe[r]) \/ ~StartsOn(b, ref, TRUE) THEN Denied(b)
  ELSE LET filled == RetireWaiting([b EXCEPT !.recipe[r].profile = ref.owner, !.recipe[r].designing = FALSE,
                                             !.recipe[r].versions[1].ref = ref,
                                             !.recipe[r].versions[1].predicted = FALSE], r, keep)
       IN  IF ref.owner = None THEN filled
           ELSE FollowProfile(filled, ref.owner, [Plain EXCEPT !.keep = keep])

Written(b, r, ref, how) ==
  IF b.recipe[r].designing THEN FillDesign(b, r, ref, how.keep) ELSE AppendVersion(b, r, ref, how)

Created(b, r, ref, fromAProposal) ==
  IF ~StartsOn(b, ref, fromAProposal) THEN Denied(b)
  ELSE [b EXCEPT !.recipe[r] = [profile |-> ref.owner, designing |-> FALSE, current |-> 1,
                                versions |-> <<FirstVersion(ref)>>]]

---------------------------------------------------------------------------
(* A profile's versions                                                            *)

\* The one place a version is attached to a profile; the Recipe that brewed it comes with it.
VersionFor(b, p, ref) ==
  LET taker == {r \in Naming(b, ref) : b.recipe[r].profile = None}
      given == Attached(b, p, ref)
  IN  IF ~Takes(b, p, ref) \/ taker = {} THEN given
      ELSE LET r == CHOOSE r \in taker : TRUE
           IN  FollowProfile(Settled([given EXCEPT !.recipe[r].profile = p], p, r), p, Plain)

AddVersion(b, p, ref) == Listed(VersionFor(b, p, ref), p, ref.brew)

InsertProfile(b, p, ref) == AddVersion([b EXCEPT !.active[p] = ref.brew], p, ref)

\* A proposal is put on the list: a new profile, or its profile's active version.
PutProposal(b, d, new, major) ==
  LET it == b.proposal[d]
      approved == [b EXCEPT !.proposal[d].status = "approved"]
      p == IF it.dest = None THEN new ELSE it.dest
      kept == Ref(p, it.ref.brew)
      made == [AddVersion(approved, p, it.ref) EXCEPT !.active[p] = it.ref.brew, !.proposal[d].ref = kept]
  IN  IF it.dest = None THEN [InsertProfile(approved, p, it.ref) EXCEPT !.proposal[d].ref = kept]
      ELSE FollowProfile(made, p, [Plain EXCEPT !.predicted = it.recipe # None /\ RecipesOf(made, p) = {it.recipe},
                                                !.major = major])

MakeActive(b, p, brew) == FollowProfile([b EXCEPT !.active[p] = brew], p, Plain)

\* Mutant: the card that waits is left as it is.
RollbackOnly(b, r, i) == IF b.recipe[r].designing THEN Denied(b) ELSE [b EXCEPT !.recipe[r].current = i]

\* A Recipe goes back to a version it has, and its profile with it: both, or neither.
Rollback(b, r, i) ==
  IF b.recipe[r].designing THEN Denied(b) ELSE RetireWaiting([b EXCEPT !.recipe[r].current = i], r, FALSE)

Reverted(b, r, i) ==
  LET p == b.recipe[r].profile
      target == b.recipe[r].versions[i].ref
      back == Rollback(b, r, i)
  IN  IF p = None \/ target \in {Nothing, Ref(p, b.active[p])} THEN back
      ELSE IF target.owner = p /\ target.brew \in b.listed[p] THEN [back EXCEPT !.active[p] = target.brew]
      ELSE Denied(b)

---------------------------------------------------------------------------
(* Grades and cards                                                                *)

Gradable(v) == v.predicted /\ v.shots = "rated"
Graded(b, r, i, outcome) == [b EXCEPT !.recipe[r].versions[i].outcome = outcome]

\* An open outcome nobody has even proposed stops the next change.
OutcomeBlocks(v) == Open(v) /\ ~v.grade

CardRefused(b, r, kind, d) ==
  \/ b.recipe[r].current = 0
  \/ b.recipe[r].designing # (kind = "design")
  \/ b.card[r].status = "waiting" /\ kind = "change"
  \/ kind = "change" /\ OutcomeBlocks(CurrentOf(b, r))
  \/ kind = "design" /\ b.proposal[d].status \notin {"draft", "approved"}

\* A newer first recipe replaces the one that waits.
CardCreated(b, r, kind, d) ==
  IF CardRefused(b, r, kind, d) THEN Denied(b)
  ELSE [RetireWaiting(b, r, FALSE) EXCEPT
          !.card[r] = [status |-> "waiting", base |-> b.recipe[r].current, kind |-> kind, proposal |-> d],
          !.proposal = [x \in Proposals |-> IF x = d THEN [@[x] EXCEPT !.carded = TRUE] ELSE @[x]]]

\* Mutant: the grade that waits is recorded whatever the person has said since.
GradeAnyway(b, r) ==
  LET i == b.recipe[r].current
      v == CurrentOf(b, r)
  IN  IF v.grade /\ Gradable(v) THEN [Graded(b, r, i, "agent") EXCEPT !.recipe[r].versions[i].grade = FALSE]
      ELSE IF Open(v) THEN Denied(b) ELSE b

\* Accepting a change records the grade that waits, while the outcome is open.
GradeFirst(b, r) ==
  LET i == b.recipe[r].current
      v == CurrentOf(b, r)
  IN  IF ~Open(v) THEN b
      ELSE IF v.grade /\ Gradable(v) THEN [Graded(b, r, i, "agent") EXCEPT !.recipe[r].versions[i].grade = FALSE]
      ELSE Denied(b)

\* Accepting a first recipe settles its profile first: a proposal still waiting is put on the list.
SettleForAccept(b, r, new) ==
  LET d == b.card[r].proposal IN
  IF b.proposal[d].status \notin {"draft", "approved", "pushed"} THEN Denied(b)
  ELSE IF b.proposal[d].status = "draft" THEN PutProposal(b, d, new, FALSE) ELSE b

Accepted(b, r, new, major) ==
  LET card == b.card[r]
      first == IF card.kind = "design" THEN SettleForAccept(b, r, new) ELSE GradeFirst(b, r)
      ref == IF card.kind = "design" THEN first.proposal[card.proposal].ref ELSE CurrentOf(b, r).ref
      written == Written(first, r, ref, [predicted |-> card.kind = "change", major |-> major, keep |-> TRUE])
  IN  IF card.base # b.recipe[r].current THEN RetireWaiting(b, r, FALSE)
      ELSE IF ~first.ok THEN first
      ELSE [written EXCEPT !.card[r].status = "accepted"]

Declined(b, r) == Discarded([b EXCEPT !.card[r].status = "declined"], {b.card[r].proposal})

DesignCreated(b, r) ==
  [b EXCEPT !.recipe[r] = [NoRecipe EXCEPT !.designing = TRUE, !.current = 1, !.versions = <<FirstVersion(Nothing)>>]]

\* A Recipe still being designed is deleted, with its cards; their proposals are discarded.
DesignDiscarded(b, r) ==
  IF ~b.recipe[r].designing \/ DesignRefusal(b.recipe[r]) THEN Denied(b)
  ELSE [Discarded(b, {b.card[r].proposal}) EXCEPT !.recipe[r] = NoRecipe, !.card[r] = NoCard]
=============================================================================
