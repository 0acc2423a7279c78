------------------------------ MODULE Requests ------------------------------
(* What an agent asks a person to change of a signature, and the answer           *)
(* (signatures/change_requests.py, signatures/service.py).                        *)
(* Either an agent works on the version the Recipe brews and its requests wait on  *)
(* cards, or a request goes with a proposal of a changed profile and is applied     *)
(* when the proposal is put in the list.                                            *)
(* Versions: "base", the proposal's "draft" and the profile's "own" version of     *)
(* the same brew, which is the one it becomes when there is one. A step is a        *)
(* transaction; what a tool checks outside of one is a step of its own.             *)
EXTENDS Signatures

CONSTANTS Says,       \* what an expectation can say (its identity)
          Tiers,
          Limits,     \* the different limits an override can state
          Scenes      \* what is looked at: a proposal's request or cards (how many wait at once, with how
                      \* many changes), and how many rows, limits and, with a proposal, other acts there are

ASSUME RequestsAssumption ==
  /\ IsFiniteSet(Says) /\ IsFiniteSet(Tiers) /\ IsFiniteSet(Limits)
  /\ Scenes \subseteq [draft : BOOLEAN, waiting : Nat, changes : Nat, rows : Nat, limits : Nat, acts : Nat]

Versions == {"base", "draft", "own"}
NoCall == [kind |-> "none"]

VARIABLES
  db,       \* the tables
  tool,     \* what a tool has checked and not written yet
  draft,    \* the proposal: "none", "stored" (its version is), "waiting", "declined", or the version it became
  failed,   \* an answer ended in an error that is no refusal
  scene, acts

vars == <<db, tool, draft, failed, scene, acts>>

\* A profile's rows to begin with: in force, or rejected, or from before rows were in force at once.
OneRow(v) == {Expectation(v, s, t, st, FALSE, 0) : s \in Says, t \in Tiers, st \in {"confirmed", "rejected", "proposed"}}
Confirmed(v) == {Expectation(v, s, t, "confirmed", FALSE, 0) : s \in Says, t \in Tiers}
Pairs2(first, second) == {<<a, b>> : a \in first, b \in second}

Init ==
  /\ scene \in Scenes
  /\ \E rows \in IF scene.draft THEN Pairs2(Confirmed("base"), Confirmed("base") \cup OneRow("own"))
                 ELSE {p \in Pairs2(OneRow("base"), Confirmed("base")) : p[1].says # p[2].says} :
       db = [ok |-> TRUE, rows |-> rows, limits |-> <<>>, requests |-> [q \in 1..scene.waiting |-> NoRequest]]
  /\ tool = NoCall /\ draft = "none" /\ failed = FALSE /\ acts = 0

---------------------------------------------------------------------------
\* A verb that refuses after the check raises: the transaction is undone and the answer is an error.
Commit(result) ==
  \/ result.ok /\ db' = result /\ UNCHANGED failed
  \/ ~result.ok /\ failed' = TRUE /\ UNCHANGED db

---------------------------------------------------------------------------
(* What the agent can do                                                         *)

\* The changes of a version's rows that can be asked for; what a card notes of the row goes with them.
RowChanges(v) ==
  LET row == RowsOn(db, v) IN
     {[kind |-> "replace", row |-> e, says |-> s, tier |-> t, oldTier |-> db.rows[e].tier] :
         e \in row, s \in Says, t \in Tiers}
  \cup {[kind |-> k, row |-> e, oldTier |-> db.rows[e].tier] : k \in {"retire", "put_back"}, e \in row}
  \cup {[kind |-> "tier", row |-> e, tier |-> t, oldTier |-> db.rows[e].tier] : e \in row, t \in Tiers}

OverrideChanges ==
     {[kind |-> "put_back_override", override |-> o, row |-> db.limits[o].row,
       oldTier |-> db.rows[db.limits[o].row].tier] : o \in DOMAIN db.limits}
  \cup {[kind |-> "replace_override", override |-> o, was |-> db.limits[o].row, row |-> e, to |-> to,
         oldTier |-> db.rows[db.limits[o].row].tier] : o \in DOMAIN db.limits, e \in RowsOn(db, "base"), to \in Limits}

\* Only changes that fit on their own can fit together.
Lists(changes) == UNION {[1..n -> changes] : n \in 1..scene.changes}
Askable(v, changes) == {l \in Lists({c \in changes : Fits(db, v, c)}) : NoProblems(db, v, l, NoTwins(db))}

RoomFor(rows) == ~scene.draft => Len(db.rows) + rows <= scene.rows
Counted == IF scene.draft THEN acts < scene.acts /\ acts' = acts + 1 ELSE UNCHANGED acts

Room(changes) == /\ RoomFor(Len(SelectSeq(changes, LAMBDA c : c.kind = "replace")))
                 /\ Len(db.limits) + Len(SelectSeq(changes, LAMBDA c : c.kind = "replace_override")) <= scene.limits

Request ==
  /\ ~scene.draft /\ FreeSlots(db) # {}
  /\ \E changes \in Askable("base", RowChanges("base") \cup OverrideChanges) :
       /\ Room(changes)
       /\ db' = Create(db, [on |-> "base", drafts |-> FALSE, changes |-> changes, status |-> "waiting"])
  /\ UNCHANGED <<tool, draft, failed, scene, acts>>

\* A new expectation is checked against the rows there are, and written later.
Propose ==
  /\ tool = NoCall
  /\ \E v \in IF scene.draft THEN {"draft", "own"} ELSE {"base"}, s \in Says, t \in Tiers :
       /\ \A e \in RowsOn(db, v) : db.rows[e].says # s
       /\ tool' = [kind |-> "expectation", on |-> v, says |-> s, tier |-> t]
  /\ scene.draft => draft = "waiting"
  /\ RoomFor(1) /\ Counted
  /\ UNCHANGED <<db, draft, failed, scene>>

ProposeWrites ==
  /\ tool.kind = "expectation"
  /\ RoomFor(1)
  /\ db' = AppendRows(db, tool.on, <<Expectation(tool.on, tool.says, tool.tier, "confirmed", FALSE, 0)>>)
  /\ tool' = NoCall
  /\ UNCHANGED <<draft, failed, scene, acts>>

\* So is a new limit: what the check read may be otherwise when it is written.
ProposeOverride ==
  /\ ~scene.draft /\ tool = NoCall /\ Len(db.limits) < scene.limits
  /\ \E e \in RowsOn(db, "base"), to \in Limits :
       ValidOverride(db, "base", e, to) /\ tool' = [kind |-> "limit", row |-> e, to |-> to]
  /\ UNCHANGED <<db, draft, failed, scene, acts>>

OverrideWrites ==
  /\ tool.kind = "limit" /\ Len(db.limits) < scene.limits
  /\ LET written == AddOverride(db, tool.row, tool.to)
     IN  db' = IF written.ok THEN written ELSE db
  /\ tool' = NoCall
  /\ UNCHANGED <<draft, failed, scene, acts>>

---------------------------------------------------------------------------
(* What the person can do                                                        *)

\* A refused press changes nothing.
Pressed(result) == result.ok /\ db' = result

Answer ==
  /\ \/ \E e \in DOMAIN db.rows : \/ Pressed(Reject(db, e))
                                  \/ Pressed(Restore(db, e))
                                  \/ \E t \in Tiers : Pressed(SetTier(db, e, t))
     \/ \E o \in DOMAIN db.limits : Pressed(RejectOverride(db, o)) \/ Pressed(RestoreOverride(db, o))
  /\ Counted
  /\ UNCHANGED <<tool, draft, failed, scene>>

Approve(q) ==
  LET asked == db.requests[q] IN
  /\ q \in Cards(db) /\ Room(asked.changes)
  /\ IF NoProblems(db, asked.on, asked.changes, NoTwins(db))
     THEN Commit(Applied(db, q, asked.on, asked.changes, NoTwins(db)))
     ELSE db' = MarkStale(db, {q}) /\ UNCHANGED failed
  /\ UNCHANGED <<tool, draft, scene, acts>>

Decline(q) ==
  /\ q \in Cards(db)
  /\ db' = [db EXCEPT !.requests[q] = Answered(@, "declined")]
  /\ UNCHANGED <<tool, draft, failed, scene, acts>>

---------------------------------------------------------------------------
(* A proposal of a changed profile with changes of its signature                  *)

\* Its version is stored and takes the base's rows; some of them name a phase it no longer has.
StoreVersion ==
  /\ scene.draft /\ draft = "none"
  /\ \E gone \in SUBSET Says : Cardinality(gone) <= 1 /\ db' = Carry(db, "base", "draft", gone)
  /\ draft' = "stored"
  /\ UNCHANGED <<tool, failed, scene, acts>>

\* The agent names the base's rows and the request is about their copies.
CopyOf(e) == CHOOSE d \in RowsOn(db, "draft") : db.rows[d].from = e
RequestForDraft ==
  /\ draft = "stored"
  /\ LET copied == {e \in RowsOn(db, "base") : \E d \in RowsOn(db, "draft") : db.rows[d].from = e}
         copies == {CopyOf(e) : e \in copied}
     IN  \E changes \in Askable("draft", {c \in RowChanges("draft") : c.row \in copies}) :
           db' = Create(db, [on |-> "draft", drafts |-> TRUE, changes |-> changes, status |-> "waiting"])
  /\ draft' = "waiting"
  /\ UNCHANGED <<tool, failed, scene, acts>>

\* The put carries the draft's rows onto the version the profile has of the brew, and then applies.
ApproveDraft ==
  /\ draft = "waiting"
  /\ \E final \in {"draft", "own"}, q \in DOMAIN db.requests :
       LET result == AppliedForDraft(Carry(db, "draft", final, {}), q, final)
       IN  Commit(result) /\ draft' = IF result.ok THEN final ELSE draft
  /\ UNCHANGED <<tool, scene, acts>>

\* Turned down, or overtaken by a newer proposal: its request goes with it.
DeclineDraft ==
  /\ draft = "waiting"
  /\ db' = MarkStale(db, {q \in DOMAIN db.requests : db.requests[q].drafts})
  /\ draft' = "declined"
  /\ UNCHANGED <<tool, failed, scene, acts>>

Next ==
  \/ Request \/ Propose \/ ProposeWrites \/ ProposeOverride \/ OverrideWrites
  \/ Answer \/ \E q \in DOMAIN db.requests : Approve(q) \/ Decline(q)
  \/ StoreVersion \/ RequestForDraft \/ ApproveDraft \/ DeclineDraft

Spec == Init /\ [][Next]_vars

---------------------------------------------------------------------------
\* The tables hold what their columns allow, and one live limit for the Recipe version.
TypeOK ==
  /\ db.ok /\ failed \in BOOLEAN /\ scene \in Scenes /\ acts \in 0..scene.acts
  /\ \A e \in DOMAIN db.rows : db.rows[e] \in [on : Versions, says : Says, tier : Tiers, phaseGone : BOOLEAN,
                                               status : {"confirmed", "rejected", "proposed"}, from : 0..(e - 1)]
  /\ \A o \in DOMAIN db.limits : db.limits[o] \in [row : DOMAIN db.rows, to : Limits,
                                                   status : {"confirmed", "rejected", "withdrawn"}]
  /\ Cardinality(LiveLimits(db)) <= 1
  /\ \A q \in DOMAIN db.requests : /\ db.requests[q].status \in {"none", "waiting", "approved", "declined", "stale"}
                                   /\ db.requests[q].on \in Versions /\ Len(db.requests[q].changes) \in 0..scene.changes
  /\ tool.kind \in {"none", "expectation", "limit"}
  /\ draft \in Versions \cup {"none", "stored", "waiting", "declined"}

\* A card that waits is one Approve would find nothing wrong with, and no two of them are about one row,
\* whatever the person, the tools and other approvals did meanwhile (the hooks of every verb).
WaitingApplies ==
  /\ \A q \in Cards(db) : NoProblems(db, db.requests[q].on, db.requests[q].changes, NoTwins(db))
  /\ \A p, q \in Cards(db) : p # q => NamedBy(db.requests[p]) \cap NamedBy(db.requests[q]) = {}

\* What a waiting card says of a row is still so: the tier it was asked at, which the guard does not look at.
CardsTrue ==
  \A q \in Cards(db) : \A c \in ToSet(db.requests[q].changes) :
    db.rows[IF c.kind = "replace_override" THEN c.was ELSE c.row].tier = c.oldTier

\* Rows and requests are of their types, with one override in force at most, and what a card says is so.
RequestsOK == TypeOK /\ CardsTrue

Approved(q) == /\ q \in DOMAIN db.requests /\ db.requests[q].status = "waiting"
               /\ db'.requests[q].status = "approved"
SaidBy(c) == db.rows[c.row].says

\* Once a proposal's changes are applied no row of the profile's version still says what was taken out, nor
\* says at its old tier what was moved, whichever rows the version had of its own: only what the same
\* request wrote, put back or moved to there does.
DraftSettles ==
  [][\A q \in DOMAIN db.requests : Approved(q) /\ db.requests[q].drafts =>
       LET asked == ToSet(db.requests[q].changes)
           Asked(e) == \/ e > Len(db.rows) /\ db'.rows[e].from = 0
                       \/ \E c \in asked : \/ c.kind = "put_back" /\ e \in StandsFor(db', draft', c.row)
                                          \/ /\ c.kind = "tier" /\ db'.rows[e].tier = c.tier
                                             /\ db'.rows[e].says = SaidBy(c)
       IN  \A c \in asked, e \in InForce(db', draft') :
             c.kind # "put_back" /\ db'.rows[e].says = SaidBy(c) /\ ~Asked(e)
               => c.kind = "tier" /\ db'.rows[e].tier # db.rows[c.row].tier]_vars

\* An approval changes the rows its changes name, on the version it is about, and nothing else; a proposal's
\* also the rows in force there that say the same. A row the person rejected comes back only by its own name.
AnswersOnlyTheAsked ==
  [][\A q \in DOMAIN db.requests : Approved(q) =>
       LET asked == ToSet(db.requests[q].changes)
           v == IF db.requests[q].drafts THEN draft' ELSE db.requests[q].on
           Taken(e) == \E c \in asked : c.kind \in {"replace", "retire"} /\ c.row = e
       IN  /\ \A e \in DOMAIN db.rows : db'.rows[e] # db.rows[e] =>
                /\ db.rows[e].on = v
                /\ \E c \in asked : /\ c.kind \notin OverrideKinds
                                    /\ \/ c.row = e
                                       \/ /\ db.requests[q].drafts /\ c.kind # "put_back"
                                          /\ db.rows[e].says = SaidBy(c)
                                    /\ db.rows[e].status = "rejected" => c.kind = "put_back" /\ c.row = e
           /\ \A o \in DOMAIN db.limits : db'.limits[o] # db.limits[o] =>
                <<"o", o>> \in NamedBy(db.requests[q]) \/ Taken(db.limits[o].row)]_vars

\* The module's promise: "what a tool was allowed to store the person's button can apply without a 500".
ButtonWorks == ~failed
=============================================================================
