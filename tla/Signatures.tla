----------------------------- MODULE Signatures -----------------------------
(* The signature tables of one profile and one Recipe version, as functions from *)
(* one database to the next (db/repos/signatures.py, signature_requests.py).     *)
(* A database is a record of its expectations, the different limits of the       *)
(* Recipe version, and the requests; a verb that refuses clears `ok` and changes  *)
(* nothing else. Each verb is one transaction or part of its caller's.           *)
EXTENDS Naturals, Sequences, SequencesExt, FiniteSets

Live == {"proposed", "confirmed"}        \* an override the unique index counts
OverrideKinds == {"put_back_override", "replace_override"}

Refused(db) == [db EXCEPT !.ok = FALSE]

RowsOn(db, v) == {e \in DOMAIN db.rows : db.rows[e].on = v}
InForce(db, v) == {e \in RowsOn(db, v) : db.rows[e].status = "confirmed"}
LiveLimits(db) == {o \in DOMAIN db.limits : db.limits[o].status \in Live}

\* The rows a change is about: an expectation or an override, and for an override its expectation too.
Named(c) ==
  CASE c.kind = "put_back_override" -> {<<"o", c.override>>, <<"e", c.row>>}
    [] c.kind = "replace_override" -> {<<"o", c.override>>, <<"e", c.was>>, <<"e", c.row>>}
    [] OTHER -> {<<"e", c.row>>}
NamedBy(request) == UNION {Named(c) : c \in ToSet(request.changes)}

\* Waiting requests that are nobody's draft's: the ones the hooks take out of play.
Cards(db) == {q \in DOMAIN db.requests : db.requests[q].status = "waiting" /\ ~db.requests[q].drafts}
\* What an answered request asked is read by nothing but its card: it is not kept.
Answered(request, status) == [request EXCEPT !.status = status, !.changes = <<>>]
MarkStale(db, qs) ==
  [db EXCEPT !.requests = [q \in DOMAIN @ |-> IF q \in qs THEN Answered(@[q], "stale") ELSE @[q]]]
StaleNaming(db, keys) == MarkStale(db, {q \in Cards(db) : NamedBy(db.requests[q]) \cap keys # {}})
\* Mutant: a limit coming into force takes no card out of play.
StaleNoOther(db, except) == db
StalePuttingBack(db, except) ==
  MarkStale(db, {q \in Cards(db) : \E c \in ToSet(db.requests[q].changes) :
                                      c.kind \in OverrideKinds /\ c.override # except})

Expectation(v, says, tier, status, phaseGone, from) ==
  [on |-> v, says |-> says, tier |-> tier, status |-> status, phaseGone |-> phaseGone, from |-> from]

\* New rows on a version: what would write the same thing there is no longer a question.
AppendRows(db, v, writes) ==
  LET added == {w.says : w \in ToSet(writes)}
      asked == {q \in Cards(db) : db.requests[q].on = v /\ \E c \in ToSet(db.requests[q].changes) :
                                                              c.kind = "replace" /\ c.says \in added}
  IN  MarkStale([db EXCEPT !.rows = @ \o writes], asked)

Reject(db, e) ==
  IF db.rows[e].status = "rejected" THEN Refused(db)
  ELSE StaleNaming([db EXCEPT !.rows[e].status = "rejected",
                              !.limits = [o \in DOMAIN @ |-> IF @[o].row = e /\ @[o].status \in Live
                                                             THEN [@[o] EXCEPT !.status = "withdrawn"] ELSE @[o]]],
                   {<<"e", e>>})

Restore(db, e) ==
  IF db.rows[e].status # "rejected" \/ db.rows[e].phaseGone THEN Refused(db)
  ELSE StaleNaming([db EXCEPT !.rows[e].status = "confirmed"], {<<"e", e>>})

\* Mutant: a move leaves the cards about the row where they are.
SetTierQuietly(db, e, tier) ==
  IF db.rows[e].status # "confirmed" THEN Refused(db) ELSE [db EXCEPT !.rows[e].tier = tier]

SetTier(db, e, tier) ==
  IF db.rows[e].status # "confirmed" THEN Refused(db)
  ELSE StaleNaming([db EXCEPT !.rows[e].tier = tier], {<<"e", e>>})

\* One limit in force at a time: the same expectation's is withdrawn, another's refuses.
AddOverride(db, e, to) ==
  IF \E o \in DOMAIN db.limits : db.limits[o].status = "confirmed" /\ db.limits[o].row # e THEN Refused(db)
  ELSE LET withdrawn == [o \in DOMAIN db.limits |-> IF db.limits[o].status \in Live
                                                    THEN [db.limits[o] EXCEPT !.status = "withdrawn"] ELSE db.limits[o]]
       IN  StalePuttingBack([db EXCEPT !.limits = Append(withdrawn, [row |-> e, to |-> to, status |-> "confirmed"])],
                            Len(withdrawn) + 1)

RejectOverride(db, o) ==
  IF db.limits[o].status \notin Live THEN Refused(db)
  ELSE StaleNaming([db EXCEPT !.limits[o].status = "rejected"], {<<"o", o>>})

RestoreOverride(db, o) ==
  IF \/ db.limits[o].status # "rejected"
     \/ db.rows[db.limits[o].row].status # "confirmed"
     \/ LiveLimits(db) # {}
  THEN Refused(db)
  ELSE StalePuttingBack(StaleNaming([db EXCEPT !.limits[o].status = "confirmed"], {<<"o", o>>}), o)

\* Only the requests that wait matter, so an answered one's place is used again.
NoRequest == [on |-> "base", drafts |-> FALSE, changes |-> <<>>, status |-> "none"]
FreeSlots(db) == {q \in DOMAIN db.requests : db.requests[q].status # "waiting"}

\* A stored request takes the place of the cards that name one of its rows; a draft's does not.
Create(db, request) ==
  LET there == IF request.drafts THEN db ELSE StaleNaming(db, NamedBy(request))
      slot == CHOOSE q \in FreeSlots(there) : \A p \in FreeSlots(there) : q <= p
  IN  [there EXCEPT !.requests[slot] = request]

\* The rows in force of one version, written on another: one whose phase is gone waits for a new one.
Carry(db, from, to, gone) ==
  LET sources == {e \in InForce(db, from) : \A r \in RowsOn(db, to) : db.rows[r].from # e}
      Copied(e) == LET r == db.rows[e] IN
        Expectation(to, r.says, r.tier, IF r.says \in gone THEN "proposed" ELSE "confirmed", r.says \in gone, e)
  IN  IF from = to THEN db
      ELSE AppendRows(db, to, [i \in 1..Cardinality(sources) |-> Copied(SetToSortSeq(sources, <)[i])])
---------------------------------------------------------------------------
(* The guard (change_requests.py): whether changes fit a version as it stands     *)

\* A limit the person has not rejected for this expectation, which is in force on the version.
ValidOverride(db, v, e, to) ==
  /\ e \in InForce(db, v)
  /\ \A o \in DOMAIN db.limits : db.limits[o] # [row |-> e, to |-> to, status |-> "rejected"]

PutBackFits(db, v, c) ==
  c.row \in RowsOn(db, v) /\ db.rows[c.row].status = "rejected" /\ ~db.rows[c.row].phaseGone
OverrideFits(db, v, c) ==
  /\ db.limits[c.override].status = "rejected"
  /\ db.limits[c.override].row \in InForce(db, v)
  /\ LiveLimits(db) = {}
SwapFits(db, v, c) ==
  /\ v = "base"                       \* the version the Recipe version brews
  /\ db.limits[c.override].status = "confirmed"
  /\ LiveLimits(db) = {c.override}
  /\ ValidOverride(db, v, c.row, c.to)
  /\ ~(c.row = db.limits[c.override].row /\ c.to = db.limits[c.override].to)

Fits(db, v, c) ==
  CASE c.kind = "put_back_override" -> OverrideFits(db, v, c)
    [] c.kind = "replace_override" -> SwapFits(db, v, c)
    [] c.kind = "put_back" -> PutBackFits(db, v, c)
    [] c.kind = "tier" -> c.row \in InForce(db, v) /\ db.rows[c.row].tier # c.tier
    [] OTHER -> c.row \in InForce(db, v)

NoTwins(db) == [e \in DOMAIN db.rows |-> {}]

\* What a replacement says is not there yet, the replaced rows aside, and is not asked for twice.
ReplacementsNew(db, v, changes, twins) ==
  LET replacing == {i \in DOMAIN changes : changes[i].kind = "replace"}
      replaced == UNION {{changes[i].row} \cup twins[changes[i].row] : i \in replacing}
  IN  \A i \in replacing :
        /\ \A e \in RowsOn(db, v) \ replaced : db.rows[e].says # changes[i].says
        /\ \A j \in replacing : j < i => changes[j].says # changes[i].says

EachNamesItsOwn(changes) == \A i, j \in DOMAIN changes : i # j => Named(changes[i]) \cap Named(changes[j]) = {}

NoProblems(db, v, changes, twins) ==
  /\ EachNamesItsOwn(changes)
  /\ \A i \in DOMAIN changes : Fits(db, v, changes[i])
  /\ ReplacementsNew(db, v, changes, twins)

---------------------------------------------------------------------------
(* Applying: the request is decided first, then each change with a person's verb. *)
(* `twins` are the other rows that say what the named one says (a draft's).        *)

EachRow(db, rows, Verb(_, _)) == FoldLeft(Verb, db, SetToSortSeq(rows, <))

ApplyOne(db, v, c, twins) ==
  LET rows == {c.row} \cup twins[c.row]
      rejected == EachRow(db, rows, Reject)
      MovedTier(d, e) == SetTier(d, e, c.tier)
      out == RejectOverride(db, c.override)
  IN  CASE c.kind = "replace" ->
             IF rejected.ok THEN AppendRows(rejected, v, <<Expectation(v, c.says, c.tier, "confirmed", FALSE, 0)>>)
             ELSE rejected
        [] c.kind = "retire" -> rejected
        [] c.kind = "tier" -> EachRow(db, rows, MovedTier)
        [] c.kind = "put_back" -> Restore(db, c.row)
        [] c.kind = "replace_override" -> IF out.ok THEN AddOverride(out, c.row, c.to) ELSE out
        [] OTHER -> RestoreOverride(db, c.override)

Applied(db, q, v, changes, twins) ==
  LET decided == [db EXCEPT !.requests[q] = Answered(@, "approved")]
      all == [e \in 1..(Len(db.rows) + Len(changes)) |-> IF e \in DOMAIN db.rows THEN twins[e] ELSE {}]
  IN  FoldLeft(LAMBDA d, c : IF d.ok THEN ApplyOne(d, v, c, all) ELSE d, decided, changes)

\* A version's row stands for itself and for every row it was carried from.
StandsFor(db, v, e) ==
  LET chain[r \in DOMAIN db.rows] == {r} \cup (IF db.rows[r].from = 0 THEN {} ELSE chain[db.rows[r].from])
  IN  IF db.rows[e].on = v THEN {e} ELSE {r \in RowsOn(db, v) : e \in chain[r]}

\* Mutants: only the row itself; or every row that says the same, of whatever version.
NoTwin(db, v, c) == {}
TwinsAnywhere(db, v, c) ==
  {r \in DOMAIN db.rows \ {c.row} : db.rows[r].status = "confirmed" /\ db.rows[r].says = db.rows[c.row].says}

\* The other rows in force that say the same: the answer is about the thing said, not about one copy.
TwinsOf(db, v, c) ==
  IF db.rows[c.row].status # "confirmed" \/ c.kind = "put_back" THEN {}
  ELSE {r \in InForce(db, v) \ {c.row} :
          /\ db.rows[r].says = db.rows[c.row].says
          /\ c.kind = "tier" => db.rows[r].tier = db.rows[c.row].tier}

\* A draft's changes on the version it became: stale when one of them has no row there, or does not fit.
AppliedForDraft(db, q, v) ==
  LET asked == db.requests[q].changes
      resolved == [i \in DOMAIN asked |-> [asked[i] EXCEPT !.row = CHOOSE r \in StandsFor(db, v, asked[i].row) : TRUE]]
      twins == [e \in DOMAIN db.rows |->
                  UNION {TwinsOf(db, v, resolved[i]) : i \in {j \in DOMAIN resolved : resolved[j].row = e}}]
  IN  IF \A i \in DOMAIN asked : StandsFor(db, v, asked[i].row) # {}
      THEN IF NoProblems(db, v, resolved, twins) THEN Applied(db, q, v, resolved, twins) ELSE MarkStale(db, {q})
      ELSE MarkStale(db, {q})
=============================================================================
