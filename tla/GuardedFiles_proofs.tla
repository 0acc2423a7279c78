------------------------ MODULE GuardedFiles_proofs ------------------------
(***************************************************************************)
(* The properties of GuardedFiles for every set of files and documents and *)
(* every number of faults and touches.  The inductive invariant says what  *)
(* the operation in progress still knows of its file at each frame.        *)
(***************************************************************************)
EXTENDS GuardedFiles, TLAPS

\* Frames of an overwrite, of a place, of a removal.
Overwriting == {"look", "guard", "send", "verify", "putback_guard", "putback_send",
                "putback_verify"}
Placing == {"new", "verify_new"}
Removing == {"check", "carry", "again", "delete_guard", "delete"}
\* Frames the client has authorised and not yet sent.
Authorised == {"send", "putback_send", "delete"}

-----------------------------------------------------------------------------
\* What a frame is sent with: a file, a document, a recorded document of the archive.
Arguments ==
  /\ op.pc \in Overwriting \cup Removing \cup {"verify_new"} => op.id \in FileIds
  /\ op.pc \in Overwriting \cup Placing => op.sent \in Docs
  /\ op.pc \in Overwriting => op.expected \in archive /\ ~op.cleanup
  /\ op.pc \in Removing /\ ~op.cleanup => op.expected \in archive
  /\ op.pc \in Placing => ~op.cleanup

\* An authorised frame's guard saw what it takes away, unless the display wrote since.
Shown ==
  /\ op.pc \in {"send", "delete"} /\ hand[op.id] # "unseen" => files[op.id] = op.expected
  /\ op.pc = "putback_send" /\ hand[op.id] # "unseen" => files[op.id] = op.served

\* A removal past its check does not take the selected file, unless the display selected
\* it since.
NotSelected ==
  /\ op.pc = "carry" => op.successor \in FileIds \ {op.id}
  /\ op.pc \in {"again", "delete_guard", "delete"} /\ selectedBy = "checked" =>
       selected # op.id

\* The switch bounds the frames that are still to come.
Counted ==
  /\ late <= 1
  /\ writes => late = 0
  /\ op.pc \in Authorised => late = 0

\* The firmware gives an id only once.
Given == \A i \in FileIds \ used : files[i] = NoDoc

IInv == TypeOK /\ Arguments /\ Shown /\ NotSelected /\ Counted /\ Given

-----------------------------------------------------------------------------
\* The initial states satisfy the invariant.
LEMMA InitInvariant == Init => IInv
<1>. SUFFICES ASSUME Init PROVE IInv
  OBVIOUS
<1>1. TypeOK
  BY FilesAssumption DEF Init, TypeOK, Held, Idle, Ops, Kinds, Pcs, Results
<1>2. Given
  BY DEF Init, Given, Held
<1>. QED
  BY <1>1, <1>2 DEF Init, IInv, Arguments, Shown, NotSelected, Counted, Idle,
     Overwriting, Removing, Placing, Authorised

-----------------------------------------------------------------------------
(* How the operation goes on, and what a step that only reads leaves alone. *)

SameArguments ==
  /\ op'.id = op.id
  /\ op'.sent = op.sent
  /\ op'.expected = op.expected
  /\ op'.cleanup = op.cleanup
  /\ op'.successor = op.successor

MovesTo(p) == op' \in Ops /\ op'.pc = p /\ SameArguments
Ends == op' \in Ops /\ op'.pc = "done"

\* A step that only moves the operation on keeps its fields and types.
LEMMA Moving ==
  ASSUME op \in Ops, NEW p \in Pcs, op' = [op EXCEPT !.pc = p]
  PROVE  MovesTo(p)
BY DEF Ops, MovesTo, SameArguments

\* Finish ends the operation with a result of its type.
LEMMA Ending ==
  ASSUME op \in Ops, NEW r \in Results, Finish(r)
  PROVE  Ends
BY DEF Ops, Pcs, Ends, Finish, Ended

\* A removal that does not happen ends the operation (machine.remove_profile, its refusals).
LEMMA Staying ==
  ASSUME op \in Ops, NEW r \in Results, Stays(r)
  PROVE  Ends
<1>1. op.result \in Results
  BY DEF Ops
<1>. QED
  BY <1>1, Ending DEF Stays

\* Once the operation has ended, the invariant asks nothing of its fields.
LEMMA EndsKeeps ==
  ASSUME Ends
  PROVE  Arguments' /\ Shown' /\ NotSelected' /\ op'.pc \notin Authorised
BY DEF Ends, Arguments, Shown, NotSelected, Overwriting, Removing, Placing, Authorised

ReadStep ==
  /\ UNCHANGED <<files, used, starred, selected, writes, archive, late, touches>>
  /\ hand' \in [FileIds -> {"app", "seen", "unseen"}]
  /\ selectedBy' \in {"checked", "seen", "unseen"}
  /\ selectedBy' = "checked" => selectedBy = "checked" \/ op.pc = "check"
  /\ faults' \in 0 .. MaxFaults

\* A load, and a load that fails, keep the history variables typed.
LEMMA Loading ==
  ASSUME TypeOK, NEW i \in FileIds, Loaded(i) \/ NotLoaded
  PROVE  /\ hand' \in [FileIds -> {"app", "seen", "unseen"}]
         /\ selectedBy' \in {"checked", "seen", "unseen"}
         /\ selectedBy' = "checked" => selectedBy = "checked"
BY DEF TypeOK, Loaded, NotLoaded, SeenNow

\* A frame that goes right or wrong stays within the bound on faults.
LEMMA Faults ==
  ASSUME TypeOK, Sound \/ Faulty
  PROVE  faults' \in 0 .. MaxFaults
BY FilesAssumption DEF TypeOK, Sound, Faulty

\* What a reading step has to say of the operation, and the invariant holds after it.
LEMMA ReadKeeps ==
  ASSUME IInv, ReadStep, op' \in Ops, Arguments', Shown', NotSelected',
         op'.pc \in Authorised => late = 0
  PROVE  IInv'
BY DEF IInv, TypeOK, ReadStep, Counted, Given

\* A reading step that ends the operation keeps the invariant.
LEMMA ReadEndsKeeps ==
  ASSUME IInv, ReadStep, Ends
  PROVE  IInv'
BY ReadKeeps, EndsKeeps DEF Ends

-----------------------------------------------------------------------------
(* The reading frames. *)

\* The fresh load of overwrite (machine.overwrite) keeps the invariant.
LEMMA LookKeeps == IInv /\ Look => IInv'
<1>. SUFFICES ASSUME IInv, Look PROVE IInv'
  OBVIOUS
<1>1. op.id \in FileIds /\ TypeOK /\ op \in Ops
  BY DEF IInv, Arguments, Look, Overwriting, TypeOK
<1>2. ReadStep
  BY <1>1, Loading, Faults DEF Look, LoadOk, LoadFails, ReadStep
<1>3. Ends \/ MovesTo("guard")
  BY <1>1, Moving, Ending DEF Look, Pcs, Results
<1>4. CASE Ends
  BY <1>2, <1>4, ReadEndsKeeps
<1>5. CASE MovesTo("guard")
  <2>1. Arguments'
    BY <1>1, <1>2, <1>5 DEF MovesTo, SameArguments, IInv, Arguments, ReadStep, Look,
       Overwriting, Removing, Placing
  <2>2. Shown' /\ NotSelected' /\ op'.pc \notin Authorised
    BY <1>5 DEF MovesTo, Shown, NotSelected, Authorised
  <2>. QED
    BY <1>2, <1>5, <2>1, <2>2, ReadKeeps DEF MovesTo
<1>. QED
  BY <1>3, <1>4, <1>5

\* The save's guard (client.save_profile) keeps the invariant.
LEMMA GuardKeeps == IInv /\ Guard => IInv'
<1>. SUFFICES ASSUME IInv, Guard PROVE IInv'
  OBVIOUS
<1>1. op.id \in FileIds /\ TypeOK /\ op \in Ops
  BY DEF IInv, Arguments, Guard, ClientGuard, Overwriting, TypeOK
<1>2. ReadStep
  BY <1>1, Loading, Faults DEF Guard, ClientGuard, LoadOk, LoadFails, Sound, ReadStep, TypeOK
<1>3. Ends \/ (MovesTo("send") /\ writes /\ files[op.id] = op.expected)
  BY <1>1, Moving, Ending DEF Guard, ClientGuard, Pcs, Results
<1>4. CASE Ends
  BY <1>2, <1>4, ReadEndsKeeps
<1>5. CASE MovesTo("send") /\ writes /\ files[op.id] = op.expected
  <2>1. Arguments'
    BY <1>1, <1>2, <1>5 DEF MovesTo, SameArguments, IInv, Arguments, ReadStep, Guard,
       ClientGuard, Overwriting, Removing, Placing
  <2>2. Shown' /\ NotSelected'
    BY <1>2, <1>5 DEF MovesTo, SameArguments, Shown, NotSelected, ReadStep
  <2>3. late = 0
    BY <1>5 DEF IInv, Counted
  <2>. QED
    BY <1>2, <1>5, <2>1, <2>2, <2>3, ReadKeeps DEF MovesTo
<1>. QED
  BY <1>3, <1>4, <1>5

\* The read-back of a save over a file keeps the invariant.
LEMMA VerifyKeeps == IInv /\ Verify => IInv'
<1>. SUFFICES ASSUME IInv, Verify PROVE IInv'
  OBVIOUS
<1>1. op.id \in FileIds /\ TypeOK /\ op \in Ops /\ op.sent \in Docs
  BY DEF IInv, Arguments, Verify, Overwriting, TypeOK
<1>2. ReadStep
  BY <1>1, Loading, Faults DEF Verify, LoadOk, LoadFails, ReadStep
<1>3. files[op.id] \in Docs \cup {NoDoc}
  BY <1>1 DEF TypeOK
<1>4. op' \in Ops /\ (op'.pc = "done" \/ (op'.pc = "putback_guard" /\ SameArguments))
  <2>1. CASE op' = [op EXCEPT !.pc = "done", !.result = "placed", !.served = op.sent]
    BY <1>1, <2>1 DEF Ops, Pcs, Results
  <2>2. CASE op' = [op EXCEPT !.pc = "putback_guard", !.result = "mismatch",
                              !.served = files[op.id]]
    BY <1>1, <1>3, <2>2 DEF Ops, Pcs, Results, SameArguments
  <2>3. CASE op' = [op EXCEPT !.pc = "putback_guard", !.result = "unreadable"]
    BY <1>1, <2>3 DEF Ops, Pcs, Results, SameArguments
  <2>. QED
    BY <2>1, <2>2, <2>3 DEF Verify
<1>5. CASE op'.pc = "done"
  BY <1>2, <1>4, <1>5, ReadEndsKeeps DEF Ends
<1>6. CASE op'.pc = "putback_guard" /\ SameArguments
  <2>1. Arguments'
    BY <1>1, <1>2, <1>6 DEF SameArguments, IInv, Arguments, ReadStep, Verify,
       Overwriting, Removing, Placing
  <2>2. Shown' /\ NotSelected' /\ op'.pc \notin Authorised
    BY <1>6 DEF Shown, NotSelected, Authorised
  <2>. QED
    BY <1>2, <1>4, <2>1, <2>2, ReadKeeps
<1>. QED
  BY <1>4, <1>5, <1>6

\* The put-back's guard keeps the invariant.
LEMMA PutBackGuardKeeps == IInv /\ PutBackGuard => IInv'
<1>. SUFFICES ASSUME IInv, PutBackGuard PROVE IInv'
  OBVIOUS
<1>1. op.id \in FileIds /\ TypeOK /\ op \in Ops /\ op.result \in Results
  BY DEF IInv, Arguments, PutBackGuard, ClientGuard, Overwriting, TypeOK, Ops
<1>2. ReadStep
  BY <1>1, Loading, Faults
     DEF PutBackGuard, ClientGuard, LoadOk, LoadFails, Sound, ReadStep, TypeOK
<1>3. Ends \/ (MovesTo("putback_send") /\ op'.served = op.served /\ writes
               /\ files[op.id] = op.served)
  BY <1>1, Moving, Ending DEF PutBackGuard, ClientGuard, Pcs, Ops
<1>4. CASE Ends
  BY <1>2, <1>4, ReadEndsKeeps
<1>5. CASE MovesTo("putback_send") /\ op'.served = op.served /\ writes
           /\ files[op.id] = op.served
  <2>1. Arguments'
    BY <1>1, <1>2, <1>5 DEF MovesTo, SameArguments, IInv, Arguments, ReadStep,
       PutBackGuard, ClientGuard, Overwriting, Removing, Placing
  <2>2. Shown' /\ NotSelected'
    BY <1>2, <1>5 DEF MovesTo, SameArguments, Shown, NotSelected, ReadStep
  <2>3. late = 0
    BY <1>5 DEF IInv, Counted
  <2>. QED
    BY <1>2, <1>5, <2>1, <2>2, <2>3, ReadKeeps DEF MovesTo
<1>. QED
  BY <1>3, <1>4, <1>5

\* The put-back's read-back keeps the invariant.
LEMMA PutBackVerifyKeeps == IInv /\ PutBackVerify => IInv'
<1>. SUFFICES ASSUME IInv, PutBackVerify PROVE IInv'
  OBVIOUS
<1>1. op.id \in FileIds /\ TypeOK /\ op \in Ops /\ op.result \in Results
  BY DEF IInv, Arguments, PutBackVerify, Overwriting, TypeOK, Ops
<1>2. ReadStep
  BY <1>1, Loading, Faults DEF PutBackVerify, LoadOk, LoadFails, ReadStep
<1>3. Ends
  BY <1>1, Ending DEF PutBackVerify
<1>. QED
  BY <1>2, <1>3, ReadEndsKeeps

\* The read-back of a new file keeps the invariant.
LEMMA VerifyNewKeeps == IInv /\ VerifyNew => IInv'
<1>. SUFFICES ASSUME IInv, VerifyNew PROVE IInv'
  OBVIOUS
<1>1. op.id \in FileIds /\ TypeOK /\ op \in Ops /\ op.sent \in Docs
  BY DEF IInv, Arguments, VerifyNew, Placing, TypeOK
<1>2. ReadStep
  BY <1>1, Loading, Faults DEF VerifyNew, LoadOk, LoadFails, ReadStep
<1>3. files[op.id] \in Docs \cup {NoDoc}
  BY <1>1 DEF TypeOK
<1>4. Ends \/ (op' \in Ops /\ op'.pc = "check" /\ op'.id = op.id /\ op'.cleanup)
  <2>1. CASE Finish("unreadable")
    BY <1>1, <2>1, Ending DEF Results
  <2>2. CASE op' = [op EXCEPT !.pc = "done", !.result = "placed", !.served = op.sent]
    BY <1>1, <2>2 DEF Ends, Ops, Pcs, Results
  <2>3. CASE op' = [op EXCEPT !.pc = "check", !.result = "mismatch", !.cleanup = TRUE,
                              !.expected = files[op.id], !.served = files[op.id]]
    BY <1>1, <1>3, <2>3 DEF Ops, Pcs, Results
  <2>. QED
    BY <2>1, <2>2, <2>3 DEF VerifyNew
<1>5. CASE Ends
  BY <1>2, <1>5, ReadEndsKeeps
<1>6. CASE op' \in Ops /\ op'.pc = "check" /\ op'.id = op.id /\ op'.cleanup
  <2>1. Arguments' /\ Shown' /\ NotSelected' /\ op'.pc \notin Authorised
    BY <1>1, <1>6 DEF Arguments, Shown, NotSelected, Authorised, Overwriting, Removing, Placing
  <2>. QED
    BY <1>2, <1>6, <2>1, ReadKeeps
<1>. QED
  BY <1>4, <1>5, <1>6

\* A removal's check of its fresh load keeps the invariant.
LEMMA CheckKeeps == IInv /\ Check => IInv'
<1>. SUFFICES ASSUME IInv, Check PROVE IInv'
  OBVIOUS
<1>1. op.id \in FileIds /\ TypeOK /\ op \in Ops
  BY DEF IInv, Arguments, Check, Removing, TypeOK
<1>2. ReadStep
  BY <1>1, Loading, Faults DEF Check, LoadOk, ReadStep, SeenNow, TypeOK
<1>3. \/ Ends
      \/ MovesTo("carry") /\ op.successor \notin {NoFile, op.id}
      \/ MovesTo("again") /\ selected # op.id
  BY <1>1, Moving, Staying DEF Check, Pcs, Results
<1>4. CASE Ends
  BY <1>2, <1>4, ReadEndsKeeps
<1>5. ASSUME MovesTo("carry") \/ MovesTo("again")
      PROVE  Arguments' /\ Shown' /\ op'.pc \notin Authorised
  BY <1>1, <1>2, <1>5 DEF MovesTo, SameArguments, IInv, Arguments, Shown, Authorised,
     ReadStep, Check, Overwriting, Removing, Placing
<1>6. CASE MovesTo("carry") /\ op.successor \notin {NoFile, op.id}
  <2>1. NotSelected'
    BY <1>1, <1>6 DEF MovesTo, SameArguments, NotSelected, Ops
  <2>. QED
    BY <1>2, <1>5, <1>6, <2>1, ReadKeeps DEF MovesTo
<1>7. CASE MovesTo("again") /\ selected # op.id
  <2>1. NotSelected'
    BY <1>2, <1>7 DEF MovesTo, SameArguments, NotSelected, ReadStep
  <2>. QED
    BY <1>2, <1>5, <1>7, <2>1, ReadKeeps DEF MovesTo
<1>. QED
  BY <1>3, <1>4, <1>6, <1>7

\* A removal's second load keeps the invariant.
LEMMA AgainKeeps == IInv /\ Again => IInv'
<1>. SUFFICES ASSUME IInv, Again PROVE IInv'
  OBVIOUS
<1>1. op.id \in FileIds /\ TypeOK /\ op \in Ops
  BY DEF IInv, Arguments, Again, Removing, TypeOK
<1>2. ReadStep
  BY <1>1, Loading, Faults DEF Again, LoadOk, LoadFails, ReadStep
<1>3. Ends \/ MovesTo("delete_guard")
  BY <1>1, Moving, Staying DEF Again, Pcs, Results
<1>4. CASE Ends
  BY <1>2, <1>4, ReadEndsKeeps
<1>5. CASE MovesTo("delete_guard")
  <2>1. Arguments'
    BY <1>1, <1>2, <1>5 DEF MovesTo, SameArguments, IInv, Arguments, ReadStep, Again,
       Overwriting, Removing, Placing
  <2>2. Shown' /\ NotSelected' /\ op'.pc \notin Authorised
    BY <1>2, <1>5 DEF MovesTo, SameArguments, Shown, IInv, NotSelected, Authorised, Again,
       ReadStep
  <2>. QED
    BY <1>2, <1>5, <2>1, <2>2, ReadKeeps DEF MovesTo
<1>. QED
  BY <1>3, <1>4, <1>5

\* The delete's guard (client.delete_profile) keeps the invariant.
LEMMA DeleteGuardKeeps == IInv /\ DeleteGuard => IInv'
<1>. SUFFICES ASSUME IInv, DeleteGuard PROVE IInv'
  OBVIOUS
<1>1. op.id \in FileIds /\ TypeOK /\ op \in Ops /\ op.result \in Results
  BY DEF IInv, Arguments, DeleteGuard, ClientGuard, Removing, TypeOK, Ops
<1>2. ReadStep
  BY <1>1, Loading, Faults
     DEF DeleteGuard, ClientGuard, LoadOk, LoadFails, Sound, ReadStep, TypeOK
<1>3. Ends \/ (MovesTo("delete") /\ writes /\ files[op.id] = op.expected)
  BY <1>1, Moving, Ending DEF DeleteGuard, ClientGuard, Pcs, Results
<1>4. CASE Ends
  BY <1>2, <1>4, ReadEndsKeeps
<1>5. CASE MovesTo("delete") /\ writes /\ files[op.id] = op.expected
  <2>1. Arguments'
    BY <1>1, <1>2, <1>5 DEF MovesTo, SameArguments, IInv, Arguments, ReadStep, DeleteGuard,
       ClientGuard, Overwriting, Removing, Placing
  <2>2. Shown' /\ NotSelected'
    BY <1>2, <1>5 DEF MovesTo, SameArguments, Shown, IInv, NotSelected, DeleteGuard,
       ClientGuard, ReadStep
  <2>3. late = 0
    BY <1>5 DEF IInv, Counted
  <2>. QED
    BY <1>2, <1>5, <2>1, <2>2, <2>3, ReadKeeps DEF MovesTo
<1>. QED
  BY <1>3, <1>4, <1>5

-----------------------------------------------------------------------------
(* The writing frames. *)

\* A save that is stored keeps the file map, the used ids and the history typed.
LEMMA Storing ==
  ASSUME TypeOK, Given, NEW i \in FileIds,
         (\E d \in Docs : StoreAs(i, d)) \/ UNCHANGED <<files, used, hand>>
  PROVE  /\ files' \in [FileIds -> Docs \cup {NoDoc}]
         /\ used' \in SUBSET FileIds
         /\ hand' \in [FileIds -> {"app", "seen", "unseen"}]
         /\ Given'
BY DEF TypeOK, Given, StoreAs

\* A write frame spends the one frame that was authorised.
LEMMA Counting ==
  ASSUME TypeOK, Counted, op.pc \in Authorised, Sent, UNCHANGED writes,
         op'.pc \notin Authorised
  PROVE  Counted' /\ late' \in Nat
BY DEF TypeOK, Counted, Sent

\* The save over a file keeps the invariant.
LEMMA SendKeeps == IInv /\ Send => IInv'
<1>. SUFFICES ASSUME IInv, Send PROVE IInv'
  OBVIOUS
<1>1. op.id \in FileIds /\ TypeOK /\ op \in Ops /\ op.sent \in Docs /\ Given /\ Counted
  BY DEF IInv, Arguments, Send, Overwriting, TypeOK
<1>2. (\E d \in Docs : StoreAs(op.id, d)) \/ UNCHANGED <<files, used, hand>>
  BY <1>1 DEF Send, SaveFrame
<1>3. faults' \in 0 .. MaxFaults
  BY <1>1, Faults DEF Send, SaveFrame
<1>4. Ends \/ MovesTo("verify")
  <2>1. CASE op' = Ended("failed")
    BY <1>1, <2>1, Ending DEF Finish, Results
  <2>2. ASSUME NEW d \in Docs, op' = [[op EXCEPT !.pc = "verify"] EXCEPT !.served = d]
        PROVE  MovesTo("verify")
    BY <1>1, <2>2 DEF MovesTo, SameArguments, Ops, Pcs
  <2>. QED
    BY <1>1, <2>1, <2>2 DEF Send, SaveFrame
<1>5. Arguments' /\ Shown' /\ NotSelected' /\ op'.pc \notin Authorised
  <2>1. CASE Ends
    BY <2>1, EndsKeeps
  <2>2. CASE MovesTo("verify")
    BY <1>1, <2>2 DEF MovesTo, SameArguments, IInv, Arguments, Shown, NotSelected, Authorised,
       Send, Overwriting, Removing, Placing
  <2>. QED
    BY <1>4, <2>1, <2>2
<1>6. op' \in Ops
  BY <1>4 DEF Ends, MovesTo
<1>7. Counted' /\ late' \in Nat
  BY <1>1, <1>5, Counting DEF Send, Authorised
<1>8. TypeOK' /\ Given'
  BY <1>1, <1>2, <1>3, <1>6, <1>7, Storing DEF TypeOK, Send
<1>. QED
  BY <1>5, <1>7, <1>8 DEF IInv

\* The save that puts a document back keeps the invariant.
LEMMA PutBackSendKeeps == IInv /\ PutBackSend => IInv'
<1>. SUFFICES ASSUME IInv, PutBackSend PROVE IInv'
  OBVIOUS
<1>1. op.id \in FileIds /\ TypeOK /\ op \in Ops /\ Given /\ Counted
  BY DEF IInv, Arguments, PutBackSend, Overwriting, TypeOK
<1>2. op.expected \in Docs /\ op.result \in Results
  BY <1>1 DEF IInv, TypeOK, Arguments, PutBackSend, Overwriting, Ops
<1>3. (\E d \in Docs : StoreAs(op.id, d)) \/ UNCHANGED <<files, used, hand>>
  BY <1>2 DEF PutBackSend, SaveFrame
<1>4. faults' \in 0 .. MaxFaults
  BY <1>1, Faults DEF PutBackSend, SaveFrame
<1>5. Ends \/ MovesTo("putback_verify")
  <2>1. CASE op' = Ended(op.result)
    BY <1>1, <1>2, <2>1, Ending DEF Finish
  <2>2. ASSUME NEW d \in Docs, op' = [[op EXCEPT !.pc = "putback_verify"] EXCEPT !.served = d]
        PROVE  MovesTo("putback_verify")
    BY <1>1, <2>2 DEF MovesTo, SameArguments, Ops, Pcs
  <2>. QED
    BY <1>2, <2>1, <2>2 DEF PutBackSend, SaveFrame
<1>6. Arguments' /\ Shown' /\ NotSelected' /\ op'.pc \notin Authorised
  <2>1. CASE Ends
    BY <2>1, EndsKeeps
  <2>2. CASE MovesTo("putback_verify")
    BY <1>1, <2>2 DEF MovesTo, SameArguments, IInv, Arguments, Shown, NotSelected, Authorised,
       PutBackSend, Overwriting, Removing, Placing
  <2>. QED
    BY <1>5, <2>1, <2>2
<1>7. op' \in Ops
  BY <1>5 DEF Ends, MovesTo
<1>8. Counted' /\ late' \in Nat
  BY <1>1, <1>6, Counting DEF PutBackSend, Authorised
<1>9. TypeOK' /\ Given'
  BY <1>1, <1>3, <1>4, <1>7, <1>8, Storing DEF TypeOK, PutBackSend
<1>. QED
  BY <1>6, <1>8, <1>9 DEF IInv

\* The save without an id (machine.place) keeps the invariant.
LEMMA SendNewKeeps == IInv /\ SendNew => IInv'
<1>. SUFFICES ASSUME IInv, SendNew PROVE IInv'
  OBVIOUS
<1>1. TypeOK /\ op \in Ops /\ op.sent \in Docs /\ Given /\ Counted
  BY DEF IInv, Arguments, SendNew, Placing, TypeOK
<1>2. CASE ~writes
  <2>1. Ends
    BY <1>1, <1>2, Ending DEF SendNew, Results
  <2>2. TypeOK' /\ Counted' /\ Given'
    BY <1>1, <1>2, <2>1 DEF SendNew, TypeOK, Counted, Given, Ends, Authorised
  <2>. QED
    BY <2>1, <2>2, EndsKeeps DEF IInv
<1>3. CASE writes
  <2>1. PICK i \in FileIds \ used :
          /\ SaveFrame(i, op.sent, [op EXCEPT !.pc = "verify_new", !.id = i], Ended("failed"))
          /\ starred' = IF files'[i] # NoDoc THEN starred \cup {i} ELSE starred
          /\ Sent
    BY <1>3 DEF SendNew
  <2>2. (\E d \in Docs : StoreAs(i, d)) \/ UNCHANGED <<files, used, hand>>
    BY <1>1, <2>1 DEF SaveFrame
  <2>3. faults' \in 0 .. MaxFaults
    BY <1>1, <2>1, Faults DEF SaveFrame
  <2>4. \/ Ends
        \/ op' \in Ops /\ op'.pc = "verify_new" /\ op'.id = i /\ op'.sent = op.sent
           /\ op'.cleanup = op.cleanup
    <3>1. CASE op' = Ended("failed")
      BY <1>1, <3>1, Ending DEF Finish, Results
    <3>2. ASSUME NEW d \in Docs,
                 op' = [[op EXCEPT !.pc = "verify_new", !.id = i] EXCEPT !.served = d]
          PROVE  /\ op' \in Ops /\ op'.pc = "verify_new" /\ op'.id = i /\ op'.sent = op.sent
                 /\ op'.cleanup = op.cleanup
      BY <1>1, <3>2 DEF Ops, Pcs
    <3>. QED
      BY <1>1, <2>1, <3>1, <3>2 DEF SaveFrame
  <2>5. Arguments' /\ Shown' /\ NotSelected' /\ op'.pc \notin Authorised
    <3>1. CASE Ends
      BY <3>1, EndsKeeps
    <3>2. CASE op'.pc = "verify_new" /\ op'.id = i /\ op'.sent = op.sent
               /\ op'.cleanup = op.cleanup
      BY <1>1, <3>2 DEF IInv, Arguments, Shown, NotSelected, Authorised, SendNew,
         Overwriting, Removing, Placing
    <3>. QED
      BY <2>4, <3>1, <3>2
  <2>6. op' \in Ops
    BY <2>4 DEF Ends
  <2>7. Counted' /\ late' = 0
    <3>1. late' = 0
      BY <1>3, <2>1 DEF Sent
    <3>. QED
      BY <2>5, <3>1 DEF Counted
  <2>8. TypeOK' /\ Given'
    BY <1>1, <2>1, <2>2, <2>3, <2>6, <2>7, Storing DEF TypeOK, SendNew
  <2>. QED
    BY <2>5, <2>7, <2>8 DEF IInv
<1>. QED
  BY <1>2, <1>3

\* Moving the selection to the successor keeps the invariant.
LEMMA CarryKeeps == IInv /\ Carry => IInv'
<1>. SUFFICES ASSUME IInv, Carry PROVE IInv'
  OBVIOUS
<1>1. /\ op.id \in FileIds /\ TypeOK /\ op \in Ops /\ Given /\ Counted
      /\ op.successor \in FileIds \ {op.id}
  BY DEF IInv, Arguments, NotSelected, Carry, Removing, TypeOK
<1>2. Ends \/ (MovesTo("again") /\ selected' = op.successor)
  BY <1>1, Moving, Staying DEF Carry, Pcs, Results
<1>3. Arguments' /\ Shown' /\ NotSelected' /\ op'.pc \notin Authorised
  <2>1. CASE Ends
    BY <2>1, EndsKeeps
  <2>2. CASE MovesTo("again") /\ selected' = op.successor
    BY <1>1, <2>2 DEF MovesTo, SameArguments, IInv, Arguments, Shown, NotSelected, Authorised,
       Carry, Overwriting, Removing, Placing
  <2>. QED
    BY <1>2, <2>1, <2>2
<1>4. faults' \in 0 .. MaxFaults
  BY <1>1, Faults DEF Carry, Sound
<1>5. Counted' /\ late' \in Nat
  BY <1>1, <1>3 DEF Counted, Carry, Sent, TypeOK
<1>6. TypeOK' /\ Given'
  BY <1>1, <1>2, <1>4, <1>5 DEF TypeOK, Given, Carry, Ends, MovesTo
<1>. QED
  BY <1>3, <1>5, <1>6 DEF IInv

\* The delete frame keeps the invariant.
LEMMA DeleteKeeps == IInv /\ Delete => IInv'
<1>. SUFFICES ASSUME IInv, Delete PROVE IInv'
  OBVIOUS
<1>1. op.id \in FileIds /\ TypeOK /\ op \in Ops /\ Given /\ Counted
  BY DEF IInv, Arguments, Delete, Removing, TypeOK
<1>2. Ends
  <2>1. ASSUME op' = [op EXCEPT !.pc = "done", !.id = NoFile] PROVE Ends
    BY <1>1, <2>1 DEF Ends, Ops, Pcs
  <2>2. ASSUME op' = Ended("removed") PROVE Ends
    BY <1>1, <2>2, Ending DEF Finish, Results
  <2>3. ASSUME Stays("refused") PROVE Ends
    BY <1>1, <2>3, Staying DEF Results
  <2>. QED
    BY <2>1, <2>2, <2>3 DEF Delete
<1>3. faults' \in 0 .. MaxFaults
  BY <1>1, Faults DEF Delete
<1>4. DropFile(op.id) \/ UNCHANGED <<files, starred, hand>>
  BY DEF Delete
<1>5. Counted' /\ late' \in Nat
  BY <1>1, <1>2, EndsKeeps, Counting DEF Delete, Authorised
<1>6. TypeOK' /\ Given'
  BY <1>1, <1>2, <1>3, <1>4, <1>5 DEF TypeOK, Given, Delete, DropFile, Ends
<1>. QED
  BY <1>2, <1>5, <1>6, EndsKeeps DEF IInv

-----------------------------------------------------------------------------
(* The caller, the display, the switch. *)

\* Every frame of an operation keeps the invariant.
LEMMA FrameKeeps == IInv /\ Frame => IInv'
BY LookKeeps, GuardKeeps, SendKeeps, VerifyKeeps, PutBackGuardKeeps, PutBackSendKeeps,
   PutBackVerifyKeeps, SendNewKeeps, VerifyNewKeeps, CheckKeeps, CarryKeeps, AgainKeeps,
   DeleteGuardKeeps, DeleteKeeps DEF Frame

\* The idle operation has the type of operations.
LEMMA IdleTyped == Idle \in Ops /\ Idle.pc = "idle"
BY DEF Idle, Ops, Kinds, Pcs, Results

\* The profile pass keeps the invariant: what it stored stays stored.
LEMMA MirrorKeeps == IInv /\ Mirror => IInv'
<1>. SUFFICES ASSUME IInv, Mirror PROVE IInv'
  OBVIOUS
<1>1. archive' \in SUBSET Docs
  BY DEF IInv, TypeOK, Mirror, Held
<1>2. hand' \in [FileIds -> {"app", "seen", "unseen"}]
  BY DEF IInv, TypeOK, Mirror
<1>3. TypeOK'
  BY <1>1, <1>2 DEF IInv, TypeOK, Mirror
<1>. QED
  BY <1>3 DEF IInv, Mirror, Arguments, Shown, NotSelected, Counted, Given, Overwriting,
     Removing, Placing, Authorised

\* An operation that begins: its arguments are a used file, a document and a recorded one.
LEMMA BeginKeeps ==
  ASSUME IInv, BeginOverwrite \/ BeginPlace \/ BeginRemove
  PROVE  IInv'
<1>1. /\ op' \in Ops /\ op'.pc \in {"look", "new", "check"}
      /\ op'.pc # "new" => op'.id \in FileIds /\ op'.expected \in archive
      /\ op'.pc # "check" => op'.sent \in Docs
      /\ ~op'.cleanup
      /\ archive \subseteq archive' /\ archive' \in SUBSET Docs
      /\ UNCHANGED <<files, used, starred, selected, writes, hand, selectedBy, late,
                     touches, faults>>
  <2>1. CASE BeginOverwrite
    <3>1. PICK i \in used, sent \in Docs, recorded \in archive :
            Begin(Overwrite(i, sent, recorded))
      BY <2>1 DEF BeginOverwrite
    <3>2. i \in FileIds /\ recorded \in Docs
      BY DEF IInv, TypeOK
    <3>3. /\ Overwrite(i, sent, recorded) \in Ops
          /\ Overwrite(i, sent, recorded).pc = "look"
          /\ Overwrite(i, sent, recorded).id = i
          /\ Overwrite(i, sent, recorded).sent = sent
          /\ Overwrite(i, sent, recorded).expected = recorded
          /\ ~Overwrite(i, sent, recorded).cleanup
      BY <3>2 DEF Overwrite, Idle, Ops, Kinds, Pcs, Results
    <3>. QED
      BY <3>1, <3>2, <3>3 DEF IInv, TypeOK, Begin
  <2>2. CASE BeginPlace
    BY <2>2 DEF IInv, TypeOK, BeginPlace, Begin, Place, Idle, Ops, Kinds, Pcs, Results
  <2>3. CASE BeginRemove
    <3>1. PICK i \in used, recorded \in archive, successor \in used \cup {NoFile},
               blocked \in BOOLEAN : Begin(Remove(i, recorded, successor, blocked))
      BY <2>3 DEF BeginRemove
    <3>2. i \in FileIds /\ recorded \in Docs /\ successor \in FileIds \cup {NoFile}
      BY DEF IInv, TypeOK
    <3>3. /\ Remove(i, recorded, successor, blocked) \in Ops
          /\ Remove(i, recorded, successor, blocked).pc = "check"
          /\ Remove(i, recorded, successor, blocked).id = i
          /\ Remove(i, recorded, successor, blocked).expected = recorded
          /\ Remove(i, recorded, successor, blocked).sent = NoDoc
          /\ ~Remove(i, recorded, successor, blocked).cleanup
      BY <3>2 DEF Remove, Idle, Ops, Kinds, Pcs, Results
    <3>. QED
      BY <3>1, <3>2, <3>3 DEF IInv, TypeOK, Begin
  <2>. QED
    BY <2>1, <2>2, <2>3
<1>. QED
  BY <1>1 DEF IInv, TypeOK, Arguments, Shown, NotSelected, Counted, Given, Overwriting,
     Removing, Placing, Authorised

\* Settling or abandoning an operation keeps the invariant.
LEMMA IdleAgainKeeps ==
  ASSUME IInv, op' = Idle,
         UNCHANGED <<files, used, starred, selected, writes, archive, hand, selectedBy, late,
                     touches, faults>>
  PROVE  IInv'
BY IdleTyped DEF IInv, TypeOK, Arguments, Shown, NotSelected, Counted, Given, Overwriting,
   Removing, Placing, Authorised

\* The person at the display keeps the invariant.
LEMMA DisplayKeeps ==
  ASSUME IInv, DisplayTouch
  PROVE  IInv'
<1>1. PICK i \in FileIds :
        \/ \E d \in Docs : DisplayEdit(i, d) \/ DisplayCreate(i, d)
        \/ DisplayDelete(i)
        \/ DisplaySelect(i)
  BY DEF DisplayTouch
<1>2. touches' \in 0 .. MaxTouches
  BY <1>1, FilesAssumption DEF IInv, TypeOK, Touch, Touched, DisplayEdit, DisplayCreate,
     DisplayDelete, DisplaySelect
<1>3. CASE \E d \in Docs : DisplayEdit(i, d)
  BY <1>2, <1>3 DEF IInv, TypeOK, Arguments, Shown, NotSelected, Counted, Given, DisplayEdit,
     Touched
<1>4. CASE \E d \in Docs : DisplayCreate(i, d)
  BY <1>2, <1>4 DEF IInv, TypeOK, Arguments, Shown, NotSelected, Counted, Given, DisplayCreate,
     Touched
<1>5. CASE DisplayDelete(i)
  BY <1>2, <1>5 DEF IInv, TypeOK, Arguments, Shown, NotSelected, Counted, Given, DisplayDelete,
     Touched
<1>6. CASE DisplaySelect(i)
  BY <1>2, <1>6 DEF IInv, TypeOK, Arguments, Shown, NotSelected, Counted, Given, DisplaySelect
<1>. QED
  BY <1>1, <1>3, <1>4, <1>5, <1>6

\* Turning the switch keeps the invariant: the count of late frames starts again.
LEMMA SwitchKeeps ==
  ASSUME IInv, TurnWrites
  PROVE  IInv'
BY DEF IInv, TypeOK, Arguments, Shown, NotSelected, Counted, Given, TurnWrites

\* Every step of the specification preserves the invariant.
LEMMA NextInvariant == IInv /\ [Next]_fileVars => IInv'
<1>. SUFFICES ASSUME IInv, [Next]_fileVars PROVE IInv'
  OBVIOUS
<1>1. CASE Mirror
  BY <1>1, MirrorKeeps
<1>2. CASE BeginOverwrite \/ BeginPlace \/ BeginRemove
  BY <1>2, BeginKeeps
<1>3. CASE Settle \/ Abandon
  BY <1>3, IdleAgainKeeps DEF Settle, Abandon
<1>4. CASE Frame
  BY <1>4, FrameKeeps
<1>5. CASE DisplayTouch
  BY <1>5, DisplayKeeps
<1>6. CASE TurnWrites
  BY <1>6, SwitchKeeps
<1>7. CASE UNCHANGED fileVars
  BY <1>7 DEF fileVars, IInv, TypeOK, Arguments, Shown, NotSelected, Counted, Given
<1>. QED
  BY <1>1, <1>2, <1>3, <1>4, <1>5, <1>6, <1>7 DEF Next

-----------------------------------------------------------------------------
\* In every reachable state the operation knows of its file what the invariant says
\* (drafts/machine.py, overwrite and remove_profile, at each of their frames).
THEOREM Invariant == Spec => []IInv
<1>1. IInv /\ [Next]_fileVars => IInv'
  BY NextInvariant
<1>. QED
  BY InitInvariant, <1>1, PTL DEF Spec

\* Every variable of MachineFiles keeps its type.
THEOREM TypeCorrect == Spec => []TypeOK
<1>1. IInv => TypeOK
  BY DEF IInv
<1>. QED
  BY <1>1, Invariant, PTL

\* The switch is asked for every frame: at most one frame goes out after it is off
\* (device/client.py, _authorize before the guard's load).
THEOREM AtMostOneFrameLate == Spec => []OneFrameAfterSwitchOff
<1>1. IInv => OneFrameAfterSwitchOff
  BY DEF IInv, Counted, OneFrameAfterSwitchOff
<1>. QED
  BY <1>1, Invariant, PTL

-----------------------------------------------------------------------------
(* What a step of the invariant may take away from the machine. *)

\* Only three frames take away what a file holds, each from its own file, and then
\* nothing the guard did not see unless the display wrote since.
LEMMA WhatAFrameTakes ==
  ASSUME IInv, [Next]_fileVars, NEW i \in FileIds, AppReplaces(i)
  PROVE  i = op.id /\ (Send \/ PutBackSend \/ Delete)
<1>1. CASE Send
  BY <1>1 DEF AppReplaces, Send, SaveFrame, StoreAs, IInv, TypeOK
<1>2. CASE PutBackSend
  BY <1>2 DEF AppReplaces, PutBackSend, SaveFrame, StoreAs, IInv, TypeOK
<1>3. CASE Delete
  BY <1>3 DEF AppReplaces, Delete, DropFile, IInv, TypeOK
<1>4. CASE SendNew
  BY <1>4 DEF AppReplaces, SendNew, SaveFrame, StoreAs, IInv, TypeOK, Given
<1>5. CASE DisplayTouch
  BY <1>5 DEF AppReplaces, DisplayTouch, DisplayEdit, DisplayCreate, DisplayDelete,
     DisplaySelect, Touch, Touched, IInv, TypeOK
<1>6. CASE \/ Look \/ Guard \/ Verify \/ PutBackGuard \/ PutBackVerify \/ VerifyNew
           \/ Check \/ Again \/ DeleteGuard \/ Carry
           \/ Mirror \/ BeginOverwrite \/ BeginPlace \/ BeginRemove \/ Settle \/ Abandon
           \/ TurnWrites \/ UNCHANGED fileVars
  BY <1>6 DEF AppReplaces, Look, Guard, ClientGuard, Verify, PutBackGuard, PutBackVerify,
     VerifyNew, Check, Again, DeleteGuard, Carry, Mirror, BeginOverwrite, BeginPlace,
     BeginRemove, Begin, Settle, Abandon, TurnWrites, fileVars
<1>. QED
  BY <1>1, <1>2, <1>3, <1>4, <1>5, <1>6 DEF Next, Frame

\* A frame takes away exactly the document its guard was shown (client.save_profile and
\* delete_profile: get, compare the document hash, then write).
THEOREM FramesReplaceWhatTheySaw == Spec => ReplacesWhatItSaw
<1>1. ASSUME IInv, [Next]_fileVars, NEW i \in FileIds, AppReplaces(i), hand[i] # "unseen"
      PROVE  /\ i = op.id
             /\ files[i] = IF op.pc = "putback_send" THEN op.served ELSE op.expected
  BY <1>1, WhatAFrameTakes DEF IInv, Shown, Send, PutBackSend, Delete
<1>2. IInv /\ [Next]_fileVars =>
        [\A i \in FileIds : AppReplaces(i) /\ hand[i] # "unseen" =>
           /\ i = op.id
           /\ files[i] = IF op.pc = "putback_send" THEN op.served ELSE op.expected]_fileVars
  BY <1>1
<1>. QED
  BY <1>2, Invariant, PTL DEF Spec, ReplacesWhatItSaw

\* A document written at the display and seen by the app is stored in the archive before
\* a frame that undoes nothing takes it away.
THEOREM ReplacementsAreArchived == Spec => GuardedReplace
<1>1. ASSUME IInv, [Next]_fileVars, NEW i \in FileIds, AppReplaces(i), hand[i] = "seen",
             ~Undoing
      PROVE  files[i] \in archive
  <2>1. i = op.id /\ (Send \/ Delete)
    BY <1>1, WhatAFrameTakes DEF Undoing, PutBackSend
  <2>. QED
    BY <1>1, <2>1 DEF IInv, Shown, Arguments, Send, Delete, Undoing, Overwriting, Removing
<1>2. IInv /\ [Next]_fileVars =>
        [\A i \in FileIds :
           AppReplaces(i) /\ hand[i] = "seen" /\ ~Undoing => files[i] \in archive]_fileVars
  BY <1>1
<1>. QED
  BY <1>2, Invariant, PTL DEF Spec, GuardedReplace

\* A removal that looked at the selection does not delete the selected file, whatever the
\* display does to other files meanwhile (remove_profile: _check, select_profile, delete).
THEOREM SelectedFileGoesByRaceOnly == Spec => SelectedGoesByRaceOnly
<1>1. ASSUME IInv, [Next]_fileVars, NEW i \in FileIds, AppReplaces(i), files'[i] = NoDoc,
             selected = i
      PROVE  selectedBy # "checked"
  <2>1. i = op.id /\ (Send \/ PutBackSend \/ Delete)
    BY <1>1, WhatAFrameTakes
  <2>2. ~Send /\ ~PutBackSend
    BY <1>1, <2>1, FilesAssumption DEF IInv, TypeOK, Arguments, Overwriting, AppReplaces,
       Send, PutBackSend, SaveFrame, StoreAs
  <2>. QED
    BY <1>1, <2>1, <2>2 DEF IInv, NotSelected, Delete
<1>2. IInv /\ [Next]_fileVars =>
        [\A i \in FileIds : AppReplaces(i) /\ files'[i] = NoDoc /\ selected = i =>
           selectedBy # "checked"]_fileVars
  BY <1>1
<1>. QED
  BY <1>2, Invariant, PTL DEF Spec, SelectedGoesByRaceOnly

=============================================================================
