---------------------- MODULE OnboardingApprovalProofs ----------------------
(***************************************************************************)
(* Theorems about OnboardingApproval, for any number of sessions, threads, *)
(* changes and crashes.  The types hold in every installation; the rest    *)
(* assumes that requests of a session overlap only when all are approvals, *)
(* and that git rev-parse does not fail once the commit is made.           *)
(***************************************************************************)
EXTENDS OnboardingApproval, TLAPS

USE DEF gitVars, fileVars, localVars, Goto, Local

-----------------------------------------------------------------------------
(* Types *)

LEMMA UploadedTyped == Uploaded \in Row
  BY DEF Uploaded, Row, Status

\* The row of the session a handler serves is replaced by another.
LEMMA RowTyped ==
  ASSUME TypeOK, NEW t \in Thread, pc[t] # "idle", NEW r \in Row,
         row' = [row EXCEPT ![at[t]] = r]
  PROVE  row' \in [Session -> Row]
  BY DEF TypeOK

\* What answering leaves of a handler.
LEMMA AnswerTyped ==
  ASSUME TypeOK, NEW t \in Thread, Answer(t)
  PROVE  /\ pc' \in [Thread -> Point]
         /\ at' \in [Thread -> Session \cup {None}]
         /\ \A u \in Thread : pc'[u] # "idle" => at'[u] \in Session
         /\ seen' \in [Thread -> Row]
         /\ \A u \in Thread : content'[u] # None
         /\ content' \in [Thread -> Content]
         /\ hash' \in [Thread -> Content]
         /\ existed' \in [Thread -> BOOLEAN]
         /\ created' \in [Thread -> BOOLEAN]
<1>1. "idle" \in Point /\ {} \in Content /\ {} # None
  BY NoneAssumption DEF Point, Content
<1> QED
  BY <1>1, UploadedTyped DEF TypeOK, Answer

LEMMA RefuseTyped ==
  ASSUME TypeOK, NEW t \in Thread, Refuse(t)
  PROVE  TypeOK'
  BY AnswerTyped DEF Refuse, TypeOK

LEMMA ReadRowTyped ==
  ASSUME TypeOK, NEW t \in Thread, pc[t] # "idle", NEW next \in Point, ReadRow(t, next)
  PROVE  TypeOK'
  BY DEF ReadRow, TypeOK

\* A step that only moves on.
LEMMA GotoTyped ==
  ASSUME TypeOK, NEW t \in Thread, pc[t] # "idle", NEW next \in Point, Goto(t, next),
         UNCHANGED <<row, fileVars, gitVars, localVars, crashes>>
  PROVE  TypeOK'
  BY DEF TypeOK

LEMMA TypeReceive ==
  ASSUME TypeOK, NEW t \in Thread, NEW kind \in Kinds, NEW s \in Session, Receive(t, kind, s)
  PROVE  TypeOK'
<1>1. Entry[kind] \in Point
  BY KindAssumption DEF Entry, Point
<1>2. hash' \in [Thread -> Content]
  BY DEF Receive, TypeOK, Row
<1> QED
  BY <1>1, <1>2 DEF Receive, TypeOK

LEMMA TypeProfile ==
  ASSUME TypeOK, NEW t \in Thread, Profile(t)
  PROVE  TypeOK'
<1>1. CASE ProfileRead(t)
  BY <1>1, RefuseTyped, ReadRowTyped DEF ProfileRead, Point
<1>2. CASE BeginProfile(t)
  <2>1. row' \in [Session -> Row]
    <3>1. at[t] \in Session /\ row[at[t]] \in Row /\ pc[t] # "idle"
      BY <1>2 DEF BeginProfile, SetStatus, TypeOK
    <3>2. [row[at[t]] EXCEPT !.status = "PROFILING"] \in Row
      BY <3>1 DEF Row, Status
    <3>3. row' = [row EXCEPT ![at[t]] = [row[at[t]] EXCEPT !.status = "PROFILING"]]
      BY <3>1, <1>2 DEF BeginProfile, SetStatus, TypeOK
    <3> QED
      BY <3>1, <3>2, <3>3, RowTyped
  <2> QED
    BY <1>2, <2>1 DEF BeginProfile, TypeOK, Point
<1>3. CASE WriteStarter(t)
  <2>1. CASE Refuse(t)
    BY <2>1, RefuseTyped
  <2>2. CASE ~Refuse(t)
    BY <1>3, <2>2 DEF WriteStarter, TypeOK, Content, Point
  <2> QED
    BY <2>1, <2>2
<1>4. CASE SetProfile(t)
  <2>1. row' \in [Session -> Row]
    <3>1. at[t] \in Session /\ row[at[t]] \in Row /\ pc[t] # "idle"
      BY <1>4 DEF SetProfile, TypeOK
    <3>2. [row[at[t]] EXCEPT !.status = "DRAFT", !.drafted = TRUE] \in Row
      BY <3>1 DEF Row, Status
    <3>3. row' = [row EXCEPT ![at[t]] = [row[at[t]] EXCEPT !.status = "DRAFT", !.drafted = TRUE]]
      BY <3>1, <1>4 DEF SetProfile, TypeOK
    <3> QED
      BY <3>1, <3>2, <3>3, RowTyped
  <2> QED
    BY <1>4, <2>1, AnswerTyped DEF SetProfile, TypeOK
<1>5. CASE SetFailed(t)
  <2>1. row' \in [Session -> Row]
    <3>1. at[t] \in Session /\ row[at[t]] \in Row /\ pc[t] # "idle"
      BY <1>5 DEF SetFailed, SetStatus, TypeOK
    <3>2. [row[at[t]] EXCEPT !.status = "FAILED"] \in Row
      BY <3>1 DEF Row, Status
    <3>3. row' = [row EXCEPT ![at[t]] = [row[at[t]] EXCEPT !.status = "FAILED"]]
      BY <3>1, <1>5 DEF SetFailed, SetStatus, TypeOK
    <3> QED
      BY <3>1, <3>2, <3>3, RowTyped
  <2> QED
    BY <1>5, <2>1, AnswerTyped DEF SetFailed, TypeOK
<1> QED
  BY <1>1, <1>2, <1>3, <1>4, <1>5 DEF Profile

LEMMA TypeEdit ==
  ASSUME TypeOK, NEW t \in Thread, Edit(t)
  PROVE  TypeOK'
<1>1. CASE EditRead(t)
  BY <1>1, RefuseTyped, ReadRowTyped DEF EditRead, Point
<1>2. ASSUME NEW change \in Change, EditDraft(t, change)
      PROVE  TypeOK'
  <2>1. CASE Refuse(t)
    BY <2>1, RefuseTyped
  <2>2. CASE ~Refuse(t)
    <3>1. at[t] \in Session /\ draft[at[t]] \in Content
      BY <1>2, <2>2 DEF EditDraft, TypeOK
    <3>2. draft[at[t]] \cup {change} \in Content /\ draft[at[t]] \cup {change} # None
      BY <3>1, NoneAssumption DEF Content
    <3>3. PICK c \in Content :
            /\ c # None /\ content' = [content EXCEPT ![t] = c]
            /\ pc[t] = "e_draft" /\ Goto(t, "e_write")
            /\ UNCHANGED <<row, fileVars, gitVars, at, seen, hash, existed, created, crashes>>
      BY <1>2, <2>2, <3>2 DEF EditDraft
    <3> QED
      BY <3>3 DEF TypeOK, Point
  <2> QED
    BY <2>1, <2>2
<1>3. CASE EditWrite(t)
  BY <1>3 DEF EditWrite, TypeOK, Point
<1>4. CASE EditRow(t)
  <2>1. row' \in [Session -> Row]
    <3>1. at[t] \in Session /\ row[at[t]] \in Row /\ pc[t] # "idle"
      BY <1>4 DEF EditRow, TypeOK
    <3>2. [row[at[t]] EXCEPT !.status = "DRAFT", !.hash = None] \in Row
      BY <3>1 DEF Row, Status
    <3>3. row' = [row EXCEPT ![at[t]] = [row[at[t]] EXCEPT !.status = "DRAFT", !.hash = None]]
      BY <3>1, <1>4 DEF EditRow, TypeOK
    <3> QED
      BY <3>1, <3>2, <3>3, RowTyped
  <2> QED
    BY <1>4, <2>1, AnswerTyped DEF EditRow, TypeOK
<1> QED
  BY <1>1, <1>2, <1>3, <1>4 DEF Edit

LEMMA TypeValidate ==
  ASSUME TypeOK, NEW t \in Thread, Validate(t)
  PROVE  TypeOK'
<1>1. CASE ValidateRead(t)
  BY <1>1, RefuseTyped, ReadRowTyped DEF ValidateRead, Point
<1>2. CASE ValidateDraft(t) \/ ValidateHash(t)
  <2>1. CASE Refuse(t)
    BY <2>1, RefuseTyped
  <2>2. CASE ~Refuse(t)
    <3>1. draft[at[t]] \in Content /\ draft[at[t]] # None
      BY <1>2, <2>2 DEF ValidateDraft, ValidateHash, TypeOK
    <3> QED
      BY <1>2, <2>2, <3>1 DEF ValidateDraft, ValidateHash, TypeOK, Point
  <2> QED
    BY <2>1, <2>2
<1>3. CASE ValidateCheck(t)
  BY <1>3, GotoTyped DEF ValidateCheck, Point
<1>4. CASE SetValidation(t)
  <2> DEFINE status == IF pc[t] = "v_ready" THEN "READY_FOR_APPROVAL" ELSE "VALIDATION_FAILED"
  <2>1. row' \in [Session -> Row]
    <3>1. at[t] \in Session /\ row[at[t]] \in Row /\ pc[t] # "idle"
      BY <1>4 DEF SetValidation, TypeOK
    <3>2. [row[at[t]] EXCEPT !.hash = hash[t], !.status = status] \in Row
      BY <3>1 DEF Row, Status, TypeOK
    <3>3. row' = [row EXCEPT ![at[t]] = [row[at[t]] EXCEPT !.hash = hash[t], !.status = status]]
      BY <3>1, <1>4 DEF SetValidation, TypeOK
    <3> QED
      BY <3>1, <3>2, <3>3, RowTyped
  <2> QED
    BY <1>4, <2>1, AnswerTyped DEF SetValidation, TypeOK
<1> QED
  BY <1>1, <1>2, <1>3, <1>4 DEF Validate

LEMMA TypeApprove ==
  ASSUME TypeOK, NEW t \in Thread, Approve(t)
  PROVE  TypeOK'
<1>0. pc[t] # "idle" /\ at[t] \in Session
  BY DEF Approve, ApproveRead, ApproveHash, InvalidateApproval, ApproveDraft, ClaimApproval,
         ApproveExists, EnsureClean, MaterializeSource, PromoteConfig, CommitConfig,
         FinishApproval, ArchiveDraft, Fail, Undo, FailApproval, ResumeApproval,
         RecoverCommit, TypeOK
<1>1. CASE Refuse(t)
  BY <1>1, RefuseTyped
<1>2. CASE ApproveRead(t)
  BY <1>2, RefuseTyped, ReadRowTyped DEF ApproveRead, Point
<1>3. CASE ~Refuse(t) /\ (ApproveHash(t) \/ RecoverCommit(t))
  BY <1>0, <1>3, GotoTyped DEF ApproveHash, RecoverCommit, Point
<1>4. CASE EnsureClean(t) \/ Fail(t)
  BY <1>0, <1>4, GotoTyped DEF EnsureClean, Fail, Point
<1>5. CASE InvalidateApproval(t)
  <2>1. row' \in [Session -> Row]
    <3>1. at[t] \in Session /\ row[at[t]] \in Row /\ pc[t] # "idle"
      BY <1>5 DEF InvalidateApproval, TypeOK
    <3>2. [row[at[t]] EXCEPT !.status = "DRAFT", !.hash = None] \in Row
      BY <3>1 DEF Row, Status
    <3>3. row' = [row EXCEPT ![at[t]] = [row[at[t]] EXCEPT !.status = "DRAFT", !.hash = None]]
      BY <3>1, <1>5 DEF InvalidateApproval, TypeOK
    <3> QED
      BY <3>1, <3>2, <3>3, RowTyped
  <2> QED
    BY <1>5, <2>1, AnswerTyped DEF InvalidateApproval, TypeOK
<1>14. CASE FailApproval(t)
  <2>1. row' \in [Session -> Row]
    <3>1. at[t] \in Session /\ row[at[t]] \in Row /\ pc[t] # "idle"
      BY <1>14 DEF FailApproval, SetStatus, TypeOK
    <3>2. [row[at[t]] EXCEPT !.status = "READY_FOR_APPROVAL"] \in Row
      BY <3>1 DEF Row, Status
    <3>3. row' = [row EXCEPT ![at[t]] = [row[at[t]] EXCEPT !.status = "READY_FOR_APPROVAL"]]
      BY <3>1, <1>14 DEF FailApproval, SetStatus, TypeOK
    <3> QED
      BY <3>1, <3>2, <3>3, RowTyped
  <2> QED
    BY <1>14, <2>1, AnswerTyped DEF FailApproval, TypeOK
<1>6. CASE ~Refuse(t) /\ (ApproveDraft(t) \/ ResumeApproval(t))
  <2>1. PICK c \in {draft[at[t]], config[at[t]]} :
          /\ c # None /\ content' = [content EXCEPT ![t] = c]
          /\ Goto(t, "a_claim") \/ Goto(t, "a_recover")
          /\ UNCHANGED <<row, fileVars, gitVars, at, seen, hash, existed, created, crashes>>
    BY <1>6 DEF ApproveDraft, ResumeApproval
  <2>2. c \in Content
    BY <1>0, <2>1 DEF TypeOK
  <2> QED
    BY <1>0, <2>1, <2>2 DEF TypeOK, Point
<1>7. CASE ~Refuse(t) /\ ClaimApproval(t)
  <2>1. row' \in [Session -> Row]
    <3>1. at[t] \in Session /\ row[at[t]] \in Row /\ pc[t] # "idle"
      BY <1>7 DEF ClaimApproval, SetStatus, TypeOK
    <3>2. [row[at[t]] EXCEPT !.status = "APPROVING"] \in Row
      BY <3>1 DEF Row, Status
    <3>3. row' = [row EXCEPT ![at[t]] = [row[at[t]] EXCEPT !.status = "APPROVING"]]
      BY <3>1, <1>7 DEF ClaimApproval, SetStatus, TypeOK
    <3> QED
      BY <3>1, <3>2, <3>3, RowTyped
  <2> QED
    BY <1>0, <1>7, <2>1 DEF ClaimApproval, TypeOK, Point
<1>8. CASE ApproveExists(t)
  BY <1>0, <1>8 DEF ApproveExists, TypeOK, Point
<1>9. CASE MaterializeSource(t) \/ PromoteConfig(t)
  BY <1>0, <1>9 DEF MaterializeSource, PromoteConfig, TypeOK, Point
<1>10. CASE CommitConfig(t)
  BY <1>0, <1>10 DEF CommitConfig, TypeOK, Point
<1>11. CASE FinishApproval(t)
  <2>1. row' \in [Session -> Row]
    <3>1. at[t] \in Session /\ row[at[t]] \in Row /\ pc[t] # "idle"
      BY <1>11 DEF FinishApproval, TypeOK
    <3>2. [row[at[t]] EXCEPT !.status = "APPROVED", !.approved = TRUE, !.promoted = content[t]] \in Row
      BY <3>1 DEF Row, Status, TypeOK
    <3>3. row' = [row EXCEPT ![at[t]] = [row[at[t]] EXCEPT !.status = "APPROVED", !.approved = TRUE, !.promoted = content[t]]]
      BY <3>1, <1>11 DEF FinishApproval, TypeOK
    <3> QED
      BY <3>1, <3>2, <3>3, RowTyped
  <2> QED
    BY <1>0, <1>11, <2>1 DEF FinishApproval, TypeOK, Point
<1>12. CASE ArchiveDraft(t)
  BY <1>12, AnswerTyped DEF ArchiveDraft, TypeOK
<1>13. CASE Undo(t)
  BY <1>0, <1>13 DEF Undo, TypeOK, Point
<1> QED
  BY <1>1, <1>2, <1>3, <1>4, <1>5, <1>6, <1>7, <1>8, <1>9, <1>10, <1>11, <1>12, <1>13, <1>14
  DEF Approve

LEMMA TypeNext == TypeOK /\ [Next]_vars => TypeOK'
<1> SUFFICES ASSUME TypeOK, [Next]_vars
             PROVE  TypeOK'
  OBVIOUS
<1>1. ASSUME NEW t \in Thread, Crash(t)
      PROVE  TypeOK'
  <2>1. crashes' \in 0..MaxCrashes
    BY <1>1, FaultAssumption DEF Crash, TypeOK
  <2> QED
    BY <1>1, <2>1, AnswerTyped DEF Crash, TypeOK
<1>2. CASE UNCHANGED vars
  BY <1>2 DEF vars, TypeOK
<1> QED
  BY <1>1, <1>2, TypeReceive, TypeProfile, TypeEdit, TypeValidate, TypeApprove
  DEF Next, Handle

LEMMA TypeInit == Init => TypeOK
<1>1. "idle" \in Point /\ {} \in Content /\ {} # None /\ 0 \in 0..MaxCrashes
  BY NoneAssumption, FaultAssumption DEF Point, Content
<1> QED
  BY <1>1, UploadedTyped DEF Init, TypeOK

\* Every variable keeps its type: a handler at work has a session, and an
\* approval never promotes a draft that is not there (onboarding_service.py:716).
THEOREM OnboardingTypeCorrect == Spec => []TypeOK
  BY TypeInit, TypeNext, PTL DEF Spec

-----------------------------------------------------------------------------
(* Approvals.  A session is closed while an approval has claimed it and    *)
(* for ever once it is approved.                                           *)

Closed(s) == row[s].status \in {"APPROVING", "APPROVED"}

\* The points between a claim and the commit or the release of the claim.
Owner == {"a_exists", "a_clean", "a_source", "a_config", "a_commit", "a_undo", "a_unclaim"}

\* The points of the other requests at which they have read an open session.
Writing == Point \ (Approvals \cup {"idle", "p_read", "e_read", "v_read"})

\* A closed session has the draft that was validated, or has archived it; an
\* open one has nothing in the repository; a commit is of the validated draft
\* and stays as it is.
SessionInv(s) ==
  /\ Closed(s) => row[s].hash # None /\ draft[s] \in {row[s].hash, None}
  /\ ~Closed(s) => config[s] = None /\ ~stable[s]
  /\ row[s].approved <=> row[s].status = "APPROVED"
  /\ row[s].approved => committed[s] # None /\ row[s].promoted = committed[s]
  /\ committed[s] # None =>
       /\ Closed(s) /\ stable[s]
       /\ config[s] = committed[s] /\ committed[s] = row[s].hash
  /\ head = s => committed[s] # None

\* What a handler at a point knows of its session.
ThreadInv(t) ==
  /\ ~existed[t]
  /\ pc[t] \in Writing => ~Closed(at[t])
  /\ pc[t] \in Approvals => row[at[t]].hash \in {hash[t], None}
  /\ pc[t] = "a_stale" => ~Closed(at[t]) /\ draft[at[t]] \notin {hash[t], None}
  /\ pc[t] \in {"a_draft", "a_claim"} => draft[at[t]] \in {hash[t], None}
  /\ pc[t] \in Owner \cup {"a_claim"} => content[t] = hash[t]
  /\ pc[t] \in Owner => row[at[t]].status = "APPROVING" /\ committed[at[t]] = None
  /\ pc[t] \in {"a_exists", "a_clean", "a_source", "a_unclaim"} =>
       config[at[t]] = None /\ ~stable[at[t]]
  /\ pc[t] = "a_config" => config[at[t]] = None /\ stable[at[t]]
  /\ pc[t] = "a_commit" => config[at[t]] = content[t] /\ stable[at[t]] /\ created[t]
  /\ pc[t] = "a_undo" => created[t] \/ config[at[t]] = None
  /\ pc[t] \in {"a_recover", "a_finish"} => committed[at[t]] = content[t]
  /\ pc[t] = "a_archive" => row[at[t]].approved

\* Two handlers of one session are approvals, and one of them owns the claim.
PairInv(t, u) ==
  pc[t] # "idle" /\ pc[u] # "idle" /\ at[t] = at[u] /\ t # u =>
    /\ pc[t] \in Approvals /\ pc[u] \in Approvals
    /\ pc[t] \notin Owner \/ pc[u] \notin Owner

ApprovalInv ==
  /\ \A s \in Session : SessionInv(s)
  /\ \A t \in Thread : ThreadInv(t)
  /\ \A t, u \in Thread : PairInv(t, u)

LEMMA ApprovalInit == Init => ApprovalInv
  BY NoneAssumption
  DEF Init, ApprovalInv, SessionInv, ThreadInv, PairInv, Closed, Uploaded, Approvals, Owner,
      Writing

-----------------------------------------------------------------------------
(* What a step of one handler leaves alone *)

OthersKept(t) ==
  \A u \in Thread \ {t} :
    /\ pc'[u] = pc[u] /\ at'[u] = at[u] /\ content'[u] = content[u] /\ hash'[u] = hash[u]
    /\ existed'[u] = existed[u] /\ created'[u] = created[u]

\* The handler goes on, and does not become the owner of a claim, or it answers.
Moves(t) ==
  \/ pc'[t] = "idle"
  \/ /\ pc[t] # "idle" /\ at'[t] = at[t]
     /\ pc[t] \in Approvals => pc'[t] \in Approvals
     /\ pc'[t] \in Owner => pc[t] \in Owner

OnlyTouches(s) ==
  /\ \A r \in Session \ {s} :
       /\ row'[r] = row[r] /\ draft'[r] = draft[r] /\ config'[r] = config[r]
       /\ stable'[r] = stable[r] /\ committed'[r] = committed[r]
  /\ head' \in {head, s}

LEMMA PairsKept ==
  ASSUME \A u, v \in Thread : PairInv(u, v), NEW t \in Thread, OthersKept(t), Moves(t)
  PROVE  \A u, v \in Thread : PairInv(u, v)'
<1> SUFFICES ASSUME NEW u \in Thread, NEW v \in Thread
             PROVE  PairInv(u, v)'
  OBVIOUS
<1>1. CASE u # t /\ v # t
  BY <1>1 DEF OthersKept, PairInv
<1>2. CASE u = t /\ v # t
  BY <1>2 DEF OthersKept, Moves, PairInv
<1>3. CASE u # t /\ v = t
  BY <1>3 DEF OthersKept, Moves, PairInv
<1> QED
  BY <1>1, <1>2, <1>3 DEF PairInv

\* It is enough to look at the handler that acts, at its session and at the
\* other handlers of that session.
LEMMA Framed ==
  ASSUME TypeOK, ApprovalInv, NEW t \in Thread, NEW s \in Session, at[t] = s,
         OthersKept(t), OnlyTouches(s),
         SessionInv(s)', ThreadInv(t)', \A u, v \in Thread : PairInv(u, v)',
         \A u \in Thread \ {t} : at[u] = s /\ pc[u] # "idle" => ThreadInv(u)'
  PROVE  ApprovalInv'
<1>1. ASSUME NEW r \in Session \ {s}
      PROVE  SessionInv(r)'
  BY <1>1 DEF ApprovalInv, SessionInv, OnlyTouches, Closed
<1>2. ASSUME NEW u \in Thread \ {t}, pc[u] = "idle"
      PROVE  ThreadInv(u)'
  BY <1>2 DEF ApprovalInv, ThreadInv, OthersKept, Writing, Approvals, Owner
<1>3. ASSUME NEW u \in Thread \ {t}, pc[u] # "idle", at[u] # s
      PROVE  ThreadInv(u)'
  <2>1. at[u] \in Session \ {s}
    BY <1>3 DEF TypeOK
  <2> QED
    BY <1>3, <2>1 DEF ApprovalInv, ThreadInv, OthersKept, OnlyTouches, Closed
<1> QED
  BY <1>1, <1>2, <1>3 DEF ApprovalInv

\* A step that writes nothing others see.
LEMMA LocalStep ==
  ASSUME ApprovalInv, NEW t \in Thread, UNCHANGED <<row, fileVars, gitVars>>,
         OthersKept(t), Moves(t), ThreadInv(t)'
  PROVE  ApprovalInv'
<1>1. \A s \in Session : SessionInv(s)'
  BY DEF ApprovalInv, SessionInv, Closed
<1>2. ASSUME NEW u \in Thread \ {t}
      PROVE  ThreadInv(u)'
  BY <1>2 DEF ApprovalInv, ThreadInv, OthersKept, Closed
<1> QED
  BY <1>1, <1>2, PairsKept DEF ApprovalInv

LEMMA AnswerLeaves ==
  ASSUME TypeOK, ApprovalInv, NEW t \in Thread, Answer(t)
  PROVE  OthersKept(t) /\ Moves(t) /\ ThreadInv(t)'
  BY DEF TypeOK, Answer, OthersKept, Moves, ThreadInv, Writing, Approvals, Owner

LEMMA RefuseStep ==
  ASSUME TypeOK, ApprovalInv, NEW t \in Thread, Refuse(t)
  PROVE  ApprovalInv'
  BY AnswerLeaves, LocalStep DEF Refuse

\* A request other than an approval has its session for itself, and leaves it
\* open.
LEMMA WriterStep ==
  ASSUME TypeOK, ApprovalInv, NEW t \in Thread, NEW s \in Session, at[t] = s,
         pc[t] \in Writing, OthersKept(t), OnlyTouches(s), UNCHANGED <<config, stable, gitVars>>,
         row'[s].approved = row[s].approved, ~Closed(s)',
         \/ Answer(t)
         \/ pc'[t] \in Writing /\ UNCHANGED <<at, existed>>
  PROVE  ApprovalInv'
<1>1. ~Closed(s) /\ SessionInv(s)
  BY DEF ApprovalInv, ThreadInv
<1>2. SessionInv(s)'
  BY <1>1 DEF SessionInv, Closed
<1>3. ThreadInv(t)' /\ Moves(t)
  <2>1. CASE Answer(t)
    BY <2>1, AnswerLeaves
  <2>2. CASE pc'[t] \in Writing /\ UNCHANGED <<at, existed>>
    BY <2>2 DEF ApprovalInv, ThreadInv, Moves, Writing, Approvals, Owner, Closed
  <2> QED
    BY <2>1, <2>2
<1>4. \A u, v \in Thread : PairInv(u, v)'
  BY <1>3, PairsKept DEF ApprovalInv
<1>5. ASSUME NEW u \in Thread \ {t}, at[u] = s, pc[u] # "idle"
      PROVE  ThreadInv(u)'
  BY <1>5 DEF ApprovalInv, PairInv, Writing
<1> QED
  BY <1>1, <1>2, <1>3, <1>4, <1>5, Framed

-----------------------------------------------------------------------------
(* The steps of the requests that are no approvals *)

LEMMA ReceiveStep ==
  ASSUME TypeOK, ApprovalInv, DraftsAlone, NEW t \in Thread, NEW kind \in Kinds,
         NEW s \in Session, Receive(t, kind, s)
  PROVE  ApprovalInv'
<1>1. /\ pc[t] = "idle" /\ pc'[t] = Entry[kind] /\ at'[t] = s
      /\ kind = "approve" => row[s].hash # None /\ hash'[t] = row[s].hash
      /\ OthersKept(t) /\ UNCHANGED <<row, fileVars, gitVars, existed>>
  BY DEF Receive, TypeOK, OthersKept
<1>2. \A u \in Thread \ {t} : at[u] = s => kind = "approve" /\ pc[u] \in Approvals
  BY DEF Receive
<1>3. IF kind = "approve" THEN pc'[t] = "a_read" ELSE pc'[t] \in {"p_read", "e_read", "v_read"}
  BY <1>1, KindAssumption DEF Entry
<1>4. ThreadInv(t)'
  BY <1>1, <1>3 DEF ApprovalInv, ThreadInv, Writing, Approvals, Owner
<1>5. \A u, v \in Thread : PairInv(u, v)'
  <2> SUFFICES ASSUME NEW u \in Thread, NEW v \in Thread
               PROVE  PairInv(u, v)'
    OBVIOUS
  <2>1. CASE u # t /\ v # t
    BY <1>1, <2>1 DEF ApprovalInv, OthersKept, PairInv
  <2>2. CASE u = t /\ v # t
    BY <1>1, <1>2, <1>3, <2>2 DEF OthersKept, PairInv, Approvals, Owner
  <2>3. CASE u # t /\ v = t
    BY <1>1, <1>2, <1>3, <2>3 DEF OthersKept, PairInv, Approvals, Owner
  <2> QED
    BY <2>1, <2>2, <2>3 DEF PairInv
<1>6. \A r \in Session : SessionInv(r)'
  BY <1>1 DEF ApprovalInv, SessionInv, Closed
<1>7. \A u \in Thread \ {t} : ThreadInv(u)'
  BY <1>1 DEF ApprovalInv, ThreadInv, OthersKept, Closed
<1> QED
  BY <1>4, <1>5, <1>6, <1>7 DEF ApprovalInv

LEMMA ReadStep ==
  ASSUME TypeOK, ApprovalInv, NEW t \in Thread, pc[t] \in {"p_read", "e_read", "v_read"},
         NEW next \in Writing, ReadRow(t, next), ~Closed(at[t])
  PROVE  ApprovalInv'
<1>1. /\ pc'[t] = next /\ UNCHANGED <<row, fileVars, gitVars, at, existed>>
      /\ OthersKept(t)
  BY DEF ReadRow, TypeOK, OthersKept
<1>2. ThreadInv(t)' /\ Moves(t)
  BY <1>1 DEF ApprovalInv, ThreadInv, Moves, Closed, Writing, Approvals, Owner
<1> QED
  BY <1>1, <1>2, LocalStep

LEMMA WritingStep ==
  ASSUME TypeOK, ApprovalInv, NEW t \in Thread, pc[t] \in Writing, NEW next \in Writing,
         Goto(t, next), OthersKept(t), UNCHANGED <<row, fileVars, gitVars, at, existed>>
  PROVE  ApprovalInv'
<1>1. pc'[t] = next
  BY DEF TypeOK
<1>2. ThreadInv(t)' /\ Moves(t)
  BY <1>1 DEF ApprovalInv, ThreadInv, Moves, Closed, Writing, Approvals, Owner
<1> QED
  BY <1>2, LocalStep

LEMMA ProfileStep ==
  ASSUME TypeOK, ApprovalInv, NEW t \in Thread, Profile(t)
  PROVE  ApprovalInv'
<1>0. PICK s \in Session : at[t] = s
  BY DEF Profile, ProfileRead, BeginProfile, WriteStarter, SetProfile, SetFailed, TypeOK
<1>1. CASE Refuse(t)
  BY <1>1, RefuseStep
<1>2. CASE ~Refuse(t) /\ ProfileRead(t)
  <2>1. "p_begin" \in Writing /\ ~Closed(at[t]) /\ ReadRow(t, "p_begin") /\ pc[t] = "p_read"
    BY <1>2 DEF ProfileRead, Closed, Writing, Point, Approvals
  <2> QED
    BY <2>1, ReadStep
<1>3. CASE BeginProfile(t)
  <2>1. /\ pc[t] \in Writing /\ pc'[t] \in Writing /\ OthersKept(t) /\ OnlyTouches(s)
        /\ row'[s].status = "PROFILING" /\ row'[s].approved = row[s].approved
    BY <1>0, <1>3
    DEF BeginProfile, SetStatus, TypeOK, Row, OthersKept, OnlyTouches, Writing, Point, Approvals
  <2> QED
    BY <1>0, <1>3, <2>1, WriterStep DEF BeginProfile, Closed
<1>4. CASE ~Refuse(t) /\ WriteStarter(t)
  <2>1. /\ pc[t] \in Writing /\ pc'[t] \in Writing /\ OthersKept(t) /\ OnlyTouches(s)
        /\ UNCHANGED <<row, config, stable, gitVars, localVars>>
    BY <1>0, <1>4
    DEF WriteStarter, TypeOK, OthersKept, OnlyTouches, Writing, Point, Approvals
  <2>2. ~Closed(s)'
    BY <1>0, <2>1 DEF ApprovalInv, ThreadInv, Closed
  <2> QED
    BY <1>0, <2>1, <2>2, WriterStep
<1>5. CASE SetProfile(t) \/ SetFailed(t)
  <2>1. /\ pc[t] \in Writing /\ OnlyTouches(s) /\ Answer(t)
        /\ UNCHANGED <<config, stable, gitVars>>
        /\ row'[s].status \in {"DRAFT", "FAILED"} /\ row'[s].approved = row[s].approved
    BY <1>0, <1>5
    DEF SetProfile, SetFailed, SetStatus, TypeOK, Row, OnlyTouches, Writing, Point, Approvals
  <2> QED
    BY <1>0, <2>1, AnswerLeaves, WriterStep DEF Closed
<1> QED
  BY <1>1, <1>2, <1>3, <1>4, <1>5 DEF Profile

LEMMA EditStep ==
  ASSUME TypeOK, ApprovalInv, NEW t \in Thread, Edit(t)
  PROVE  ApprovalInv'
<1>0. PICK s \in Session : at[t] = s
  BY DEF Edit, EditRead, EditDraft, EditWrite, EditRow, TypeOK
<1>1. CASE Refuse(t)
  BY <1>1, RefuseStep
<1>2. CASE ~Refuse(t) /\ EditRead(t)
  <2>1. "e_draft" \in Writing /\ ~Closed(at[t]) /\ ReadRow(t, "e_draft") /\ pc[t] = "e_read"
    BY <1>2 DEF EditRead, Editable, Closed, Writing, Point, Approvals
  <2> QED
    BY <2>1, ReadStep
<1>3. ASSUME NEW change \in Change, ~Refuse(t), EditDraft(t, change)
      PROVE  ApprovalInv'
  <2>1. /\ pc[t] \in Writing /\ "e_write" \in Writing /\ Goto(t, "e_write") /\ OthersKept(t)
        /\ UNCHANGED <<row, fileVars, gitVars, at, existed>>
    BY <1>3 DEF EditDraft, TypeOK, OthersKept, Writing, Point, Approvals
  <2> QED
    BY <2>1, WritingStep
<1>4. CASE EditWrite(t)
  <2>1. /\ pc[t] \in Writing /\ pc'[t] \in Writing /\ OthersKept(t) /\ OnlyTouches(s)
        /\ UNCHANGED <<row, config, stable, gitVars, localVars>>
    BY <1>0, <1>4 DEF EditWrite, TypeOK, OthersKept, OnlyTouches, Writing, Point, Approvals
  <2>2. ~Closed(s)'
    BY <1>0, <2>1 DEF ApprovalInv, ThreadInv, Closed
  <2> QED
    BY <1>0, <2>1, <2>2, WriterStep
<1>5. CASE EditRow(t)
  <2>1. /\ pc[t] \in Writing /\ OnlyTouches(s) /\ Answer(t)
        /\ UNCHANGED <<config, stable, gitVars>>
        /\ row'[s].status = "DRAFT" /\ row'[s].approved = row[s].approved
    BY <1>0, <1>5 DEF EditRow, TypeOK, Row, OnlyTouches, Writing, Point, Approvals
  <2> QED
    BY <1>0, <2>1, AnswerLeaves, WriterStep DEF Closed
<1> QED
  BY <1>1, <1>2, <1>3, <1>4, <1>5 DEF Edit

LEMMA ValidateStep ==
  ASSUME TypeOK, ApprovalInv, NEW t \in Thread, Validate(t)
  PROVE  ApprovalInv'
<1>0. PICK s \in Session : at[t] = s
  BY DEF Validate, ValidateRead, ValidateDraft, ValidateHash, ValidateCheck, SetValidation,
         TypeOK
<1>1. CASE Refuse(t)
  BY <1>1, RefuseStep
<1>2. CASE ~Refuse(t) /\ ValidateRead(t)
  <2>1. "v_draft" \in Writing /\ ~Closed(at[t]) /\ ReadRow(t, "v_draft") /\ pc[t] = "v_read"
    BY <1>2 DEF ValidateRead, Editable, Closed, Writing, Point, Approvals
  <2> QED
    BY <2>1, ReadStep
<1>3. CASE ~Refuse(t) /\ (ValidateDraft(t) \/ ValidateHash(t) \/ ValidateCheck(t))
  <2>1. /\ pc[t] \in Writing /\ OthersKept(t)
        /\ \E next \in Writing : Goto(t, next)
        /\ UNCHANGED <<row, fileVars, gitVars, at, existed>>
    <3>1. {"v_draft", "v_hash", "v_check", "v_ready", "v_failed"} \subseteq Writing
      BY DEF Writing, Point, Approvals
    <3> QED
      BY <1>3, <3>1 DEF ValidateDraft, ValidateHash, ValidateCheck, TypeOK, OthersKept
  <2> QED
    BY <2>1, WritingStep
<1>4. CASE SetValidation(t)
  <2>1. /\ pc[t] \in Writing /\ OnlyTouches(s) /\ Answer(t)
        /\ UNCHANGED <<config, stable, gitVars>>
        /\ row'[s].status \in {"READY_FOR_APPROVAL", "VALIDATION_FAILED"}
        /\ row'[s].approved = row[s].approved
    BY <1>0, <1>4 DEF SetValidation, TypeOK, Row, OnlyTouches, Writing, Point, Approvals
  <2> QED
    BY <1>0, <2>1, AnswerLeaves, WriterStep DEF Closed
<1> QED
  BY <1>1, <1>2, <1>3, <1>4 DEF Validate

-----------------------------------------------------------------------------
(* The steps of an approval *)

\* The steps that read, compare or give up.
LEMMA ApproveLocalStep ==
  ASSUME TypeOK, ApprovalInv, NEW t \in Thread,
         \/ ApproveRead(t) \/ ApproveHash(t) \/ ApproveDraft(t) \/ ApproveExists(t)
         \/ Fail(t) \/ EnsureClean(t) \/ ResumeApproval(t) \/ RecoverCommit(t)
  PROVE  ApprovalInv'
<1>0. PICK s \in Session : at[t] = s
  BY DEF ApproveRead, ApproveHash, ApproveDraft, ApproveExists, Fail, EnsureClean,
         ResumeApproval, RecoverCommit, TypeOK
<1>i. SessionInv(s) /\ ThreadInv(t) /\ content[t] # None /\ hash[t] # None
  BY <1>0, NoneAssumption DEF ApprovalInv, TypeOK, Content
<1>1. CASE Refuse(t)
  BY <1>1, RefuseStep
<1>2. CASE ~Refuse(t) /\ ApproveRead(t)
  <2>1. /\ pc[t] = "a_read" /\ pc'[t] \in {"a_hash", "a_resume"} /\ OthersKept(t)
        /\ UNCHANGED <<row, fileVars, gitVars, at, hash, content, existed, created>>
    BY <1>2 DEF ApproveRead, ReadRow, TypeOK, OthersKept
  <2>2. ThreadInv(t)' /\ Moves(t)
    BY <1>0, <1>i, <2>1 DEF ThreadInv, Moves, Writing, Approvals, Owner
  <2> QED
    BY <2>1, <2>2, LocalStep
<1>3. CASE ~Refuse(t) /\ ApproveHash(t)
  <2>1. /\ pc[t] = "a_hash" /\ OthersKept(t) /\ UNCHANGED <<row, fileVars, gitVars, localVars>>
        /\ \/ pc'[t] = "a_draft" /\ draft[s] = hash[t]
           \/ pc'[t] = "a_stale" /\ draft[s] \notin {hash[t], None}
    BY <1>0, <1>3 DEF ApproveHash, TypeOK, OthersKept
  <2>2. draft[s] \notin {hash[t], None} => ~Closed(s)
    BY <1>0, <1>i, <2>1 DEF SessionInv, ThreadInv, Approvals
  <2>3. ThreadInv(t)' /\ Moves(t)
    BY <1>0, <1>i, <2>1, <2>2 DEF ThreadInv, Moves, Writing, Approvals, Owner, Closed
  <2> QED
    BY <2>1, <2>3, LocalStep
<1>4. CASE ~Refuse(t) /\ ApproveDraft(t)
  <2>1. /\ pc[t] = "a_draft" /\ pc'[t] = "a_claim" /\ OthersKept(t)
        /\ draft[s] # None /\ content'[t] = draft[s]
        /\ UNCHANGED <<row, fileVars, gitVars, at, hash, existed, created>>
    BY <1>0, <1>4 DEF ApproveDraft, TypeOK, OthersKept
  <2>2. ThreadInv(t)' /\ Moves(t)
    BY <1>0, <1>i, <2>1 DEF ThreadInv, Moves, Writing, Approvals, Owner
  <2> QED
    BY <2>1, <2>2, LocalStep
<1>5. CASE ApproveExists(t)
  <2>1. /\ pc[t] = "a_exists" /\ OthersKept(t) /\ existed'[t] = stable[s]
        /\ pc'[t] = IF config[s] # None THEN "a_undo" ELSE "a_clean"
        /\ UNCHANGED <<row, fileVars, gitVars, at, content, hash, created>>
    BY <1>0, <1>5 DEF ApproveExists, TypeOK, OthersKept
  <2>2. ThreadInv(t)' /\ Moves(t)
    BY <1>0, <1>i, <2>1 DEF ThreadInv, Moves, Writing, Approvals, Owner
  <2> QED
    BY <2>1, <2>2, LocalStep
<1>6. CASE Fail(t) \/ EnsureClean(t)
  <2>1. /\ pc[t] \in {"a_clean", "a_source", "a_config", "a_commit"} /\ OthersKept(t)
        /\ pc'[t] = "a_undo" \/ (pc[t] = "a_clean" /\ pc'[t] = "a_source")
        /\ UNCHANGED <<row, fileVars, gitVars, localVars>>
    BY <1>6 DEF Fail, EnsureClean, TypeOK, OthersKept
  <2>2. ThreadInv(t)' /\ Moves(t)
    BY <1>0, <1>i, <2>1 DEF ThreadInv, Moves, Writing, Approvals, Owner
  <2> QED
    BY <2>1, <2>2, LocalStep
<1>7. CASE ~Refuse(t) /\ ResumeApproval(t)
  <2>1. /\ pc[t] = "a_resume" /\ pc'[t] = "a_recover" /\ OthersKept(t)
        /\ config[s] # None /\ head = s /\ content'[t] = config[s]
        /\ UNCHANGED <<row, fileVars, gitVars, at, hash, existed, created>>
    BY <1>0, <1>7 DEF ResumeApproval, TypeOK, OthersKept
  <2>2. committed[s] = config[s]
    BY <1>i, <2>1 DEF SessionInv
  <2>3. ThreadInv(t)' /\ Moves(t)
    BY <1>0, <1>i, <2>1, <2>2 DEF ThreadInv, Moves, Writing, Approvals, Owner
  <2> QED
    BY <2>1, <2>3, LocalStep
<1>8. CASE ~Refuse(t) /\ RecoverCommit(t)
  <2>1. /\ pc[t] = "a_recover" /\ pc'[t] = "a_finish" /\ OthersKept(t)
        /\ UNCHANGED <<row, fileVars, gitVars, localVars>>
    BY <1>8 DEF RecoverCommit, TypeOK, OthersKept
  <2>2. ThreadInv(t)' /\ Moves(t)
    BY <1>0, <1>i, <2>1 DEF ThreadInv, Moves, Writing, Approvals, Owner
  <2> QED
    BY <2>1, <2>2, LocalStep
<1> QED
  BY <1>1, <1>2, <1>3, <1>4, <1>5, <1>6, <1>7, <1>8

\* A draft that is not the validated one is of an open session, whose
\* validation is taken back.
LEMMA InvalidateStep ==
  ASSUME TypeOK, ApprovalInv, NEW t \in Thread, InvalidateApproval(t)
  PROVE  ApprovalInv'
<1>1. PICK s \in Session : at[t] = s
  BY DEF InvalidateApproval, TypeOK
<1>2. /\ pc[t] = "a_stale" /\ Answer(t) /\ OnlyTouches(s)
      /\ row'[s].status = "DRAFT" /\ row'[s].hash = None /\ row'[s].approved = row[s].approved
      /\ UNCHANGED <<fileVars, gitVars>>
  BY <1>1 DEF InvalidateApproval, TypeOK, Row, OnlyTouches
<1>3. OthersKept(t) /\ Moves(t) /\ ThreadInv(t)'
  BY <1>2, AnswerLeaves
<1>4. SessionInv(s) /\ ~Closed(s)
  BY <1>1, <1>2 DEF ApprovalInv, ThreadInv
<1>5. SessionInv(s)'
  BY <1>2, <1>4 DEF SessionInv, Closed
<1>6. ASSUME NEW u \in Thread \ {t}, at[u] = s, pc[u] # "idle"
      PROVE  ThreadInv(u)'
  <2>1. ThreadInv(u) /\ pc[u] \in Approvals
    BY <1>1, <1>2, <1>6 DEF ApprovalInv, PairInv
  <2>2. pc[u] \notin Owner \cup {"a_archive"}
    BY <1>4, <1>6, <2>1 DEF ThreadInv, SessionInv, Closed
  <2> QED
    BY <1>2, <1>3, <1>6, <2>1, <2>2 DEF ThreadInv, OthersKept, Closed, Writing, Owner
<1> QED
  BY <1>1, <1>2, <1>3, <1>5, <1>6, PairsKept, Framed DEF ApprovalInv

\* The claim: nobody else has one, and no handler knows of another draft.
LEMMA ClaimStep ==
  ASSUME TypeOK, ApprovalInv, NEW t \in Thread, ~Refuse(t), ClaimApproval(t)
  PROVE  ApprovalInv'
<1>1. PICK s \in Session : at[t] = s
  BY DEF ClaimApproval, TypeOK
<1>2. /\ pc[t] = "a_claim" /\ pc'[t] = "a_exists" /\ OthersKept(t) /\ OnlyTouches(s)
      /\ row[s].status = "READY_FOR_APPROVAL" /\ row[s].hash = hash[t]
      /\ row'[s].status = "APPROVING" /\ row'[s].hash = row[s].hash
      /\ row'[s].approved = row[s].approved
      /\ UNCHANGED <<fileVars, gitVars, localVars>>
  BY <1>1 DEF ClaimApproval, SetStatus, TypeOK, Row, OthersKept, OnlyTouches
<1>3. /\ SessionInv(s) /\ ThreadInv(t) /\ ~Closed(s) /\ hash[t] # None
      /\ \A u \in Thread \ {t} : at[u] = s => pc[u] \notin Owner
  BY <1>1, <1>2, NoneAssumption DEF ApprovalInv, ThreadInv, Closed, TypeOK, Content
<1>4. draft[s] \in {hash[t], None} /\ content[t] = hash[t]
  BY <1>1, <1>2, <1>3 DEF ThreadInv
<1>5. SessionInv(s)'
  BY <1>2, <1>3, <1>4 DEF SessionInv, Closed
<1>6. ThreadInv(t)'
  BY <1>1, <1>2, <1>3, <1>4 DEF ThreadInv, SessionInv, Closed, Writing, Approvals, Owner
<1>7. ASSUME NEW u \in Thread \ {t}, at[u] = s, pc[u] # "idle"
      PROVE  ThreadInv(u)'
  <2>1. ThreadInv(u) /\ pc[u] \in Approvals /\ pc[u] \notin Owner
    BY <1>1, <1>2, <1>3, <1>7 DEF ApprovalInv, PairInv
  <2>2. row[s].hash \in {hash[u], None}
    BY <1>7, <2>1 DEF ThreadInv
  <2>3. pc[u] # "a_stale"
    BY <1>2, <1>3, <1>4, <1>7, <2>1, <2>2 DEF ThreadInv
  <2> QED
    BY <1>2, <1>7, <2>1, <2>3 DEF ThreadInv, OthersKept, Closed, Writing, Owner
<1>8. ASSUME NEW u \in Thread, NEW v \in Thread
      PROVE  PairInv(u, v)'
  <2>1. CASE u # t /\ v # t
    BY <1>2, <2>1 DEF ApprovalInv, OthersKept, PairInv
  <2>2. CASE u = t /\ v # t
    <3>1. PairInv(t, v)
      BY DEF ApprovalInv
    <3> QED
      BY <1>1, <1>2, <1>3, <2>2, <3>1 DEF OthersKept, PairInv, Approvals
  <2>3. CASE u # t /\ v = t
    <3>1. PairInv(u, t)
      BY DEF ApprovalInv
    <3> QED
      BY <1>1, <1>2, <1>3, <2>3, <3>1 DEF OthersKept, PairInv, Approvals
  <2> QED
    BY <2>1, <2>2, <2>3 DEF PairInv
<1> QED
  BY <1>1, <1>2, <1>5, <1>6, <1>7, <1>8, Framed

\* The owner works on files nobody else relies on before the commit.
LEMMA OwnerAlone ==
  ASSUME TypeOK, ApprovalInv, NEW t \in Thread, NEW s \in Session, at[t] = s, pc[t] \in Owner,
         OthersKept(t), row'[s].hash = row[s].hash, draft'[s] = draft[s],
         NEW u \in Thread \ {t}, at[u] = s, pc[u] # "idle"
  PROVE  ThreadInv(u)'
<1>1. ThreadInv(u) /\ pc[u] \in Approvals /\ pc[u] \notin Owner
  BY DEF ApprovalInv, PairInv, Owner
<1>2. row[s].status = "APPROVING" /\ committed[s] = None /\ SessionInv(s)
  BY DEF ApprovalInv, ThreadInv
<1>3. content[u] # None
  BY DEF TypeOK
<1>4. pc[u] \notin {"a_stale", "a_archive", "a_recover", "a_finish"}
  BY <1>1, <1>2, <1>3 DEF ThreadInv, SessionInv, Closed
<1> QED
  BY <1>1, <1>4 DEF ThreadInv, OthersKept, Writing, Owner

LEMMA FilesStep ==
  ASSUME TypeOK, ApprovalInv, NEW t \in Thread,
         MaterializeSource(t) \/ PromoteConfig(t) \/ Undo(t)
  PROVE  ApprovalInv'
<1>1. PICK s \in Session : at[t] = s
  BY DEF MaterializeSource, PromoteConfig, Undo, TypeOK
<1>2. /\ pc[t] \in Owner /\ pc'[t] \in Owner /\ OthersKept(t) /\ OnlyTouches(s)
      /\ UNCHANGED <<row, draft, gitVars, at, content, hash, existed>>
      /\ \/ /\ pc[t] = "a_source" /\ pc'[t] = "a_config"
            /\ stable'[s] /\ config'[s] = config[s]
         \/ /\ pc[t] = "a_config" /\ pc'[t] = "a_commit" /\ created'[t]
            /\ stable'[s] = stable[s] /\ config'[s] = content[t]
         \/ /\ pc[t] = "a_undo" /\ pc'[t] = "a_unclaim"
            /\ existed[t] \/ ~stable'[s]
            /\ config'[s] = IF created[t] THEN None ELSE config[s]
  <2>1. CASE MaterializeSource(t)
    BY <1>1, <2>1 DEF MaterializeSource, TypeOK, OthersKept, OnlyTouches, Owner
  <2>2. CASE PromoteConfig(t)
    BY <1>1, <2>2 DEF PromoteConfig, TypeOK, OthersKept, OnlyTouches, Owner
  <2>3. CASE Undo(t)
    BY <1>1, <2>3 DEF Undo, TypeOK, OthersKept, OnlyTouches, Owner
  <2> QED
    BY <2>1, <2>2, <2>3
<1>3. SessionInv(s) /\ ThreadInv(t)
  BY DEF ApprovalInv
<1>4. SessionInv(s)'
  BY <1>1, <1>2, <1>3 DEF SessionInv, ThreadInv, Closed
<1>5. ThreadInv(t)'
  BY <1>1, <1>2, <1>3 DEF ThreadInv, Writing, Approvals, Owner
<1>6. Moves(t)
  BY <1>2 DEF Moves, Owner, Approvals
<1>7. \A u \in Thread \ {t} : at[u] = s /\ pc[u] # "idle" => ThreadInv(u)'
  BY <1>1, <1>2, OwnerAlone
<1> QED
  BY <1>1, <1>2, <1>4, <1>5, <1>6, <1>7, PairsKept, Framed DEF ApprovalInv

LEMMA CommitStep ==
  ASSUME TypeOK, ApprovalInv, "after" \notin Faults, NEW t \in Thread, CommitConfig(t)
  PROVE  ApprovalInv'
<1>1. PICK s \in Session : at[t] = s
  BY DEF CommitConfig, TypeOK
<1>2. /\ pc[t] = "a_commit" /\ SessionInv(s) /\ ThreadInv(t) /\ content[t] # None
  BY DEF CommitConfig, ApprovalInv, TypeOK
<1>3. /\ committed[s] = None /\ config[s] = content[t] /\ content[t] = hash[t] /\ stable[s]
      /\ row[s].status = "APPROVING" /\ row[s].hash = hash[t]
  BY <1>1, <1>2 DEF ThreadInv, SessionInv, Owner, Approvals, Closed
<1>4. /\ pc'[t] = "a_finish" /\ OthersKept(t) /\ OnlyTouches(s)
      /\ committed'[s] = content[t]
      /\ UNCHANGED <<row, fileVars, localVars>>
  BY <1>1, <1>2, <1>3 DEF CommitConfig, TypeOK, OthersKept, OnlyTouches
<1>5. SessionInv(s)'
  BY <1>2, <1>3, <1>4 DEF SessionInv, Closed
<1>6. ThreadInv(t)'
  BY <1>1, <1>2, <1>3, <1>4 DEF ThreadInv, Writing, Approvals, Owner
<1>7. Moves(t)
  BY <1>2, <1>4 DEF Moves, Owner, Approvals
<1>8. \A u \in Thread \ {t} : at[u] = s /\ pc[u] # "idle" => ThreadInv(u)'
  BY <1>1, <1>2, <1>4, OwnerAlone DEF Owner
<1> QED
  BY <1>1, <1>4, <1>5, <1>6, <1>7, <1>8, PairsKept, Framed DEF ApprovalInv

LEMMA UnclaimStep ==
  ASSUME TypeOK, ApprovalInv, NEW t \in Thread, FailApproval(t)
  PROVE  ApprovalInv'
<1>1. PICK s \in Session : at[t] = s
  BY DEF FailApproval, TypeOK
<1>2. /\ pc[t] = "a_unclaim" /\ Answer(t) /\ OnlyTouches(s)
      /\ row'[s].status = "READY_FOR_APPROVAL" /\ row'[s].hash = row[s].hash
      /\ row'[s].approved = row[s].approved
      /\ UNCHANGED <<fileVars, gitVars>>
  BY <1>1 DEF FailApproval, SetStatus, TypeOK, Row, OnlyTouches
<1>3. OthersKept(t) /\ Moves(t) /\ ThreadInv(t)'
  BY <1>2, AnswerLeaves
<1>4. /\ SessionInv(s) /\ row[s].status = "APPROVING" /\ committed[s] = None
      /\ config[s] = None /\ ~stable[s]
  BY <1>1, <1>2 DEF ApprovalInv, ThreadInv, Owner
<1>5. SessionInv(s)'
  BY <1>2, <1>4 DEF SessionInv, Closed
<1>6. \A u \in Thread \ {t} : at[u] = s /\ pc[u] # "idle" => ThreadInv(u)'
  BY <1>1, <1>2, <1>3, OwnerAlone DEF Owner
<1> QED
  BY <1>1, <1>2, <1>3, <1>5, <1>6, PairsKept, Framed DEF ApprovalInv

\* Once the commit is there nobody owns the claim, so any approval may finish it.
LEMMA FinishStep ==
  ASSUME TypeOK, ApprovalInv, NEW t \in Thread, FinishApproval(t) \/ ArchiveDraft(t)
  PROVE  ApprovalInv'
<1>1. PICK s \in Session : at[t] = s
  BY DEF FinishApproval, ArchiveDraft, TypeOK
<1>2. SessionInv(s) /\ ThreadInv(t) /\ content[t] # None /\ row[s] \in Row
  BY DEF ApprovalInv, TypeOK
<1>3. pc[t] \in {"a_finish", "a_archive"} /\ committed[s] # None /\ Closed(s)
  BY <1>1, <1>2 DEF FinishApproval, ArchiveDraft, ThreadInv, SessionInv
<1>4. ASSUME NEW u \in Thread \ {t}, at[u] = s, pc[u] # "idle"
      PROVE  ThreadInv(u) /\ pc[u] \in Approvals /\ pc[u] \notin Owner \cup {"a_stale"}
  <2>1. ThreadInv(u) /\ pc[u] \in Approvals
    BY <1>1, <1>3, <1>4 DEF ApprovalInv, PairInv
  <2> QED
    BY <1>3, <1>4, <2>1 DEF ThreadInv
<1>5. CASE FinishApproval(t)
  <2>1. /\ pc[t] = "a_finish" /\ pc'[t] = "a_archive" /\ OthersKept(t) /\ OnlyTouches(s)
        /\ row'[s].status = "APPROVED" /\ row'[s].hash = row[s].hash
        /\ row'[s].approved /\ row'[s].promoted = content[t]
        /\ UNCHANGED <<fileVars, gitVars, localVars>>
    BY <1>1, <1>2, <1>5 DEF FinishApproval, TypeOK, Row, OthersKept, OnlyTouches
  <2>2. SessionInv(s)'
    BY <1>1, <1>2, <1>3, <2>1 DEF SessionInv, ThreadInv, Closed
  <2>3. ThreadInv(t)' /\ Moves(t)
    BY <1>1, <1>2, <2>1 DEF ThreadInv, Moves, Writing, Approvals, Owner
  <2>4. ASSUME NEW u \in Thread \ {t}, at[u] = s, pc[u] # "idle"
        PROVE  ThreadInv(u)'
    BY <1>4, <2>1, <2>4 DEF ThreadInv, OthersKept, Writing
  <2> QED
    BY <1>1, <2>1, <2>2, <2>3, <2>4, PairsKept, Framed DEF ApprovalInv
<1>6. CASE ArchiveDraft(t)
  <2>1. /\ Answer(t) /\ OnlyTouches(s) /\ draft'[s] = None
        /\ UNCHANGED <<row, config, stable, gitVars>>
    BY <1>1, <1>6 DEF ArchiveDraft, TypeOK, OnlyTouches
  <2>2. SessionInv(s)'
    BY <1>2, <2>1 DEF SessionInv, Closed
  <2>3. OthersKept(t) /\ Moves(t) /\ ThreadInv(t)'
    BY <2>1, AnswerLeaves
  <2>4. ASSUME NEW u \in Thread \ {t}, at[u] = s, pc[u] # "idle"
        PROVE  ThreadInv(u)'
    BY <1>4, <2>1, <2>3, <2>4 DEF ThreadInv, OthersKept, Writing
  <2> QED
    BY <1>1, <2>1, <2>2, <2>3, <2>4, PairsKept, Framed DEF ApprovalInv
<1> QED
  BY <1>5, <1>6

LEMMA ApprovalNext ==
  ASSUME DraftsAlone, "after" \notin Faults
  PROVE  TypeOK /\ ApprovalInv /\ [Next]_vars => ApprovalInv'
<1> SUFFICES ASSUME TypeOK, ApprovalInv, [Next]_vars
             PROVE  ApprovalInv'
  OBVIOUS
<1>1. ASSUME NEW t \in Thread, Approve(t)
      PROVE  ApprovalInv'
  BY <1>1, ApproveLocalStep, InvalidateStep, ClaimStep, FilesStep, CommitStep, UnclaimStep,
     FinishStep, RefuseStep
  DEF Approve
<1>2. ASSUME NEW t \in Thread, Crash(t)
      PROVE  ApprovalInv'
  BY <1>2, AnswerLeaves, LocalStep DEF Crash
<1>3. CASE UNCHANGED vars
  BY <1>3 DEF vars, ApprovalInv, SessionInv, ThreadInv, PairInv, Closed
<1> QED
  BY <1>1, <1>2, <1>3, ReceiveStep, ProfileStep, EditStep, ValidateStep DEF Next, Handle

-----------------------------------------------------------------------------
(* What an approval promises *)

LEMMA ApprovalCorrect ==
  ASSUME DraftsAlone, "after" \notin Faults
  PROVE  Spec => []ApprovalInv
  BY TypeInit, TypeNext, ApprovalInit, ApprovalNext, PTL DEF Spec

\* What the database calls approved (onboarding_operations.py:312) is committed,
\* in the work tree and materialized, and stays so whatever crashes, fails or
\* is requested afterwards.
THEOREM ApprovedCorrect ==
  ASSUME DraftsAlone, "after" \notin Faults
  PROVE  Spec => []ApprovedIsPromoted
<1>1. ApprovalInv => ApprovedIsPromoted
  BY DEF ApprovalInv, SessionInv, ApprovedIsPromoted
<1> QED
  BY <1>1, ApprovalCorrect, PTL

\* An approval that failed has left nothing behind (onboarding_service.py:804-811).
THEOREM AllOrNothingCorrect ==
  ASSUME DraftsAlone, "after" \notin Faults
  PROVE  Spec => []AllOrNothing
<1>1. ApprovalInv => AllOrNothing
  BY DEF ApprovalInv, SessionInv, AllOrNothing, Closed
<1> QED
  BY <1>1, ApprovalCorrect, PTL

\* The promoted configuration has the hash that was validated
\* (onboarding_service.py:709).
THEOREM ValidatedCorrect ==
  ASSUME DraftsAlone, "after" \notin Faults
  PROVE  Spec => []PromotesTheValidated
<1>1. ApprovalInv => PromotesTheValidated
  BY DEF ApprovalInv, SessionInv, PromotesTheValidated
<1> QED
  BY <1>1, ApprovalCorrect, PTL

\* Only the handler that finishes or fails an approval takes a session out of
\* APPROVING.
LEMMA ResolvedStep ==
  ASSUME TypeOK, ApprovalInv, [Next]_vars, NEW s \in Session,
         row[s].status = "APPROVING", row'[s].status # "APPROVING"
  PROVE  row'[s].status \in {"APPROVED", "READY_FOR_APPROVAL"} /\ row'[s].hash = row[s].hash
<1>1. row[s] \in Row /\ row'[s] # row[s]
  BY DEF TypeOK
<1>2. ASSUME NEW t \in Thread, Profile(t) \/ Edit(t) \/ Validate(t) \/ InvalidateApproval(t)
      PROVE  FALSE
  <2>1. \/ row' = row
        \/ /\ pc[t] \in Writing \cup {"a_stale"}
           /\ \A r \in Session : r # at[t] => row'[r] = row[r]
    <3>1. {"p_begin", "p_set", "p_fail", "e_row", "v_ready", "v_failed"} \subseteq Writing
      BY DEF Writing, Point, Approvals
    <3>2. CASE Profile(t)
      BY <3>1, <3>2
      DEF Profile, ProfileRead, BeginProfile, WriteStarter, SetProfile, SetFailed, SetStatus,
          Refuse, ReadRow, TypeOK
    <3>3. CASE Edit(t)
      BY <3>1, <3>3
      DEF Edit, EditRead, EditDraft, EditWrite, EditRow, Refuse, ReadRow, TypeOK
    <3>4. CASE Validate(t)
      BY <3>1, <3>4
      DEF Validate, ValidateRead, ValidateDraft, ValidateHash, ValidateCheck, SetValidation,
          Refuse, ReadRow, TypeOK
    <3>5. CASE InvalidateApproval(t)
      BY <3>5 DEF InvalidateApproval, TypeOK
    <3> QED
      BY <1>2, <3>2, <3>3, <3>4, <3>5
  <2>2. pc[t] \in Writing \cup {"a_stale"} => ~Closed(at[t])
    BY DEF ApprovalInv, ThreadInv
  <2> QED
    BY <1>1, <2>1, <2>2 DEF Closed
<1>3. ASSUME NEW t \in Thread, Approve(t), ~FinishApproval(t), ~FailApproval(t),
             ~InvalidateApproval(t)
      PROVE  FALSE
  <2>1. CASE ClaimApproval(t)
    BY <1>1, <2>1 DEF ClaimApproval, SetStatus, Refuse, TypeOK
  <2>2. CASE ~ClaimApproval(t)
    BY <1>1, <1>3, <2>2
    DEF Approve, ApproveRead, ApproveHash, ApproveDraft, ApproveExists, EnsureClean,
        MaterializeSource, PromoteConfig, CommitConfig, ArchiveDraft, Fail, Undo,
        ResumeApproval, RecoverCommit, Refuse, ReadRow
  <2> QED
    BY <2>1, <2>2
<1>4. ASSUME NEW t \in Thread, FinishApproval(t)
      PROVE  row'[s].status = "APPROVED" /\ row'[s].hash = row[s].hash
  <2>1. at[t] = s
    BY <1>1, <1>4 DEF FinishApproval, TypeOK
  <2> QED
    BY <1>1, <1>4, <2>1 DEF FinishApproval, TypeOK, Row
<1>5. ASSUME NEW t \in Thread, FailApproval(t)
      PROVE  row'[s].status = "READY_FOR_APPROVAL" /\ row'[s].hash = row[s].hash
  <2>1. at[t] = s
    BY <1>1, <1>5 DEF FailApproval, SetStatus, TypeOK
  <2> QED
    BY <1>1, <1>5, <2>1 DEF FailApproval, SetStatus, TypeOK, Row
<1>6. ASSUME UNCHANGED row
      PROVE  FALSE
  BY <1>1, <1>6
<1>7. ASSUME NEW t \in Thread,
             Crash(t) \/ \E kind \in Kinds, r \in Session : Receive(t, kind, r)
      PROVE  UNCHANGED row
  BY <1>7 DEF Crash, Receive
<1> QED
  BY <1>2, <1>3, <1>4, <1>5, <1>6, <1>7 DEF Next, Handle, vars

\* A claimed approval ends APPROVED, or READY_FOR_APPROVAL with the validation it
\* started from (onboarding_operations.py:312, 334).
THEOREM ResolvedCorrect ==
  ASSUME DraftsAlone, "after" \notin Faults
  PROVE  Spec => ClaimIsResolved
<1>1. TypeOK /\ ApprovalInv /\ [Next]_vars
        => [\A s \in Session :
              row[s].status = "APPROVING" /\ row'[s].status # "APPROVING"
                => /\ row'[s].status \in {"APPROVED", "READY_FOR_APPROVAL"}
                   /\ row'[s].hash = row[s].hash]_vars
  BY ResolvedStep
<1> QED
  BY <1>1, OnboardingTypeCorrect, ApprovalCorrect, PTL DEF Spec, ClaimIsResolved
=============================================================================
