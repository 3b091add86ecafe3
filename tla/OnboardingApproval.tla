------------------------- MODULE OnboardingApproval -------------------------
(***************************************************************************)
(* From an uploaded source to an approved configuration: profile, edits,   *)
(* validate and approve of OnboardingService (onboarding_service.py) over  *)
(* the rows of OnboardingRepository (onboarding_operations.py), the draft  *)
(* files, the stable source files and the one Git work tree all datasets   *)
(* share (git_adapter.py).                                                 *)
(*                                                                         *)
(* Handlers run on threads of the API.  A step is one transaction, one     *)
(* file read or replaced, or one Git command; any other handler may act    *)
(* between two steps, and the process may die there.  Activation and the   *)
(* first run, which follow an approval, do not touch any of this state.    *)
(*                                                                         *)
(* The content of a draft is the set of the changes made to it, so equal   *)
(* contents have equal SHA-256 hashes.  DRAFT stands for NEEDS_REVIEW,     *)
(* REVIEW_IN_PROGRESS, REVIEW_COMPLETE, CONFIGURING and                    *)
(* READY_FOR_VALIDATION, which no handler here tells apart.                *)
(***************************************************************************)
EXTENDS Naturals

CONSTANTS
  Session,        \* onboarding sessions, each with a dataset of its own
  Thread,         \* handler threads
  Kinds,          \* requests sent: subset of {"profile", "edit", "validate", "approve"}
  Change,         \* changes a client may make to a draft
  Required,       \* those without which a draft does not validate
  DraftsAlone,    \* requests of a session overlap only when all are approvals
  Faults,         \* where a file or Git command may fail: subset of {"before",
                  \* "after"}, the making of the commit
  MaxCrashes,     \* bound on the handlers that are cut off
  None            \* absence of a value

ASSUME KindAssumption == Kinds \subseteq {"profile", "edit", "validate", "approve"}
ASSUME ChangeAssumption == Required \subseteq Change
ASSUME FaultAssumption ==
  /\ DraftsAlone \in BOOLEAN
  /\ Faults \subseteq {"before", "after"}
  /\ MaxCrashes \in Nat
ASSUME NoneAssumption == None \notin Session /\ \A c \in SUBSET Change : c # None

VARIABLES
  row,        \* the rows of etl_app.onboarding_sessions
  draft,      \* configs/drafts/<onboarding_id>.yaml
  config,     \* configs/<dataset>.yaml in the work tree
  stable,     \* data/sources/<dataset>/source.* exists
  committed,  \* configs/<dataset>.yaml in HEAD
  head,       \* the session whose approval commit HEAD is
  pc,         \* program point of a handler
  at,         \* the session it serves
  seen,       \* the row it has read
  content,    \* the draft it has read and works on
  hash,       \* expected_hash of an approval, current_hash of a validation
  existed,    \* its source_existed
  created,    \* its config_created
  crashes     \* handlers cut off so far

gitVars   == <<committed, head>>
fileVars  == <<draft, config, stable>>
localVars == <<at, seen, content, hash, existed, created>>
vars == <<row, fileVars, gitVars, pc, localVars, crashes>>

-----------------------------------------------------------------------------
(* Types *)

Content == SUBSET Change

Status == {"UPLOADED", "PROFILING", "DRAFT", "VALIDATION_FAILED",
           "READY_FOR_APPROVAL", "APPROVING", "APPROVED", "FAILED"}

Row ==
  [status   : Status,
   drafted  : BOOLEAN,                 \* draft_key is set
   hash     : {None} \cup Content,     \* validation_hash
   approved : BOOLEAN,                 \* approved_at is set
   promoted : {None} \cup Content]     \* approved_config_hash

Point == {"idle",
          "p_read", "p_begin", "p_profile", "p_write", "p_set", "p_fail",
          "e_read", "e_draft", "e_write", "e_row",
          "v_read", "v_draft", "v_hash", "v_check", "v_ready", "v_failed",
          "a_read", "a_hash", "a_stale", "a_draft", "a_claim", "a_exists", "a_clean",
          "a_source", "a_config", "a_commit", "a_finish", "a_archive",
          "a_undo", "a_unclaim", "a_resume", "a_recover"}

Uploaded ==
  [status |-> "UPLOADED", drafted |-> FALSE, hash |-> None, approved |-> FALSE,
   promoted |-> None]

TypeOK ==
  /\ row \in [Session -> Row]
  /\ draft \in [Session -> {None} \cup Content]
  /\ config \in [Session -> {None} \cup Content]
  /\ stable \in [Session -> BOOLEAN]
  /\ committed \in [Session -> {None} \cup Content]
  /\ head \in Session \cup {None}
  /\ pc \in [Thread -> Point]
  /\ at \in [Thread -> Session \cup {None}]
  /\ \A t \in Thread : pc[t] # "idle" => at[t] \in Session
  /\ seen \in [Thread -> Row]
  /\ \A t \in Thread : content[t] # None
  /\ content \in [Thread -> Content]
  /\ hash \in [Thread -> Content]
  /\ existed \in [Thread -> BOOLEAN]
  /\ created \in [Thread -> BOOLEAN]
  /\ crashes \in 0..MaxCrashes

-----------------------------------------------------------------------------
(* Helpers *)

\* The review is complete and the configuration loads and plans.
Valid(c) == Required \subseteq c

Approvals == {"a_read", "a_hash", "a_stale", "a_draft", "a_claim", "a_exists",
              "a_clean", "a_source", "a_config", "a_commit", "a_finish", "a_archive",
              "a_undo", "a_unclaim", "a_resume", "a_recover"}

\* Mutant of Editable: a claimed approval does not lock the draft.
EditableWhileApproving(r) == ~r.approved /\ r.status # "APPROVED"

Editable(r) == ~r.approved /\ r.status \notin {"APPROVING", "APPROVED"}

\* git status --porcelain prints something.
Dirty == \E s \in Session : config[s] # committed[s]

Goto(t, point) == pc' = [pc EXCEPT ![t] = point]

Local(t, v, value) == [v EXCEPT ![t] = value]

SetStatus(s, status) == row' = [row EXCEPT ![s].status = status]

\* The handler answers, in success or in error, and forgets what it had read.
Answer(t) ==
  /\ Goto(t, "idle")
  /\ at' = [at EXCEPT ![t] = None]
  /\ seen' = [seen EXCEPT ![t] = Uploaded]
  /\ content' = [content EXCEPT ![t] = {}]
  /\ hash' = [hash EXCEPT ![t] = {}]
  /\ existed' = [existed EXCEPT ![t] = FALSE]
  /\ created' = [created EXCEPT ![t] = FALSE]

-----------------------------------------------------------------------------
(* Requests *)

Entry == [profile |-> "p_read", edit |-> "e_read", validate |-> "v_read",
          approve |-> "a_read"]

\* An approval carries the hash the browser shows.
Receive(t, kind, s) ==
  /\ pc[t] = "idle"
  /\ DraftsAlone =>
       \A u \in Thread : at[u] = s => kind = "approve" /\ pc[u] \in Approvals
  /\ kind = "approve" => row[s].hash # None
  /\ hash' = IF kind = "approve" THEN Local(t, hash, row[s].hash) ELSE hash
  /\ at' = Local(t, at, s)
  /\ Goto(t, Entry[kind])
  /\ UNCHANGED <<row, fileVars, gitVars, seen, content, existed, created, crashes>>

\* Every handler first reads its row.
ReadRow(t, next) ==
  /\ seen' = Local(t, seen, row[at[t]])
  /\ Goto(t, next)
  /\ UNCHANGED <<row, fileVars, gitVars, at, content, hash, existed, created, crashes>>

\* The request is refused, by a check that needs no further step.
Refuse(t) == Answer(t) /\ UNCHANGED <<row, fileVars, gitVars, crashes>>

-----------------------------------------------------------------------------
(* profile *)

ProfileRead(t) ==
  /\ pc[t] = "p_read"
  /\ IF row[at[t]].status \in {"UPLOADED", "FAILED"}
     THEN ReadRow(t, "p_begin")
     ELSE Refuse(t)

BeginProfile(t) ==
  /\ pc[t] = "p_begin"
  /\ SetStatus(at[t], "PROFILING")
  /\ \/ Goto(t, "p_write")
     \/ Goto(t, "p_fail")           \* the source cannot be profiled
  /\ UNCHANGED <<fileVars, gitVars, localVars, crashes>>

\* An existing draft is an OnboardingError, which no except clause handles.
WriteStarter(t) ==
  /\ pc[t] = "p_write"
  /\ \/ draft[at[t]] # None /\ Refuse(t)
     \/ /\ draft[at[t]] = None
        /\ draft' = [draft EXCEPT ![at[t]] = {}]
        /\ Goto(t, "p_set")
        /\ UNCHANGED <<row, config, stable, gitVars, localVars, crashes>>

SetProfile(t) ==
  /\ pc[t] = "p_set"
  /\ row' = [row EXCEPT ![at[t]].status = "DRAFT", ![at[t]].drafted = TRUE]
  /\ Answer(t)
  /\ UNCHANGED <<fileVars, gitVars, crashes>>

SetFailed(t) ==
  /\ pc[t] = "p_fail"
  /\ SetStatus(at[t], "FAILED")
  /\ Answer(t)
  /\ UNCHANGED <<fileVars, gitVars, crashes>>

Profile(t) ==
  \/ ProfileRead(t) \/ BeginProfile(t) \/ WriteStarter(t) \/ SetProfile(t) \/ SetFailed(t)

-----------------------------------------------------------------------------
(* edit: any of the requests that change the draft *)

EditRead(t) ==
  /\ pc[t] = "e_read"
  /\ IF Editable(row[at[t]]) /\ row[at[t]].drafted
     THEN ReadRow(t, "e_draft")
     ELSE Refuse(t)

EditDraft(t, change) ==
  /\ pc[t] = "e_draft"
  /\ \/ draft[at[t]] = None /\ Refuse(t)
     \/ /\ draft[at[t]] # None
        /\ content' = Local(t, content, draft[at[t]] \cup {change})
        /\ Goto(t, "e_write")
        /\ UNCHANGED <<row, fileVars, gitVars, at, seen, hash, existed, created, crashes>>

\* The checked file replaces whatever the draft is by now.
EditWrite(t) ==
  /\ pc[t] = "e_write"
  /\ draft' = [draft EXCEPT ![at[t]] = content[t]]
  /\ Goto(t, "e_row")
  /\ UNCHANGED <<row, config, stable, gitVars, localVars, crashes>>

\* set_review and set_configuration clear the validation, whatever the status.
EditRow(t) ==
  /\ pc[t] = "e_row"
  /\ row' = [row EXCEPT ![at[t]].status = "DRAFT", ![at[t]].hash = None]
  /\ Answer(t)
  /\ UNCHANGED <<fileVars, gitVars, crashes>>

Edit(t) ==
  \/ EditRead(t)
  \/ \E change \in Change : EditDraft(t, change)
  \/ EditWrite(t) \/ EditRow(t)

-----------------------------------------------------------------------------
(* validate *)

ValidateRead(t) ==
  /\ pc[t] = "v_read"
  /\ IF Editable(row[at[t]]) /\ row[at[t]].drafted
     THEN ReadRow(t, "v_draft")
     ELSE Refuse(t)

\* The draft is read three times: for the review, for its hash, for the plan.
ValidateDraft(t) ==
  /\ pc[t] = "v_draft"
  /\ \/ draft[at[t]] = None /\ Refuse(t)
     \/ /\ draft[at[t]] # None
        /\ content' = Local(t, content, draft[at[t]])
        /\ Goto(t, "v_hash")
        /\ UNCHANGED <<row, fileVars, gitVars, at, seen, hash, existed, created, crashes>>

ValidateHash(t) ==
  /\ pc[t] = "v_hash"
  /\ \/ draft[at[t]] = None /\ Refuse(t)
     \/ /\ draft[at[t]] # None
        /\ hash' = Local(t, hash, draft[at[t]])
        /\ Goto(t, "v_check")
        /\ UNCHANGED <<row, fileVars, gitVars, at, seen, content, existed, created, crashes>>

ValidateCheck(t) ==
  /\ pc[t] = "v_check"
  /\ LET good == Valid(content[t]) /\ draft[at[t]] # None /\ Valid(draft[at[t]])
     IN Goto(t, IF good THEN "v_ready" ELSE "v_failed")
  /\ UNCHANGED <<row, fileVars, gitVars, localVars, crashes>>

SetValidation(t) ==
  /\ pc[t] \in {"v_ready", "v_failed"}
  /\ row' = [row EXCEPT ![at[t]].hash = hash[t],
                        ![at[t]].status = IF pc[t] = "v_ready" THEN "READY_FOR_APPROVAL"
                                                              ELSE "VALIDATION_FAILED"]
  /\ Answer(t)
  /\ UNCHANGED <<fileVars, gitVars, crashes>>

Validate(t) ==
  \/ ValidateRead(t) \/ ValidateDraft(t) \/ ValidateHash(t) \/ ValidateCheck(t)
  \/ SetValidation(t)

-----------------------------------------------------------------------------
(* approve *)

\* Mutant of ApproveRead: an approval that is under way is not resumed.
ApproveReadOnce(t) ==
  /\ pc[t] = "a_read"
  /\ IF row[at[t]].approved \/ draft[at[t]] = None \/ row[at[t]].status = "APPROVING"
     THEN Refuse(t)
     ELSE ReadRow(t, "a_hash")

ApproveRead(t) ==
  /\ pc[t] = "a_read"
  /\ LET r == row[at[t]]
         refused == \/ r.approved \/ draft[at[t]] = None
                    \/ r.status = "APPROVING" /\ r.hash # hash[t]
     IN IF refused THEN Refuse(t)
        ELSE ReadRow(t, IF r.status = "APPROVING" THEN "a_resume" ELSE "a_hash")

\* Mutant of ApproveHash: the current bytes are not compared.
ApproveHashTrusting(t) ==
  /\ pc[t] = "a_hash"
  /\ \/ /\ seen[t].status = "READY_FOR_APPROVAL" /\ seen[t].hash = hash[t]
        /\ Goto(t, "a_draft")
        /\ UNCHANGED <<row, fileVars, gitVars, localVars, crashes>>
     \/ /\ seen[t].status # "READY_FOR_APPROVAL" \/ seen[t].hash # hash[t]
        /\ Refuse(t)

ApproveHash(t) ==
  /\ pc[t] = "a_hash"
  /\ LET current == draft[at[t]]
         ready   == seen[t].status = "READY_FOR_APPROVAL"
     IN \/ /\ current = hash[t] /\ ready /\ seen[t].hash = hash[t]
           /\ Goto(t, "a_draft")
           /\ UNCHANGED <<row, fileVars, gitVars, localVars, crashes>>
        \/ /\ current \notin {hash[t], None} /\ ready
           /\ Goto(t, "a_stale")
           /\ UNCHANGED <<row, fileVars, gitVars, localVars, crashes>>
        \/ /\ current = None \/ ~ready \/ (current = hash[t] /\ seen[t].hash # hash[t])
           /\ Refuse(t)

InvalidateApproval(t) ==
  /\ pc[t] = "a_stale"
  /\ row' = [row EXCEPT ![at[t]].status = "DRAFT", ![at[t]].hash = None]
  /\ Answer(t)
  /\ UNCHANGED <<fileVars, gitVars, crashes>>

\* Mutant of ApproveDraft: the archived draft of a finished approval is read.
ApproveDraftBlind(t) ==
  /\ pc[t] = "a_draft"
  /\ content' = Local(t, content, draft[at[t]])
  /\ Goto(t, "a_claim")
  /\ UNCHANGED <<row, fileVars, gitVars, at, seen, hash, existed, created, crashes>>

\* What is promoted is read again, after the hash was compared.
ApproveDraft(t) ==
  /\ pc[t] = "a_draft"
  /\ \/ draft[at[t]] = None /\ Refuse(t)
     \/ draft[at[t]] # None /\ ~Valid(draft[at[t]]) /\ Refuse(t)
     \/ /\ draft[at[t]] # None /\ Valid(draft[at[t]])
        /\ content' = Local(t, content, draft[at[t]])
        /\ Goto(t, "a_claim")
        /\ UNCHANGED <<row, fileVars, gitVars, at, seen, hash, existed, created, crashes>>

ClaimApproval(t) ==
  /\ pc[t] = "a_claim"
  /\ LET r == row[at[t]]
         claimed == ~r.approved /\ r.status = "READY_FOR_APPROVAL" /\ r.hash = hash[t]
     IN \/ ~claimed /\ Refuse(t)
        \/ /\ claimed
           /\ SetStatus(at[t], "APPROVING")
           /\ Goto(t, "a_exists")
           /\ UNCHANGED <<fileVars, gitVars, localVars, crashes>>

ApproveExists(t) ==
  /\ pc[t] = "a_exists"
  /\ existed' = Local(t, existed, stable[at[t]])
  /\ Goto(t, IF config[at[t]] # None THEN "a_undo" ELSE "a_clean")
  /\ UNCHANGED <<row, fileVars, gitVars, at, seen, content, hash, created, crashes>>

\* A step of the try block fails.
Fail(t) ==
  /\ "before" \in Faults
  /\ pc[t] \in {"a_clean", "a_source", "a_config", "a_commit"}
  /\ Goto(t, "a_undo")
  /\ UNCHANGED <<row, fileVars, gitVars, localVars, crashes>>

EnsureClean(t) ==
  /\ pc[t] = "a_clean"
  /\ Goto(t, IF Dirty \/ existed[t] THEN "a_undo" ELSE "a_source")
  /\ UNCHANGED <<row, fileVars, gitVars, localVars, crashes>>

MaterializeSource(t) ==
  /\ pc[t] = "a_source"
  /\ stable' = [stable EXCEPT ![at[t]] = TRUE]
  /\ Goto(t, "a_config")
  /\ UNCHANGED <<row, draft, config, gitVars, localVars, crashes>>

PromoteConfig(t) ==
  /\ pc[t] = "a_config"
  /\ config' = [config EXCEPT ![at[t]] = content[t]]
  /\ created' = Local(t, created, TRUE)
  /\ Goto(t, "a_commit")
  /\ UNCHANGED <<row, draft, stable, gitVars, at, seen, content, hash, existed, crashes>>

\* git add, git commit of this one path, git rev-parse HEAD.  A commit that
\* changes nothing fails; a rev-parse that fails leaves the commit behind.
CommitConfig(t) ==
  /\ pc[t] = "a_commit"
  /\ LET s == at[t] IN
       \/ /\ config[s] # committed[s]
          /\ committed' = [committed EXCEPT ![s] = config[s]]
          /\ head' = s
          /\ \/ Goto(t, "a_finish")
             \/ "after" \in Faults /\ Goto(t, "a_undo")
       \/ /\ config[s] = committed[s]
          /\ Goto(t, "a_undo")
          /\ UNCHANGED gitVars
  /\ UNCHANGED <<row, fileVars, localVars, crashes>>

FinishApproval(t) ==
  /\ pc[t] = "a_finish"
  /\ row' = [row EXCEPT ![at[t]].status = "APPROVED", ![at[t]].approved = TRUE,
                        ![at[t]].promoted = content[t]]
  /\ Goto(t, "a_archive")
  /\ UNCHANGED <<fileVars, gitVars, localVars, crashes>>

ArchiveDraft(t) ==
  /\ pc[t] = "a_archive"
  /\ draft' = [draft EXCEPT ![at[t]] = None]
  /\ Answer(t)
  /\ UNCHANGED <<row, config, stable, gitVars, crashes>>

\* Mutant of Undo: the materialized source stays.
UndoConfigOnly(t) ==
  /\ pc[t] = "a_undo"
  /\ config' = IF created[t] THEN [config EXCEPT ![at[t]] = None] ELSE config
  /\ Goto(t, "a_unclaim")
  /\ UNCHANGED <<row, draft, stable, gitVars, localVars, crashes>>

\* The except clauses remove what this handler has made, then give the claim back.
Undo(t) ==
  /\ pc[t] = "a_undo"
  /\ config' = IF created[t] THEN [config EXCEPT ![at[t]] = None] ELSE config
  /\ stable' = IF existed[t] THEN stable ELSE [stable EXCEPT ![at[t]] = FALSE]
  /\ Goto(t, "a_unclaim")
  /\ UNCHANGED <<row, draft, gitVars, localVars, crashes>>

FailApproval(t) ==
  /\ pc[t] = "a_unclaim"
  /\ SetStatus(at[t], "READY_FOR_APPROVAL")
  /\ Answer(t)
  /\ UNCHANGED <<fileVars, gitVars, crashes>>

\* Mutant of ResumeApproval: HEAD is not looked at.
ResumeUncommitted(t) ==
  /\ pc[t] = "a_resume"
  /\ LET s == at[t]
     IN \/ (config[s] = None \/ ~stable[s]) /\ Refuse(t)
        \/ /\ config[s] # None /\ stable[s]
           /\ content' = Local(t, content, config[s])
           /\ Goto(t, "a_finish")
           /\ UNCHANGED <<row, fileVars, gitVars, at, seen, hash, existed, created, crashes>>

\* _resume_approval: the files are there and HEAD is the commit of this approval.
ResumeApproval(t) ==
  /\ pc[t] = "a_resume"
  /\ LET s == at[t]
         durable == config[s] # None /\ stable[s] /\ head = s
     IN \/ ~durable /\ Refuse(t)
        \/ /\ durable
           /\ content' = Local(t, content, config[s])
           /\ Goto(t, "a_recover")
           /\ UNCHANGED <<row, fileVars, gitVars, at, seen, hash, existed, created, crashes>>

RecoverCommit(t) ==
  /\ pc[t] = "a_recover"
  /\ \/ Dirty /\ Refuse(t)
     \/ /\ ~Dirty
        /\ Goto(t, "a_finish")
        /\ UNCHANGED <<row, fileVars, gitVars, localVars, crashes>>

Approve(t) ==
  \/ ApproveRead(t) \/ ApproveHash(t) \/ InvalidateApproval(t) \/ ApproveDraft(t)
  \/ ClaimApproval(t) \/ ApproveExists(t) \/ EnsureClean(t) \/ MaterializeSource(t)
  \/ PromoteConfig(t) \/ CommitConfig(t) \/ FinishApproval(t) \/ ArchiveDraft(t)
  \/ Fail(t) \/ Undo(t) \/ FailApproval(t) \/ ResumeApproval(t) \/ RecoverCommit(t)

-----------------------------------------------------------------------------
\* A handler does not get to its end: its process dies, the database is away.
Crash(t) ==
  /\ crashes < MaxCrashes
  /\ pc[t] # "idle"
  /\ Answer(t)
  /\ crashes' = crashes + 1
  /\ UNCHANGED <<row, fileVars, gitVars>>

Init ==
  /\ row = [s \in Session |-> Uploaded]
  /\ draft = [s \in Session |-> None]
  /\ config = [s \in Session |-> None]
  /\ stable = [s \in Session |-> FALSE]
  /\ committed = [s \in Session |-> None]
  /\ head = None
  /\ pc = [t \in Thread |-> "idle"]
  /\ at = [t \in Thread |-> None]
  /\ seen = [t \in Thread |-> Uploaded]
  /\ content = [t \in Thread |-> {}]
  /\ hash = [t \in Thread |-> {}]
  /\ existed = [t \in Thread |-> FALSE]
  /\ created = [t \in Thread |-> FALSE]
  /\ crashes = 0

Handle(t) == Profile(t) \/ Edit(t) \/ Validate(t) \/ Approve(t)

Next ==
  \E t \in Thread :
    \/ \E kind \in Kinds, s \in Session : Receive(t, kind, s)
    \/ Handle(t)
    \/ Crash(t)

Spec == Init /\ [][Next]_vars

\* Handlers run to their end, and the client approves again until it gets
\* through to a thread.
Fairness ==
  /\ \A t \in Thread : WF_vars(Handle(t))
  /\ \A s \in Session : SF_vars(\E t \in Thread : Receive(t, "approve", s))

FairSpec == Spec /\ Fairness

-----------------------------------------------------------------------------
(* Properties *)

AtWork(s) == \E t \in Thread : at[t] = s

\* What the database calls approved is what the repository holds: the
\* configuration is committed and in the work tree as recorded, its source is
\* materialized, and no later request takes any of it away.
ApprovedIsPromoted ==
  \A s \in Session :
    row[s].approved =>
      /\ stable[s]
      /\ config[s] # None /\ config[s] = committed[s] /\ config[s] = row[s].promoted

\* An approval that is over has happened entirely or not at all.
AllOrNothing ==
  \A s \in Session :
    ~AtWork(s) /\ row[s].status # "APPROVING" /\ ~row[s].approved
      => config[s] = None /\ committed[s] = None /\ ~stable[s]

\* "Approve exactly the validated draft": what is promoted has the hash that
\* was validated and approved.
PromotesTheValidated ==
  \A s \in Session :
    row[s].approved /\ row[s].hash # None => row[s].promoted = row[s].hash

\* A claimed approval is resolved by an approval, and by nothing else: it ends
\* APPROVED, or READY_FOR_APPROVAL again with the validation it started from.
ClaimIsResolved ==
  [][\A s \in Session :
       row[s].status = "APPROVING" /\ row'[s].status # "APPROVING"
         => /\ row'[s].status \in {"APPROVED", "READY_FOR_APPROVAL"}
            /\ row'[s].hash = row[s].hash]_vars

\* Once the commit is made, the approval is finished, if need be by the next
\* request to approve.
CommitIsRecovered ==
  \A s \in Session : committed[s] # None ~> row[s].approved
=============================================================================
