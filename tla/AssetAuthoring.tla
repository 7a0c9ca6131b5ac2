---------------------------- MODULE AssetAuthoring ----------------------------
(***************************************************************************)
(* Authoring attempts of the battlefield and narration-style families      *)
(* (backend/src/repositories/battlefield-assets-v2.ts and                  *)
(* narration-style-assets-v2.ts), the runners that work on them            *)
(* (services/family-authoring-runners.ts), the asset generations an        *)
(* accepted candidate becomes (repositories/asset-generations.ts) and the  *)
(* owner's notifications, over the job queue of AuthoringJobs.             *)
(*                                                                         *)
(* A worker's transactions begin by locking the job row with their fence   *)
(* and are one step each.  PostgreSQL runs them READ COMMITTED: the        *)
(* owner's begin, confirm and discard read first and write by attempt id,  *)
(* so each of them is a read and a commit with other steps between.        *)
(*                                                                         *)
(* An envelope carries its attempt, so two attempts never have the same    *)
(* content: a candidate is the fence of the claim that generated it.       *)
(***************************************************************************)
EXTENDS AuthoringJobs, Sequences

CONSTANTS
    FamilyOf,        \* the family of each asset
    Origins,         \* what an asset may be before the first attempt, a subset of OriginKinds
    Acts,            \* what the owner may do besides beginning, a subset of OwnerActs
    MaxActs          \* owner's acts in a behaviour (bound)

\* Not created yet, imported without a generation, with a current generation.
OriginKinds == {"absent", "unsupported", "ready"}

\* Chat about the candidate, accept it, discard it, leave it until it expires, and ask for
\* a new image of a ready battlefield.
OwnerActs == {"adjust", "confirm", "discard", "wait", "image"}

ASSUME AuthoringAssumption ==
    /\ FamilyOf \in [Assets -> {"battlefield", "narration_style"}]
    /\ Origins \subseteq OriginKinds
    /\ Acts \subseteq OwnerActs
    /\ MaxActs \in Nat

VARIABLES
    attempts,        \* the <family>_authoring_attempts rows
    assets,          \* each asset: preset and <family>_asset_states row, current pointer
    generations,     \* the asset_generations rows of each asset, in order
    latest,          \* the attempt of each asset with the newest updated_at
    notices,         \* the owner_notifications rows: attempt and kind
    beginning,       \* attempts whose begin has read and not inserted yet
    confirming,      \* attempts whose activation has read and not committed yet
    discarding,      \* attempts whose discard has read and not committed yet
    drawing,         \* the generation each asset's image revision started from
    acts             \* bounded acts so far

authoringVars == <<attempts, assets, generations, latest, notices, beginning,
                   confirming, discarding, drawing, acts>>
vars == <<jobVars, authoringVars>>

ownerVars == <<beginning, confirming, discarding, drawing, acts>>

NewAttempt == [status |-> "none", asset |-> NoAsset, kind |-> "create", expected |-> 0,
               candidate |-> 0, overdue |-> FALSE]

\* The states of an attempt in which a worker has still to answer.
Working == {"pending_structure", "generating_structure"}

InFlight == Working \cup {"awaiting_owner_acceptance"}

Statuses == InFlight \cup {"none", "succeeded", "discarded", "expired", "failed"}

Originally(origin) ==
    [ preset |-> origin # "absent", current |-> IF origin = "ready" THEN 1 ELSE 0,
      compat |-> IF origin = "ready" THEN "ready" ELSE "none",
      named |-> IF origin = "ready" THEN 1 ELSE 0, active |-> NoAttempt ]

TypeOK ==
    /\ JobsTypeOK
    /\ attempts \in [Attempts -> [status : Statuses, asset : Assets \cup {NoAsset},
                                  kind : {"create", "revision", "upgrade"}, expected : Nat,
                                  candidate : Nat, overdue : BOOLEAN]]
    /\ assets \in [Assets -> [preset : BOOLEAN, current : Nat, named : Nat,
                              compat : {"none", "unsupported", "upgrading", "upgrade_failed", "ready"},
                              active : Attempts \cup {NoAttempt}]]
    /\ generations \in [Assets -> Seq([base : Nat])]
    /\ latest \in [Assets -> Attempts \cup {NoAttempt}]
    /\ notices \subseteq Attempts \X {"ready", "failed"}
    /\ beginning \subseteq Attempts /\ confirming \subseteq Attempts /\ discarding \subseteq Attempts
    /\ drawing \in [Assets -> Nat]
    /\ acts \in 0..MaxActs

Init ==
    /\ JobsInit
    /\ attempts = [a \in Attempts |-> NewAttempt]
    /\ \E origin \in [Assets -> Origins] :
        /\ assets = [s \in Assets |-> Originally(origin[s])]
        /\ generations = [s \in Assets |-> IF origin[s] = "ready" THEN <<[base |-> 0]>> ELSE <<>>]
    /\ latest = [s \in Assets |-> NoAttempt]
    /\ notices = {}
    /\ beginning = {} /\ confirming = {} /\ discarding = {}
    /\ drawing = [s \in Assets |-> 0]
    /\ acts = 0

Act(kind) == kind \in Acts /\ acts < MaxActs /\ acts' = acts + 1
-----------------------------------------------------------------------------
(* The rows of an attempt and of its asset.                                *)

AssetOf(a) == attempts[a].asset
Family(a) == FamilyOf[AssetOf(a)]

\* An UPDATE of the attempt's row, which moves its updated_at.
SetAttempt(a, row) ==
    /\ attempts' = [attempts EXCEPT ![a] = row]
    /\ latest' = [latest EXCEPT ![AssetOf(a)] = a]

AttemptUnchanged == UNCHANGED <<attempts, latest>>

\* Mutant: only an upgrade withdraws itself.
ReleasedUpgrade(a, compat) ==
    LET asset == assets[AssetOf(a)] IN
    IF attempts[a].kind = "upgrade" THEN [asset EXCEPT !.compat = compat, !.active = NoAttempt]
    ELSE asset

\* The asset's state row after an attempt that ended without a generation: an upgrade
\* sets the status of the battlefield, a revision only withdraws itself.
Released(a, compat) ==
    LET asset == assets[AssetOf(a)] IN
    IF attempts[a].kind = "upgrade" THEN [asset EXCEPT !.compat = compat, !.active = NoAttempt]
    ELSE IF attempts[a].kind = "revision" /\ asset.active = a THEN [asset EXCEPT !.active = NoAttempt]
    ELSE asset

Release(a, compat) == assets' = [assets EXCEPT ![AssetOf(a)] = Released(a, compat)]

\* Mutant: the pointer moves from wherever it is.
MoveAnyGeneration(s, expected) ==
    generations' = [generations EXCEPT ![s] = Append(@, [base |-> expected])]

\* appendAssetGeneration and activateAssetGeneration under the asset's advisory lock:
\* the pointer must still be at the generation the writer read.
MoveCurrentGeneration(s, expected) ==
    /\ assets[s].current = expected
    /\ generations' = [generations EXCEPT ![s] = Append(@, [base |-> expected])]

\* Mutant: the number of the newest generation, not the next.
NewestGeneration(s) == Len(generations[s]) - 1

NextGeneration(s) == Len(generations[s]) + 1

\* getBattlefieldCompatibility: the row says so and the pointer has a generation.
ReadyAsset(s) == assets[s].compat = "ready" /\ assets[s].current # 0
-----------------------------------------------------------------------------
(* The owner's operations.                                                 *)

\* A create is given an identity of its own, so its asset has no attempt yet.
MayBegin(s, kind) ==
    CASE kind = "create" -> ~assets[s].preset /\ \A b \in Attempts : AssetOf(b) # s
      [] kind = "upgrade" -> assets[s].preset /\ ~ReadyAsset(s)
      [] kind = "revision" -> ReadyAsset(s)

\* The reads of begin<Family>AuthoringAttempt; a replayed key changes nothing.
BeginReads(a, s, kind) ==
    /\ attempts[a].status = "none" /\ a \notin beginning
    /\ \A b \in Attempts : b < a => attempts[b].status # "none" \/ b \in beginning
    /\ MayBegin(s, kind)
    /\ kind # "create" => \A b \in Attempts : AssetOf(b) = s => attempts[b].status \notin InFlight
    /\ attempts' = [attempts EXCEPT ![a] = [NewAttempt EXCEPT !.asset = s, !.kind = kind,
                                                              !.expected = assets[s].current]]
    /\ beginning' = beginning \cup {a}
    /\ UNCHANGED <<jobVars, assets, generations, latest, notices, confirming, discarding,
                   drawing, acts>>

\* The state row of the asset an attempt begins on.
Engaged(a) ==
    LET asset == assets[AssetOf(a)]
        expected == attempts[a].expected
    IN CASE attempts[a].kind = "upgrade" ->
               [asset EXCEPT !.compat = "upgrading", !.active = a,
                             !.named = IF Family(a) = "battlefield" \/ asset.compat = "none"
                                       THEN expected ELSE @]
         [] attempts[a].kind = "revision" ->
               IF Family(a) = "narration_style" \/ asset.compat = "ready"
               THEN [asset EXCEPT !.active = a] ELSE asset
         [] OTHER -> asset

BeginInserts(a) ==
    /\ a \in beginning
    /\ beginning' = beginning \ {a}
    /\ SetAttempt(a, [attempts[a] EXCEPT !.status = "pending_structure"])
    /\ assets' = [assets EXCEPT ![AssetOf(a)] = Engaged(a)]
    /\ InsertFamilyAuthoringJob(a, AssetOf(a))
    /\ UNCHANGED <<tasks, posted, worker, faults, generations, notices, confirming, discarding,
                   drawing, acts>>

\* replaceBattlefieldAuthoringSource: a chat message about a candidate under review.
AdjustCandidate(a) ==
    /\ Act("adjust")
    /\ attempts[a].status = "awaiting_owner_acceptance"
    /\ Family(a) = "battlefield"
    /\ SetAttempt(a, [attempts[a] EXCEPT !.status = "pending_structure"])
    /\ ReopenFamilyAuthoringJob(a)
    /\ UNCHANGED <<tasks, posted, worker, faults, assets, generations, notices, beginning,
                   confirming, discarding, drawing>>

\* activate<Family>AuthoringAttempt up to its first write.
ConfirmReads(a) ==
    /\ Act("confirm")
    /\ a \notin confirming
    /\ attempts[a].status = "awaiting_owner_acceptance" /\ ~attempts[a].overdue
    /\ latest[AssetOf(a)] = a
    /\ assets[AssetOf(a)].current = attempts[a].expected
    /\ confirming' = confirming \cup {a}
    /\ UNCHANGED <<jobVars, attempts, assets, generations, latest, notices, beginning, discarding,
                   drawing>>

ConfirmCommits(a) ==
    LET s == AssetOf(a) IN
    /\ a \in confirming
    /\ confirming' = confirming \ {a}
    /\ MoveCurrentGeneration(s, attempts[a].expected)
    /\ SetAttempt(a, [attempts[a] EXCEPT !.status = "succeeded"])
    /\ assets' = [assets EXCEPT ![s] = [preset |-> TRUE, current |-> NextGeneration(s),
                                        compat |-> "ready", named |-> NextGeneration(s),
                                        active |-> NoAttempt]]
    /\ UNCHANGED <<jobVars, notices, beginning, discarding, drawing, acts>>

\* ASSET_CURRENT_GENERATION_DRIFT rolls the activation back.
ConfirmDrifts(a) ==
    /\ a \in confirming
    /\ assets[AssetOf(a)].current # attempts[a].expected
    /\ confirming' = confirming \ {a}
    /\ UNCHANGED <<jobVars, attempts, assets, generations, latest, notices, beginning, discarding,
                   drawing, acts>>

\* The same operation after expires_at.
ConfirmExpires(a) ==
    LET asset == assets[AssetOf(a)] IN
    /\ Act("confirm")
    /\ attempts[a].status = "awaiting_owner_acceptance" /\ attempts[a].overdue
    /\ latest[AssetOf(a)] = a
    /\ SetAttempt(a, [attempts[a] EXCEPT !.status = "expired"])
    /\ IF asset.active = a THEN Release(a, "upgrade_failed") ELSE UNCHANGED assets
    /\ UNCHANGED <<jobVars, generations, notices, beginning, confirming, discarding,
                   drawing>>

\* The clock reaches expires_at.
AttemptOverdue(a) ==
    /\ Act("wait")
    /\ attempts[a].status \in InFlight /\ ~attempts[a].overdue
    /\ attempts' = [attempts EXCEPT ![a].overdue = TRUE]
    /\ UNCHANGED <<jobVars, assets, generations, latest, notices, beginning, confirming, discarding,
                   drawing>>

DiscardReads(a) ==
    /\ Act("discard")
    /\ attempts[a].status \notin {"none", "succeeded", "discarded"}
    /\ a \notin discarding
    /\ discarding' = discarding \cup {a}
    /\ UNCHANGED <<jobVars, attempts, assets, generations, latest, notices, beginning, confirming,
                   drawing>>

\* Under the scheduler's lock: refused while the job is claimed, else by attempt id alone.
DiscardCommits(a) ==
    /\ a \in discarding
    /\ discarding' = discarding \ {a}
    /\ IF job[a].status = "claimed"
       THEN AttemptUnchanged /\ UNCHANGED <<assets, job, outbox>>
       ELSE /\ SetAttempt(a, [attempts[a] EXCEPT !.status = "discarded"])
            /\ Release(a, "unsupported")
            /\ FinishFamilyAuthoringJob(a, "cancelled")
    /\ UNCHANGED <<tasks, posted, worker, faults, generations, notices, beginning, confirming,
                   drawing, acts>>

\* An image of a ready battlefield is requested; its generation takes minutes.
ImageRequested(s) ==
    /\ Act("image")
    /\ FamilyOf[s] = "battlefield"
    /\ ReadyAsset(s) /\ drawing[s] = 0
    /\ drawing' = [drawing EXCEPT ![s] = assets[s].current]
    /\ UNCHANGED <<jobVars, attempts, assets, generations, latest, notices, beginning, confirming,
                   discarding>>

ActivateImageRevision(s) ==
    /\ drawing[s] # 0
    /\ drawing' = [drawing EXCEPT ![s] = 0]
    /\ \/ /\ MoveCurrentGeneration(s, drawing[s])
          /\ assets' = [assets EXCEPT ![s].current = NextGeneration(s),
                                      ![s].named = NextGeneration(s), ![s].compat = "ready"]
       \/ assets[s].current # drawing[s] /\ UNCHANGED <<generations, assets>>
    /\ UNCHANGED <<jobVars, attempts, latest, notices, beginning, confirming, discarding,
                   acts>>
-----------------------------------------------------------------------------
(* The runners: run<Family>AuthoringJob under a claim.                     *)

rowVars == <<attempts, assets, generations, latest, notices, ownerVars>>

\* The attempt is read in a statement of its own; a closed one needs no work.
ReadAttempt(w) ==
    LET a == worker[w].attempt IN
    /\ worker[w].at = "claimed"
    /\ Goto(w, IF attempts[a].status \notin InFlight THEN "cancelling"
               ELSE IF Family(a) = "battlefield" THEN "starting" ELSE "generating")
    /\ UNCHANGED <<job, outbox, tasks, posted, faults, rowVars>>

\* updateBattlefieldAuthoringStatus: nothing is written to a closed attempt.
MarkGenerating(w) ==
    LET a == worker[w].attempt IN
    /\ worker[w].at = "starting"
    /\ \/ StaleFence(w) /\ AttemptUnchanged
       \/ /\ Holds(w)
          /\ IF attempts[a].status \in InFlight
             THEN SetAttempt(a, [attempts[a] EXCEPT !.status = "generating_structure"])
             ELSE AttemptUnchanged
          /\ Goto(w, "generating")
    /\ UNCHANGED <<job, outbox, tasks, posted, faults, assets, generations, notices, ownerVars>>

\* The provider fails, or what it returned does not validate.
GenerationFails(w) ==
    /\ worker[w].at = "generating"
    /\ Goto(w, "failing")
    /\ UNCHANGED <<job, outbox, tasks, posted, faults, rowVars>>

\* A closed attempt refuses a candidate, and so does an overdue narration style.
Refuses(a) ==
    \/ attempts[a].status \in {"succeeded", "discarded", "expired"}
    \/ Family(a) = "narration_style" /\ attempts[a].overdue

SaveCandidate(w) ==
    LET a == worker[w].attempt IN
    /\ worker[w].at = "generating"
    /\ \/ StaleFence(w) /\ AttemptUnchanged /\ UNCHANGED <<assets, notices>>
       \/ Holds(w) /\ Refuses(a) /\ Goto(w, "failing") /\ AttemptUnchanged /\ UNCHANGED <<assets, notices>>
       \/ /\ Holds(w) /\ ~Refuses(a)
          /\ SetAttempt(a, [attempts[a] EXCEPT !.status = "awaiting_owner_acceptance",
                                               !.candidate = worker[w].fence])
          /\ notices' = notices \cup {<<a, "ready">>}
          /\ assets' = IF attempts[a].kind = "upgrade" /\ Family(a) = "battlefield"
                       THEN [assets EXCEPT ![AssetOf(a)].compat = "upgrading", ![AssetOf(a)].active = a]
                       ELSE assets
          /\ Goto(w, "saved")
    /\ UNCHANGED <<job, outbox, tasks, posted, faults, generations, ownerVars>>

\* finishFamilyAuthoringJob, a transaction of its own after the save's.
FinishJob(w) ==
    /\ worker[w].at \in {"saved", "cancelling"}
    /\ \/ StaleFence(w) /\ UNCHANGED <<job, outbox>>
       \/ /\ Holds(w)
          /\ FinishFamilyAuthoringJob(worker[w].attempt,
                                      IF worker[w].at = "saved" THEN "completed" ELSE "cancelled")
          /\ Goto(w, "answering")
    /\ UNCHANGED <<tasks, posted, faults, rowVars>>

\* The database refuses that transaction, which the runner takes for a failed job.
FinishErrs(w) ==
    /\ worker[w].at = "saved"
    /\ Fault
    /\ Goto(w, "failing")
    /\ UNCHANGED <<job, outbox, tasks, posted, rowVars>>

\* fail<Family>AuthoringAttempt.  The narration-style one returns before any write when
\* the attempt is closed; the battlefield one guards only the attempt's own row.
FailAttempt(w) ==
    LET a == worker[w].attempt
        closed == attempts[a].status \in {"succeeded", "discarded"}
    IN
    /\ worker[w].at = "failing"
    /\ \/ StaleFence(w) /\ AttemptUnchanged /\ UNCHANGED <<assets, notices, job, outbox>>
       \/ /\ Holds(w) /\ closed /\ Family(a) = "narration_style"
          /\ AttemptUnchanged /\ UNCHANGED <<assets, notices, job, outbox>>
          /\ Goto(w, "answering")
       \/ /\ Holds(w) /\ ~(closed /\ Family(a) = "narration_style")
          /\ IF closed \/ (attempts[a].status = "failed" /\ Family(a) = "battlefield")
             THEN AttemptUnchanged
             ELSE SetAttempt(a, [attempts[a] EXCEPT !.status = "failed"])
          /\ Release(a, "upgrade_failed")
          /\ notices' = notices \cup {<<a, "failed">>}
          /\ FinishFamilyAuthoringJob(a, "cancelled")
          /\ Goto(w, "answering")
    /\ UNCHANGED <<tasks, posted, faults, generations, ownerVars>>

Run(w) ==
    \/ ReadAttempt(w) \/ MarkGenerating(w) \/ GenerationFails(w) \/ SaveCandidate(w)
    \/ FinishJob(w) \/ FailAttempt(w)
-----------------------------------------------------------------------------
OwnerStep(a) ==
    \/ \E s \in Assets, kind \in {"create", "revision", "upgrade"} : BeginReads(a, s, kind)
    \/ BeginInserts(a) \/ AdjustCandidate(a)
    \/ ConfirmReads(a) \/ ConfirmCommits(a) \/ ConfirmDrifts(a) \/ ConfirmExpires(a)
    \/ AttemptOverdue(a) \/ DiscardReads(a) \/ DiscardCommits(a)

Next ==
    \/ JobsNext /\ UNCHANGED authoringVars
    \/ \E w \in Workers : Run(w) \/ FinishErrs(w)
    \/ \E a \in Attempts : OwnerStep(a)
    \/ \E s \in Assets : ImageRequested(s) \/ ActivateImageRevision(s)

Spec == Init /\ [][Next]_vars

(* Dispatch runs at every start of an instance and after every begin, chat *)
(* and answered task; Cloud Tasks retries a task until it is answered; a   *)
(* handler that lives goes on, its provider calls are bounded by deadlines *)
(* and an unattended lease runs out.  Nothing is assumed of the owner.     *)
FairSpec ==
    /\ Spec
    /\ \A a \in Attempts :
        /\ WF_vars(UNCHANGED <<faults, authoringVars>> /\ Dispatch(a))
        /\ WF_vars(UNCHANGED <<faults, authoringVars>> /\ LeaseLapses(a))
        /\ WF_vars(BeginInserts(a))
        /\ SF_vars(UNCHANGED <<faults, authoringVars>>
                     /\ \E w \in Workers, g \in Deliveries : Deliver(w, a, g))
    /\ \A w \in Workers : WF_vars((Admit(w) /\ UNCHANGED authoringVars) \/ Run(w))
-----------------------------------------------------------------------------
(* Properties.                                                             *)

(* However deliveries, wakes and recoveries interleave, no more jobs are   *)
(* claimed than the cap over all families allows, and never two of one     *)
(* asset (the counts under asset_authoring_scheduler's row lock).          *)
ClaimsWithinCap ==
    /\ Cardinality(Claimed) <= Cap
    /\ \A a, b \in Claimed : job[a].asset = job[b].asset => a = b

(* An attempt the owner was told is being worked on has an open job.       *)
AcceptedWorkIsQueued == \A a \in Attempts : attempts[a].status \in Working => Open(a)

(* Every generation of an asset was made from the generation just before   *)
(* it: no confirmation and no image revision overwrites one it did not see *)
(* (the expected generation of activateAssetGeneration).                   *)
NoLostRevision ==
    \A s \in Assets : \A i \in DOMAIN generations[s] : generations[s][i].base = i - 1

(* A candidate is saved only under the newest fence of its job: a worker   *)
(* whose lease lapsed and was claimed again leaves nothing behind.         *)
CandidateOfNewestClaim ==
    [][\A a \in Attempts : attempts'[a].candidate # attempts[a].candidate
                               => attempts'[a].candidate = job[a].fence]_vars

(* An asset that an attempt engaged is never left to it: when the attempt  *)
(* has ended, the asset's row names another one or none.                   *)
EndedAttemptReleasesAsset ==
    \A s \in Assets : assets[s].active # NoAttempt => attempts[assets[s].active].status \in InFlight

(* Every attempt the server accepted reaches the owner's review or fails,  *)
(* whatever tasks, dispatchers and workers are lost on the way and         *)
(* whichever job holds the cap.                                            *)
AttemptAnswered ==
    \A a \in Attempts : attempts[a].status \in Working ~> attempts[a].status \notin Working

(* Every job ends, first time and reopened, whatever tasks, dispatchers    *)
(* and workers are lost on the way.                                        *)
OpenJobEnds == \A a \in Attempts : Open(a) ~> ~Open(a)
=============================================================================
