---------------------------- MODULE BattleAdvance ----------------------------
(***************************************************************************)
(* POST /battles/:id/advance for one battle: the idempotent route          *)
(* (backend/src/routes.ts), the battle lease with its heartbeat            *)
(* (backend/src/services/distributed-guard.ts) and the advancement it      *)
(* guards (backend/src/services/battle-service.ts and the world commits).  *)
(*                                                                         *)
(* A request runs as two concurrent threads of control.  The ROUTE begins  *)
(* the idempotency row, takes the lease and waits for whichever comes      *)
(* first, the end of the advancement or a failed heartbeat; then it        *)
(* releases the lease and completes or abandons the row.  The CORE reads   *)
(* the battle, plays one phase and saves.  A lost heartbeat ends only the  *)
(* route: nothing cancels the core, which goes on against the database.    *)
(*                                                                         *)
(* Each autocommit statement and each transaction is one action.           *)
(* Wall-clock time is abstracted to whether the lease, and an idempotency  *)
(* row being processed, have expired.                                      *)
(***************************************************************************)
EXTENDS Integers, Sequences

CONSTANTS
    Requests,        \* HTTP requests in flight at a time
    Nobody,          \* the owner of a row that does not exist
    Keys,            \* idempotency keys 1..Keys, in the order clients first use them
    Worlds,          \* the advancements a battle may be bound to, a subset of WorldKinds
    Checkpoints,     \* checkpoints of a legacy combat turn
    TurnLimit,       \* combat turns of the battle
    MaxToken,        \* fencing token of the lease row (bound)
    Faults,          \* what the environment may do, a subset of FaultKinds
    MaxFaults        \* bounded faults in a behaviour

(* The manifest of the battle: none or schema <= 4, schema 5, 6 and 7.     *)
WorldKinds == {"legacy", "awareness", "unified", "reserved"}

(* "crash"      the process of a request dies                              *)
(* "renewal"    a heartbeat's UPDATE fails although the lease is live      *)
(* "provider"   a required model call fails or a deadline passes           *)
(* "stall"      a living process does not renew its lease in time          *)
(* "slow"       an advancement outlives its idempotency row                *)
(* "overlap"    clients overlap: one uses its key before another's is       *)
(*              answered, and each retries its own                         *)
(* "delete"     the owner deletes the battle                               *)
FaultKinds == {"crash", "renewal", "provider", "stall", "slow", "overlap", "delete"}

ASSUME AdvanceAssumption ==
    /\ Nobody \notin Requests
    /\ Keys \in Nat
    /\ Worlds \subseteq WorldKinds
    /\ Checkpoints \in Nat
    /\ TurnLimit \in Nat \ {0}
    /\ MaxToken \in Nat
    /\ Faults \subseteq FaultKinds
    /\ MaxFaults \in Nat

Key == 1..Keys
Side == {"a", "b"}

VARIABLES
    battle,          \* the battles row: revision column and state_json
    lease,           \* the battle_leases row (token 0 = no row)
    runtime,         \* the sidecar row of a bound battle: fencing_token, status, turn
    ratings,         \* how often this battle was applied to each side's record
    idem,            \* the idempotency_keys row of each key
    newest, answered,\* clients: the newest key used, the keys they have an answer to
    route, key,      \* each request: where its route is, the key it carries
    core, token,     \*   where its advancement is, the fencing token it holds
    seen, outcome,   \*   its `state' variable, how the phase it played ends
    faults           \* bounded faults so far

routeVars == <<idem, newest, answered, route, key>>
coreVars == <<core, token, seen, outcome>>
vars == <<battle, lease, runtime, ratings, routeVars, coreVars, faults>>

World == battle.world

Bound == World # "legacy"

NoLease == [owner |-> Nobody, token |-> 0, live |-> FALSE]

NoRow == [status |-> "absent", owner |-> Nobody, live |-> FALSE]

NewBattle(w) ==
    [ world |-> w, revision |-> 0, status |-> "active",
      phase |-> IF w = "reserved" THEN "combat" ELSE "prologue",
      op |-> 0, done |-> TRUE, decided |-> <<>>, commits |-> <<>>, settled |-> FALSE ]

NothingSeen == NewBattle("legacy")

NoOutcome == [phase |-> "none", receipts |-> 0]
-----------------------------------------------------------------------------
(* The outcome of a phase.                                                 *)

\* The combat turn the state is about to play.
UpcomingTurn(s) == IF World = "reserved" THEN s.revision + 1 ELSE s.revision

\* A phase ends in the next phase and commits its receipts.  A turn at the turn
\* limit is judged; a knock-out leaves a legacy battle to its aftermath, and a
\* battle of schema 5 or 6 plays the aftermath in the same commit.
Outcomes(s) ==
    IF s.phase = "prologue" THEN {[phase |-> "combat", receipts |-> 1]}
    ELSE IF s.phase = "aftermath" THEN {[phase |-> "over", receipts |-> 1]}
    ELSE (IF UpcomingTurn(s) < TurnLimit THEN {[phase |-> "combat", receipts |-> 1]}
          ELSE {[phase |-> "over", receipts |-> IF World = "reserved" THEN 1 ELSE 2]})
         \cup
         (CASE World = "legacy" -> {[phase |-> "aftermath", receipts |-> 1]}
            [] World = "reserved" -> {[phase |-> "over", receipts |-> 1]}
            [] OTHER -> {[phase |-> "over", receipts |-> 2]})

\* Checkpoints a phase saves at the revision it started from: only legacy turns do.
CheckpointsOf(s) == IF ~Bound /\ s.phase = "combat" THEN Checkpoints ELSE 0

\* completeAdvancePhases and the rating settlement, applied to the local state.
Completed(s, o) ==
    [s EXCEPT !.revision = @ + o.receipts,
              !.phase = o.phase,
              !.status = IF o.phase = "over" THEN "finished" ELSE @,
              !.done = TRUE,
              !.commits = Append(@, [op |-> s.op, decided |-> s.decided]),
              !.decided = <<>>,
              !.settled = (o.phase = "over")]
-----------------------------------------------------------------------------
(* The conditions of the SQL statements.                                   *)

\* EXISTS (SELECT 1 FROM battle_leases WHERE owner_id AND fencing_token AND live).
Fenced(r) ==
    /\ lease.owner = r
    /\ lease.token = token[r]
    /\ lease.token # 0
    /\ lease.live

\* Mutant: the statement compares the revision alone.
RevisionMatches(r) == battle.status # "deleted" /\ battle.revision = seen[r].revision

\* writeBattle's UPDATE finds the row: revision unchanged, lease live and its own.
CanWrite(r) ==
    /\ battle.status # "deleted"
    /\ battle.revision = seen[r].revision
    /\ Fenced(r)

\* The fenced UPDATE of the sidecar row, which refuses a token older than the one
\* it last saw.
CanWriteRuntime(r) ==
    /\ battle.status # "deleted"
    /\ Fenced(r)
    /\ token[r] >= runtime.token

\* Mutant: the upsert takes over no expired row.
LeaseNeverTakenOver == lease.token = 0

\* The upsert takes the row: there is none, or it has expired.  The owner id is a
\* fresh UUID, so that no request finds a row of its own.
LeaseFree == lease.token = 0 \/ ~lease.live

\* The key of a request is forgotten once neither thread needs it.
ForgetKey(r) == key' = [key EXCEPT ![r] = IF core[r] = "idle" THEN 0 ELSE @]

\* The advancement ends with a view of the battle, or with an error.
Return(r, how) ==
    /\ core' = [core EXCEPT ![r] = how]
    /\ seen' = [seen EXCEPT ![r] = NothingSeen]
    /\ outcome' = [outcome EXCEPT ![r] = NoOutcome]
    /\ UNCHANGED token
-----------------------------------------------------------------------------
Init ==
    /\ battle \in {NewBattle(w) : w \in Worlds}
    /\ lease = NoLease
    /\ runtime = [token |-> 1, status |-> "active", turn |-> 0]
    /\ ratings = [s \in Side |-> 0]
    /\ idem = [k \in Key |-> NoRow]
    /\ newest = 0
    /\ answered = {}
    /\ route = [r \in Requests |-> "idle"]
    /\ key = [r \in Requests |-> 0]
    /\ core = [r \in Requests |-> "idle"]
    /\ token = [r \in Requests |-> 0]
    /\ seen = [r \in Requests |-> NothingSeen]
    /\ outcome = [r \in Requests |-> NoOutcome]
    /\ faults = 0
-----------------------------------------------------------------------------
(* The route.                                                              *)

\* A client sends k: a key it has no answer to, or a new one, which a lone client
\* uses when it has the answer to the last (BattlePage.tsx, advanceKeyRef).
Sends(k) ==
    /\ k \notin answered
    /\ IF "overlap" \in Faults
       THEN k <= newest + 1
       ELSE \/ k = newest
            \/ k = newest + 1 /\ newest \in answered \cup {0}

\* beginIdempotentRequest starts: it inserts the row, or takes over an expired one.
\* (A row another request is processing is answered 409 and changes nothing.)
BeginIdempotentRequest(r, k) ==
    /\ route[r] = "idle"
    /\ core[r] = "idle"
    /\ Sends(k)
    /\ \/ idem[k].status = "absent"
       \/ idem[k].status = "processing" /\ ~idem[k].live
    /\ idem' = [idem EXCEPT ![k] = [status |-> "processing", owner |-> r, live |-> TRUE]]
    /\ newest' = IF k > newest THEN k ELSE newest
    /\ route' = [route EXCEPT ![r] = "begun"]
    /\ key' = [key EXCEPT ![r] = k]
    /\ UNCHANGED <<battle, lease, runtime, ratings, answered, coreVars, faults>>

\* beginIdempotentRequest finds a completed row: its response is sent again.
ReplayResponse(k) ==
    /\ Sends(k)
    /\ idem[k].status = "completed"
    /\ answered' = answered \cup {k}
    /\ UNCHANGED <<battle, lease, runtime, ratings, idem, newest, route, key, coreVars,
                   faults>>

\* acquireBattleLeaseFence: a new row starts at token 1, an expired one is taken over.
AcquireBattleLease(r) ==
    /\ route[r] = "begun"
    /\ battle.status # "deleted"
    /\ LeaseFree
    /\ lease.token < MaxToken
    /\ lease' = [owner |-> r, token |-> lease.token + 1, live |-> TRUE]
    /\ token' = [token EXCEPT ![r] = lease.token + 1]
    /\ route' = [route EXCEPT ![r] = "waiting"]
    /\ core' = [core EXCEPT ![r] = "leased"]
    /\ UNCHANGED <<battle, runtime, ratings, idem, newest, answered, key, seen, outcome,
                   faults>>

\* BATTLE_BUSY, or the battle is gone (not found, or the foreign key of the row).
AcquireRefused(r) ==
    /\ route[r] = "begun"
    /\ battle.status = "deleted" \/ ~LeaseFree
    /\ route' = [route EXCEPT ![r] = "failed"]
    /\ UNCHANGED <<battle, lease, runtime, ratings, idem, newest, answered, key, coreVars,
                   faults>>

\* A heartbeat renews nothing, because the lease expired or went to another, or
\* fails: BATTLE_LEASE_LOST wins the race and the core is left to itself.
LoseBattleLease(r) ==
    /\ route[r] = "waiting"
    /\ core[r] \notin {"done", "threw"}
    /\ \/ ~Fenced(r) /\ UNCHANGED faults
       \/ /\ "renewal" \in Faults
          /\ faults < MaxFaults
          /\ faults' = faults + 1
    /\ route' = [route EXCEPT ![r] = "lost"]
    /\ UNCHANGED <<battle, lease, runtime, ratings, idem, newest, answered, key, coreVars>>

\* Mutant: the row is given up but not deleted.
ReleasedInPlace(r) == IF lease.owner = r THEN [lease EXCEPT !.owner = Nobody] ELSE lease

\* releaseBattleLease: DELETE the row WHERE owner_id, and with it the token.
Released(r) == IF lease.owner = r THEN NoLease ELSE lease

\* Mutant: a lost lease counts as an answer.
ReturnedOrLost(r) == core[r] # "threw"

\* The route's wait ended in a view of the battle.
Returned(r) == route[r] = "waiting" /\ core[r] = "done"

\* The finally block of withBattleLease.
ReleaseBattleLease(r) ==
    /\ \/ route[r] = "lost"
       \/ route[r] = "waiting" /\ core[r] \in {"done", "threw"}
    /\ lease' = Released(r)
    /\ route' = [route EXCEPT ![r] = IF Returned(r) THEN "returned" ELSE "failed"]
    /\ core' = [core EXCEPT ![r] = IF @ \in {"done", "threw"} THEN "idle" ELSE @]
    /\ token' = [token EXCEPT ![r] = IF core[r] \in {"done", "threw"} THEN 0 ELSE @]
    /\ UNCHANGED <<battle, runtime, ratings, idem, newest, answered, key, seen, outcome,
                   faults>>

\* The row is still this request's to complete or to abandon.
OwnsRow(r) == idem[key[r]].status = "processing" /\ idem[key[r]].owner = r

\* completeIdempotentRequest stores the response.
CompleteIdempotentRequest(r) ==
    /\ route[r] = "returned"
    /\ OwnsRow(r)
    /\ idem' = [idem EXCEPT ![key[r]] = [@ EXCEPT !.status = "completed", !.live = FALSE]]
    /\ route' = [route EXCEPT ![r] = "answering"]
    /\ UNCHANGED <<battle, lease, runtime, ratings, newest, answered, key, coreVars, faults>>

\* IDEMPOTENCY_OWNERSHIP_LOST: an error answer, but the row is not abandoned.
LoseIdempotencyOwnership(r) ==
    /\ route[r] = "returned"
    /\ ~OwnsRow(r)
    /\ route' = [route EXCEPT ![r] = "idle"]
    /\ ForgetKey(r)
    /\ UNCHANGED <<battle, lease, runtime, ratings, idem, newest, answered, coreVars, faults>>

\* The response reaches the client.
AnswerAdvance(r) ==
    /\ route[r] = "answering"
    /\ answered' = answered \cup {key[r]}
    /\ route' = [route EXCEPT ![r] = "idle"]
    /\ ForgetKey(r)
    /\ UNCHANGED <<battle, lease, runtime, ratings, idem, newest, coreVars, faults>>

\* abandonIdempotentRequest deletes the request's own row; the client gets an error.
AbandonIdempotentRequest(r) ==
    /\ route[r] = "failed"
    /\ idem' = IF OwnsRow(r) THEN [idem EXCEPT ![key[r]] = NoRow] ELSE idem
    /\ route' = [route EXCEPT ![r] = "idle"]
    /\ ForgetKey(r)
    /\ UNCHANGED <<battle, lease, runtime, ratings, newest, answered, coreVars, faults>>

\* A core that nobody waits for any more comes to its end.
EndOrphan(r) ==
    /\ route[r] # "waiting"
    /\ core[r] \in {"done", "threw"}
    /\ core' = [core EXCEPT ![r] = "idle"]
    /\ token' = [token EXCEPT ![r] = 0]
    /\ key' = [key EXCEPT ![r] = IF route[r] = "idle" THEN 0 ELSE @]
    /\ UNCHANGED <<battle, lease, runtime, ratings, idem, newest, answered, route, seen,
                   outcome, faults>>
-----------------------------------------------------------------------------
(* The core: reading the battle.                                           *)

\* Mutant: the last operation's id is not compared.
NeverReplays(r) == FALSE

\* The battle's last operation is this one and it is completed.
IsReplay(r) == battle.done /\ battle.op = key[r]

\* The core of schemas 5 and 6 reads the battle again when its boundary is prepared.
Rereads == World \in {"awareness", "unified"}

\* The request is about to read the battle.
Reads(r) == core[r] = "leased" \/ (Rereads /\ core[r] = "prepared")

\* The advancement ends with a view of the battle and no change: the operation is
\* already completed, or a reserved-turn battle is over.
ReplayAdvance(r) ==
    /\ Reads(r)
    /\ battle.status # "deleted"
    /\ \/ IsReplay(r)
       \/ World = "reserved" /\ battle.status # "active"
    /\ Return(r, "done")
    /\ UNCHANGED <<battle, lease, runtime, ratings, routeVars, faults>>

\* BATTLE_NOT_FOUND or BATTLE_FINISHED.
RefuseAdvance(r) ==
    /\ Reads(r)
    /\ \/ battle.status = "deleted"
       \/ ~IsReplay(r) /\ World # "reserved" /\ battle.status # "active"
    /\ Return(r, "threw")
    /\ UNCHANGED <<battle, lease, runtime, ratings, routeVars, faults>>

\* The battle is read, and the operation started or, if it is another request's
\* unfinished one, adopted (adoptOrphanedAdvanceOperation).
LoadBattle(r) ==
    /\ Reads(r)
    /\ battle.status = "active"
    /\ ~IsReplay(r)
    /\ seen' = [seen EXCEPT ![r] = [battle EXCEPT !.op = key[r], !.done = FALSE]]
    /\ core' = [core EXCEPT ![r] = IF @ = "leased" THEN "loaded" ELSE "entered"]
    /\ UNCHANGED <<battle, lease, runtime, ratings, routeVars, token, outcome, faults>>
-----------------------------------------------------------------------------
(* The core of a legacy battle: checkpoints, ratings, canonical commit.    *)

\* saveBattle during a turn: the initiative drawn, a later decision taken or a bucket
\* played is saved at the revision the turn started from.  Each is a fresh draw or
\* model call, told apart by the request that made it.
SaveCheckpoint(r) ==
    LET next == [seen[r] EXCEPT !.decided = Append(@, r)] IN
    /\ core[r] = "loaded"
    /\ Len(seen[r].decided) < CheckpointsOf(seen[r])
    /\ CanWrite(r)
    /\ battle' = next
    /\ seen' = [seen EXCEPT ![r] = next]
    /\ UNCHANGED <<lease, runtime, ratings, routeVars, core, token, outcome, faults>>

\* BATTLE_REVISION_CONFLICT or BATTLE_NOT_FOUND.
CheckpointRefused(r) ==
    /\ core[r] = "loaded"
    /\ Len(seen[r].decided) < CheckpointsOf(seen[r])
    /\ ~CanWrite(r)
    /\ Return(r, "threw")
    /\ UNCHANGED <<battle, lease, runtime, ratings, routeVars, faults>>

\* The rest of the phase is played in memory.
PlayPhase(r) ==
    /\ core[r] = IF Rereads THEN "entered" ELSE IF Bound THEN "prepared" ELSE "loaded"
    /\ Len(seen[r].decided) >= CheckpointsOf(seen[r])
    /\ \E o \in Outcomes(seen[r]) : outcome' = [outcome EXCEPT ![r] = o]
    /\ core' = [core EXCEPT ![r] = "played"]
    /\ UNCHANGED <<battle, lease, runtime, ratings, routeVars, token, seen, faults>>

\* The battle that is about to be saved is finished.
Finishes(r) == outcome[r].phase = "over"

\* settleBattleRating outside a transaction: each side's record in a transaction of
\* its own, and neither looks at the lease.  `ratingSettlement.applied' is set in
\* the local state only.
SettleLegacyRating(r) ==
    /\ ~Bound
    /\ Finishes(r)
    /\ \/ /\ core[r] = "played"
          /\ ratings' = [ratings EXCEPT !["a"] = @ + 1]
          /\ core' = [core EXCEPT ![r] = "half settled"]
       \/ /\ core[r] = "half settled"
          /\ ratings' = [ratings EXCEPT !["b"] = @ + 1]
          /\ core' = [core EXCEPT ![r] = "settled"]
    /\ UNCHANGED <<battle, lease, runtime, routeVars, token, seen, outcome, faults>>

\* The phase is played, and settled if it ends the battle.
ReadyToSave(r) == core[r] = IF ~Bound /\ Finishes(r) THEN "settled" ELSE "played"

\* saveBattleWithNarrationOutbox: the canonical commit, which also enqueues the
\* narration of its receipts (module Narration).
SaveLegacyBoundary(r) ==
    /\ ~Bound
    /\ ReadyToSave(r)
    /\ CanWrite(r)
    /\ battle' = Completed(seen[r], outcome[r])
    /\ Return(r, "done")
    /\ UNCHANGED <<lease, runtime, ratings, routeVars, faults>>

LegacyBoundaryRefused(r) ==
    /\ ~Bound
    /\ ReadyToSave(r)
    /\ ~CanWrite(r)
    /\ Return(r, "threw")
    /\ UNCHANGED <<battle, lease, runtime, ratings, routeVars, faults>>
-----------------------------------------------------------------------------
(* The core of a bound battle: prepared decisions, one world commit.       *)

\* The sidecar is at the boundary the request read.
AtBoundary(r) == runtime.status = "active" /\ runtime.turn = seen[r].revision

\* The model calls of the turn, whose answers are kept in the sidecar row by fenced
\* updates (mutateReservedRuntime, mutateUnifiedRuntime, mutateAwarenessRuntime).
PrepareBoundary(r) ==
    /\ Bound
    /\ core[r] = "loaded"
    /\ AtBoundary(r)
    /\ CanWriteRuntime(r)
    /\ runtime' = [runtime EXCEPT !.token = token[r]]
    /\ core' = [core EXCEPT ![r] = "prepared"]
    /\ UNCHANGED <<battle, lease, ratings, routeVars, token, seen, outcome, faults>>

\* A fenced update that finds no row.  Schemas 6 and 7 let the error through; on
\* schema 5 it is a failure of the boundary like any other.  (Where schema 6 takes
\* a conflict for a failure, the fence refuses the stop as it refused the commit.)
Conflict(r) == Return(r, IF World = "awareness" THEN "stopping" ELSE "threw")

PrepareRefused(r) ==
    /\ Bound
    /\ core[r] = "loaded"
    /\ AtBoundary(r)
    /\ ~CanWriteRuntime(r)
    /\ Conflict(r)
    /\ UNCHANGED <<battle, lease, runtime, ratings, routeVars, faults>>

\* The battle is to be stopped.
Fail(r) ==
    /\ core' = [core EXCEPT ![r] = "stopping"]
    /\ outcome' = [outcome EXCEPT ![r] = NoOutcome]
    /\ UNCHANGED <<battle, lease, runtime, ratings, routeVars, token, seen>>

\* The sidecar is not at the boundary the request read, which on schema 7 is an error
\* and no failure of the turn (RESERVED_TURN_RUNTIME_CONFLICT).
MissBoundary(r) ==
    /\ Bound
    /\ core[r] = "loaded"
    /\ ~AtBoundary(r)
    /\ \/ World # "reserved" /\ Fail(r)
       \/ /\ World = "reserved"
          /\ Return(r, "threw")
          /\ UNCHANGED <<battle, lease, runtime, ratings, routeVars>>
    /\ UNCHANGED faults

\* A required model call fails or a deadline passes.
FailProvider(r) ==
    /\ Bound
    /\ "provider" \in Faults
    /\ faults < MaxFaults
    /\ faults' = faults + 1
    /\ core[r] \in {"loaded", "prepared", "entered", "played"}
    /\ Fail(r)

\* Mutant: the world commit compares the battle's revision alone.
CommitsWorldUnfenced(r) == RevisionMatches(r)

\* commitAwarenessWorld, commitUnifiedWorld and the `save' of a reserved turn: the
\* conditions of every statement of the one transaction.
CommitsWorld(r) == CanWriteRuntime(r) /\ CanWrite(r) /\ AtBoundary(r)

\* Mutant: every commit is settled, whether or not it ends the battle.
SettledEveryTurn(r) == [s \in Side |-> ratings[s] + 1]

\* settleBattleRatingInTransaction.
SettledRatings(r) ==
    IF Finishes(r) /\ ~seen[r].settled THEN [s \in Side |-> ratings[s] + 1] ELSE ratings

\* Mutant: the sidecar of a finished battle stays active.
RuntimeKeptActive(r) ==
    [token |-> token[r], status |-> "active",
     turn |-> seen[r].revision + outcome[r].receipts]

\* The sidecar after the commit.
CommittedRuntime(r) ==
    [ token |-> token[r],
      status |-> IF Finishes(r) THEN "terminal" ELSE "active",
      turn |-> seen[r].revision + outcome[r].receipts ]

\* Ratings, sidecar, battle and narration are committed together.
CommitWorld(r) ==
    /\ Bound
    /\ core[r] = "played"
    /\ CommitsWorld(r)
    /\ ratings' = SettledRatings(r)
    /\ battle' = Completed(seen[r], outcome[r])
    /\ runtime' = CommittedRuntime(r)
    /\ Return(r, "done")
    /\ UNCHANGED <<lease, routeVars, faults>>

CommitWorldRefused(r) ==
    /\ Bound
    /\ core[r] = "played"
    /\ ~CommitsWorld(r)
    /\ Conflict(r)
    /\ UNCHANGED <<battle, lease, runtime, ratings, routeVars, faults>>

\* stopAwarenessBattleRuntime, a transaction of its own on schema 5.
StopRuntime(r) ==
    /\ World = "awareness"
    /\ core[r] = "stopping"
    /\ battle.status = "active"
    /\ CanWriteRuntime(r)
    /\ runtime' = [runtime EXCEPT !.token = token[r], !.status = "incomplete"]
    /\ seen' = [seen EXCEPT ![r] = battle]
    /\ core' = [core EXCEPT ![r] = "stopped"]
    /\ UNCHANGED <<battle, lease, ratings, routeVars, token, outcome, faults>>

\* The revision the incomplete battle is saved at: schema 6 reads it again.
StopsAtRevision(r) == World = "unified" \/ battle.revision = seen[r].revision

\* The battle ends `incomplete', with the facts it last committed.
StopBattle(r) ==
    /\ core[r] = IF World = "awareness" THEN "stopped" ELSE "stopping"
    /\ battle.status = "active"
    /\ StopsAtRevision(r)
    /\ CanWriteRuntime(r)
    /\ battle' = [battle EXCEPT !.status = "incomplete"]
    /\ runtime' = [runtime EXCEPT !.token = token[r], !.status = "incomplete"]
    /\ Return(r, "done")
    /\ UNCHANGED <<lease, ratings, routeVars, faults>>

\* The battle is over already, or the fence refuses: the error goes to the route.
StopRefused(r) ==
    /\ core[r] \in {"stopping", "stopped"}
    /\ \/ battle.status # "active"
       \/ ~CanWriteRuntime(r)
       \/ ~StopsAtRevision(r) /\ ~(World = "awareness" /\ core[r] = "stopping")
    /\ Return(r, "threw")
    /\ UNCHANGED <<battle, lease, runtime, ratings, routeVars, faults>>
-----------------------------------------------------------------------------
(* The environment.                                                        *)

\* No process of request r holds the lease any more.
LeaseUnattended == \A r \in Requests : core[r] = "idle" \/ ~Fenced(r)

\* expires_at passes.  Without stalls the heartbeat of a living process prevents it.
LeaseExpires ==
    /\ lease.token # 0
    /\ lease.live
    /\ \/ LeaseUnattended /\ UNCHANGED faults
       \/ /\ "stall" \in Faults
          /\ faults < MaxFaults
          /\ faults' = faults + 1
    /\ lease' = [lease EXCEPT !.live = FALSE]
    /\ UNCHANGED <<battle, runtime, ratings, routeVars, coreVars>>

\* Ten minutes after it began, a row being processed may be taken over; nothing
\* renews it, however long the advancement takes.
IdempotencyRowExpires(k) ==
    /\ idem[k].status = "processing"
    /\ idem[k].live
    /\ \A r \in Requests : key[r] = k /\ route[r] # "idle" =>
          "slow" \in Faults /\ route[r] # "begun"
    /\ idem' = [idem EXCEPT ![k].live = FALSE]
    /\ UNCHANGED <<battle, lease, runtime, ratings, newest, answered, route, key, coreVars,
                   faults>>

\* The process of a request dies.
CrashRequest(r) ==
    /\ "crash" \in Faults
    /\ faults < MaxFaults
    /\ faults' = faults + 1
    /\ route[r] # "idle" \/ core[r] # "idle"
    /\ route' = [route EXCEPT ![r] = "idle"]
    /\ key' = [key EXCEPT ![r] = 0]
    /\ core' = [core EXCEPT ![r] = "idle"]
    /\ token' = [token EXCEPT ![r] = 0]
    /\ seen' = [seen EXCEPT ![r] = NothingSeen]
    /\ outcome' = [outcome EXCEPT ![r] = NoOutcome]
    /\ UNCHANGED <<battle, lease, runtime, ratings, idem, newest, answered>>

\* deleteBattle; the lease and the sidecar cascade.
DeleteBattle ==
    /\ "delete" \in Faults
    /\ faults < MaxFaults
    /\ faults' = faults + 1
    /\ battle.status # "deleted"
    /\ battle' = [battle EXCEPT !.status = "deleted"]
    /\ lease' = NoLease
    /\ UNCHANGED <<runtime, ratings, routeVars, coreVars>>

\* The last key is answered, or the battle is over, and nothing is going on.
Finished ==
    /\ Keys \in answered \/ battle.status # "active"
    /\ \A r \in Requests : route[r] = "idle" /\ core[r] = "idle"
    /\ UNCHANGED vars

RouteStep(r) ==
    \/ AcquireBattleLease(r) \/ AcquireRefused(r)
    \/ ReleaseBattleLease(r)
    \/ CompleteIdempotentRequest(r) \/ LoseIdempotencyOwnership(r)
    \/ AnswerAdvance(r) \/ AbandonIdempotentRequest(r)

CoreStep(r) ==
    \/ ReplayAdvance(r) \/ RefuseAdvance(r) \/ LoadBattle(r)
    \/ SaveCheckpoint(r) \/ CheckpointRefused(r)
    \/ PlayPhase(r)
    \/ SettleLegacyRating(r) \/ SaveLegacyBoundary(r) \/ LegacyBoundaryRefused(r)
    \/ PrepareBoundary(r) \/ PrepareRefused(r) \/ MissBoundary(r)
    \/ CommitWorld(r) \/ CommitWorldRefused(r)
    \/ StopRuntime(r) \/ StopBattle(r) \/ StopRefused(r)
    \/ EndOrphan(r)

Next ==
    \/ \E r \in Requests, k \in Key : BeginIdempotentRequest(r, k)
    \/ \E k \in Key : ReplayResponse(k) \/ IdempotencyRowExpires(k)
    \/ \E r \in Requests :
          RouteStep(r) \/ CoreStep(r) \/ FailProvider(r) \/ LoseBattleLease(r)
             \/ CrashRequest(r)
    \/ LeaseExpires
    \/ DeleteBattle
    \/ Finished

Spec == Init /\ [][Next]_vars

\* The client retries a key it has no answer to (BattlePage.tsx keeps its key until
\* then), a process that does not die goes on, and time passes.
Fairness ==
    /\ \A k \in Key :
          /\ WF_vars(\E r \in Requests : BeginIdempotentRequest(r, k))
          /\ WF_vars(ReplayResponse(k))
          /\ WF_vars(IdempotencyRowExpires(k))
    /\ \A r \in Requests :
          /\ WF_vars(RouteStep(r))
          /\ WF_vars(CoreStep(r))
    /\ WF_vars(LeaseExpires)

FairSpec == Spec /\ Fairness
-----------------------------------------------------------------------------
Statuses == {"active", "finished", "incomplete", "deleted"}
Phases == {"prologue", "combat", "aftermath", "over"}

\* What a commit leaves behind: its operation and the decisions it was made from.
Commit == [op : Key, decided : Seq(Requests)]

BattleRow ==
    [ world : WorldKinds, revision : Nat, status : Statuses, phase : Phases, op : 0..Keys, done : BOOLEAN,
      decided : Seq(Requests), commits : Seq(Commit), settled : BOOLEAN ]

RowTypeOK ==
    /\ battle \in BattleRow
    /\ lease \in [owner : Requests, token : 1..MaxToken, live : BOOLEAN] \cup {NoLease}
    /\ runtime \in [token : 0..MaxToken + 1, status : {"active", "incomplete", "terminal"},
                    turn : Nat]
    /\ ratings \in [Side -> Nat]
    /\ idem \in [Key -> [status : {"absent", "processing", "completed"},
                         owner : Requests \cup {Nobody}, live : BOOLEAN]]

RouteTypeOK ==
    /\ newest \in 0..Keys
    /\ answered \subseteq Key
    /\ route \in [Requests -> {"idle", "begun", "waiting", "lost", "returned", "failed",
                               "answering"}]
    /\ key \in [Requests -> 0..Keys]

CoreTypeOK ==
    /\ core \in [Requests -> {"idle", "leased", "loaded", "prepared", "entered",
                              "played", "half settled", "settled", "stopping", "stopped", "done",
                              "threw"}]
    /\ token \in [Requests -> 0..MaxToken]
    /\ seen \in [Requests -> BattleRow]
    /\ outcome \in [Requests -> [phase : Phases \cup {"none"}, receipts : 0..2]]

\* The rows and the locals of the requests are well formed.
TypeOK == RowTypeOK /\ RouteTypeOK /\ CoreTypeOK /\ faults \in 0..MaxFaults

\* What a checkpoint has decided is never decided again: while the revision stands,
\* the decisions saved in the battle only grow, and the commit that advances it is
\* made from all of them.  The lease alone protects them, since every checkpoint of
\* a turn is saved at one revision (docs/adr/0006:76-78).
DecisionsStand ==
    [][LET kept == IF battle'.revision = battle.revision THEN battle'.decided
                   ELSE battle'.commits[Len(battle'.commits)].decided
       IN /\ Len(battle.decided) <= Len(kept)
          /\ \A i \in 1..Len(battle.decided) : kept[i] = battle.decided[i]]_vars

\* One operation, one commit: whatever is retried, replayed, taken over or left
\* behind by a lost lease, no operation's receipts are committed twice
\* (battle-service.ts:4959-4970, docs/battle-narration-stream-design.md:301-302).
OperationOnce ==
    \A i, j \in 1..Len(battle.commits) :
        battle.commits[i].op = battle.commits[j].op => i = j

\* A key whose row is completed was carried out, or the battle had ended: a client
\* that is told `done' has its turn (routes.ts:2830-2867).
CompletedKeyCommitted ==
    \A k \in Key :
        idem[k].status = "completed" /\ battle.status = "active" =>
            \E i \in 1..Len(battle.commits) : battle.commits[i].op = k

\* Ratings and the battle never part: the finished battle, and only it, is counted
\* once in each side's record (rating-service.ts:113-124).
RatedOnce ==
    Bound => \A s \in Side : ratings[s] = (IF battle.settled THEN 1 ELSE 0)

\* A battle that has ended stays ended: a stop leaves the revision where it was, so
\* that only the fence and the sidecar keep an advancement left behind by a lost lease
\* from playing on a battle its successor declared incomplete
\* (reserved-turn-battle.ts:77-91, unified-consciousness-world.ts:9-37).
EndedStaysEnded ==
    [][battle.status # "active" => battle'.status \in {battle.status, "deleted"}]_vars

\* The sidecar and the canonical battle advance together, and an incomplete battle
\* never has an active sidecar that could be prepared again.  (The stop of schema 5
\* is two transactions: its sidecar may be incomplete before its battle is.)
SidecarFollowsBattle ==
    Bound /\ battle.status # "deleted" =>
        /\ runtime.turn = battle.revision
        /\ battle.status = "finished" <=> runtime.status = "terminal"
        /\ battle.status = "incomplete" => runtime.status = "incomplete"
        /\ World # "awareness" /\ runtime.status = "incomplete" =>
              battle.status = "incomplete"

\* The holder of the live lease is never refused for its token: lease takeovers give
\* tokens that only grow (docs/adr/0006:76-78, `monotonic fencing token').
HolderIsNewest ==
    \A r \in Requests : core[r] # "idle" /\ Fenced(r) => token[r] >= runtime.token

\* An advance that is retried ends: its key is answered, a later key was used, or
\* the battle is over.  A bound battle whose sidecar has recorded the token of a
\* takeover is left out: it is stuck (HolderIsNewest).
AdvanceEnds ==
    \A k \in Key :
        newest = k ~> \/ k \in answered \/ newest > k
                      \/ battle.status # "active"
                      \/ Bound /\ runtime.token > 1
=============================================================================
