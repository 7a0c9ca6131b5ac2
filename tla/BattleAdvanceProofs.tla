-------------------------- MODULE BattleAdvanceProofs --------------------------
(* Theorems about BattleAdvance for any requests, keys, faults, checkpoints and *)
(* turns.                                                                      *)
EXTENDS BattleAdvance, SequenceTheorems, TLAPS

-----------------------------------------------------------------------------
(* The inductive invariant.                                                  *)

Working == {"loaded", "prepared", "entered", "played", "half settled", "settled"}
Played == {"played", "half settled", "settled"}

Uncommitted(k) == \A i \in 1..Len(battle.commits) : battle.commits[i].op # k

\* What the holder of the lease has read is what the battle still is, and its
\* operation is not committed.
Sees(r) ==
    /\ seen[r].world = battle.world
    /\ seen[r].revision = battle.revision
    /\ seen[r].phase = battle.phase
    /\ seen[r].decided = battle.decided
    /\ seen[r].commits = battle.commits
    /\ seen[r].settled = battle.settled
    /\ battle.status = "active"
    /\ ~IsReplay(r)

\* Where a request is, and what it knows of the battle.
LocalOK(r) ==
    /\ route[r] # "idle" \/ core[r] # "idle" => key[r] \in Key
    /\ route[r] = "begun" => core[r] = "idle"
    /\ core[r] \in Working =>
          seen[r].op = key[r] /\ seen[r].status = "active" /\ ~seen[r].done
    /\ core[r] \in Played => outcome[r].phase \in Phases /\ outcome[r].receipts \in 1..2
    /\ Fenced(r) => route[r] \in {"waiting", "lost"} /\ core[r] # "idle"
    /\ Fenced(r) /\ core[r] \in Working => Sees(r)
    /\ core[r] = "done" \/ route[r] \in {"returned", "answering"} =>
          battle.status # "active" \/ ~Uncommitted(key[r])

LocalsOK == \A r \in Requests : LocalOK(r)

BattleOK ==
    /\ battle.done /\ battle.op # 0 => ~Uncommitted(battle.op)
    /\ battle.status = "active" => ~battle.settled
    /\ RatedOnce
    /\ SidecarFollowsBattle
    /\ CompletedKeyCommitted

\* Who owns the idempotency row of a key, against who holds the lease for it.
RowOK(r) ==
    /\ route[r] = "begun" => OwnsRow(r) /\ idem[key[r]].live
    /\ route[r] = "answering" => idem[key[r]].status = "completed"
    /\ route[r] \in {"waiting", "lost", "returned"} /\ OwnsRow(r) =>
          \A q \in Requests \ {r} : key[q] = key[r] => ~Fenced(q)
    /\ Fenced(r) => idem[key[r]].status # "completed"

RowsOK ==
    /\ \A k \in answered : idem[k].status = "completed"
    /\ \A r \in Requests : RowOK(r)

\* Clients that do not overlap: the lease is held for the newest key.
OnceOK ==
    /\ \A r \in Requests : route[r] = "begun" \/ Fenced(r) => key[r] = newest
    /\ \A i \in 1..Len(battle.commits) : battle.commits[i].op <= newest
    /\ newest # 0 => Uncommitted(newest) \/ (battle.done /\ battle.op = newest)
    /\ OperationOnce

AdvanceInv == TypeOK /\ LocalsOK /\ BattleOK /\ RowsOK

-----------------------------------------------------------------------------
(* Type correctness.                                                         *)

RouteValue == {"idle", "begun", "waiting", "lost", "returned", "failed", "answering"}
CoreValue == {"idle", "leased", "loaded", "prepared", "entered", "played", "half settled",
              "settled", "stopping", "stopped", "done", "threw"}
OutcomeRow == [phase : Phases \cup {"none"}, receipts : 0..2]
IdemRow == [status : {"absent", "processing", "completed"}, owner : Requests \cup {Nobody},
            live : BOOLEAN]
LeaseRow == [owner : Requests, token : 1..MaxToken, live : BOOLEAN] \cup {NoLease}
RuntimeRow == [token : 0..MaxToken + 1, status : {"active", "incomplete", "terminal"},
               turn : Nat]

\* The battle rows the requests make of those they read.
LEMMA NewRow == ASSUME NEW w \in WorldKinds PROVE NewBattle(w) \in BattleRow
<1>1. <<>> \in Seq(Requests) /\ <<>> \in Seq(Commit)
    BY EmptySeq
<1> QED
    BY <1>1, AdvanceAssumption DEF NewBattle, BattleRow, Statuses, Phases

LEMMA ReadRow ==
    ASSUME NEW b \in BattleRow, NEW k \in Key
    PROVE  [b EXCEPT !.op = k, !.done = FALSE] \in BattleRow
<1>1. k \in 0..Keys
    BY AdvanceAssumption DEF Key
<1> QED
    BY <1>1 DEF BattleRow

LEMMA CheckpointRow ==
    ASSUME NEW b \in BattleRow, NEW r \in Requests
    PROVE  /\ [b EXCEPT !.decided = Append(@, r)] \in BattleRow
           /\ Len(Append(b.decided, r)) = Len(b.decided) + 1
           /\ \A i \in 1..Len(b.decided) : Append(b.decided, r)[i] = b.decided[i]
<1>1. b.decided \in Seq(Requests)
    BY DEF BattleRow
<1>2. /\ Append(b.decided, r) \in Seq(Requests)
      /\ Len(Append(b.decided, r)) = Len(b.decided) + 1
      /\ \A i \in 1..Len(b.decided) : Append(b.decided, r)[i] = b.decided[i]
    BY <1>1, AppendProperties
<1> QED
    BY <1>2 DEF BattleRow

LEMMA CompletedRow ==
    ASSUME NEW s \in BattleRow, s.op \in Key,
           NEW o \in OutcomeRow, o.phase \in Phases
    PROVE  LET c == Completed(s, o)
               n == Len(s.commits)
           IN  /\ c \in BattleRow
               /\ c.world = s.world /\ c.op = s.op
               /\ c.revision = s.revision + o.receipts
               /\ c.phase = o.phase
               /\ c.status = IF o.phase = "over" THEN "finished" ELSE s.status
               /\ c.done = TRUE
               /\ c.settled = (o.phase = "over")
               /\ n \in Nat /\ Len(c.commits) = n + 1
               /\ \A i \in 1..n : c.commits[i] = s.commits[i]
               /\ c.commits[n + 1].op = s.op /\ c.commits[n + 1].decided = s.decided
<1> DEFINE m == [op |-> s.op, decided |-> s.decided]
           cs == Append(s.commits, m)
<1>1. s.commits \in Seq(Commit) /\ m \in Commit
    BY DEF BattleRow, Commit
<1>2. /\ cs \in Seq(Commit) /\ Len(s.commits) \in Nat /\ Len(cs) = Len(s.commits) + 1
      /\ \A i \in 1..Len(s.commits) : cs[i] = s.commits[i]
      /\ cs[Len(s.commits) + 1] = m
    BY <1>1, AppendProperties, LenProperties
<1>3. m.op = s.op /\ m.decided = s.decided
    OBVIOUS
<1>4. <<>> \in Seq(Requests) /\ (o.phase = "over") \in BOOLEAN
    BY EmptySeq
<1>5. s.revision + o.receipts \in Nat
    BY DEF BattleRow, OutcomeRow
<1> HIDE DEF m, cs
<1>6. Completed(s, o) =
         [s EXCEPT !.revision = s.revision + o.receipts, !.phase = o.phase,
                   !.status = IF o.phase = "over" THEN "finished" ELSE s.status,
                   !.done = TRUE, !.commits = cs, !.decided = <<>>,
                   !.settled = (o.phase = "over")]
    BY DEF Completed, cs, m
<1>7. (IF o.phase = "over" THEN "finished" ELSE s.status) \in Statuses
    BY DEF BattleRow, Statuses
<1>8. Completed(s, o) \in BattleRow
    BY <1>2, <1>4, <1>5, <1>6, <1>7 DEF BattleRow
<1> QED
    BY <1>2, <1>3, <1>6, <1>8 DEF BattleRow

LEMMA OutcomesType ==
    ASSUME NEW s, NEW o \in Outcomes(s)
    PROVE  o \in OutcomeRow /\ o.phase \in Phases /\ o.receipts \in 1..2
BY DEF Outcomes, OutcomeRow, Phases

\* The variables as functions, for the steps that update them.
LEMMA Domains ==
    ASSUME TypeOK
    PROVE  /\ route \in [Requests -> RouteValue] /\ key \in [Requests -> 0..Keys]
           /\ core \in [Requests -> CoreValue] /\ token \in [Requests -> 0..MaxToken]
           /\ seen \in [Requests -> BattleRow] /\ outcome \in [Requests -> OutcomeRow]
           /\ idem \in [Key -> IdemRow] /\ lease \in LeaseRow /\ runtime \in RuntimeRow
           /\ battle \in BattleRow /\ ratings \in [Side -> Nat]
BY DEF TypeOK, RowTypeOK, RouteTypeOK, CoreTypeOK, RouteValue, CoreValue, OutcomeRow, IdemRow,
       LeaseRow, RuntimeRow

LEMMA TypeInit == Init => TypeOK
<1> SUFFICES ASSUME Init PROVE TypeOK
    OBVIOUS
<1>1. battle \in BattleRow /\ NothingSeen \in BattleRow
    BY NewRow, AdvanceAssumption DEF Init, NothingSeen, WorldKinds
<1>2. RowTypeOK
    BY <1>1, AdvanceAssumption DEF Init, RowTypeOK, NoRow, NoLease
<1>3. RouteTypeOK
    BY AdvanceAssumption DEF Init, RouteTypeOK
<1>4. CoreTypeOK
    BY <1>1, AdvanceAssumption DEF Init, CoreTypeOK, NoOutcome
<1> QED
    BY <1>2, <1>3, <1>4, AdvanceAssumption DEF TypeOK, Init

-----------------------------------------------------------------------------
(* The kinds of step.                                                        *)

\* A step of a request that leaves the battle, the sidecar and the ratings alone.
RouteAction(r) ==
    \/ (\E k \in Key : BeginIdempotentRequest(r, k))
    \/ RouteStep(r) \/ LoseBattleLease(r) \/ EndOrphan(r) \/ CrashRequest(r)

\* A step of a core that writes neither the battle nor the ratings.
CoreReads(r) ==
    \/ ReplayAdvance(r) \/ RefuseAdvance(r) \/ LoadBattle(r)
    \/ CheckpointRefused(r) \/ PlayPhase(r) \/ LegacyBoundaryRefused(r)
    \/ PrepareBoundary(r) \/ PrepareRefused(r) \/ MissBoundary(r) \/ FailProvider(r)
    \/ CommitWorldRefused(r) \/ StopRuntime(r) \/ StopRefused(r)

\* A step of a core that writes the battle.
CoreWrites(r) ==
    SaveCheckpoint(r) \/ SaveLegacyBoundary(r) \/ CommitWorld(r) \/ StopBattle(r)

CoreAction(r) == CoreReads(r) \/ SettleLegacyRating(r) \/ CoreWrites(r)

\* Clients and time.
Environment ==
    \/ \E k \in Key : ReplayResponse(k) \/ IdempotencyRowExpires(k)
    \/ LeaseExpires \/ DeleteBattle \/ Finished

LEMMA Steps ==
    ASSUME Next
    PROVE  (\E r \in Requests : RouteAction(r) \/ CoreAction(r)) \/ Environment
BY DEF Next, CoreStep, RouteAction, CoreReads, CoreWrites, CoreAction, Environment

LEMMA CoreFrame ==
    ASSUME NEW r \in Requests, CoreAction(r)
    PROVE  UNCHANGED <<lease, routeVars, token>>
BY DEF CoreAction, CoreReads, CoreWrites, ReplayAdvance, RefuseAdvance, LoadBattle,
       CheckpointRefused, PlayPhase, LegacyBoundaryRefused, PrepareBoundary, PrepareRefused,
       MissBoundary, FailProvider, CommitWorldRefused, StopRuntime, StopRefused,
       SettleLegacyRating, SaveCheckpoint, SaveLegacyBoundary, CommitWorld, StopBattle,
       Return, Fail, Conflict, routeVars

LEMMA RouteFrame ==
    ASSUME NEW r \in Requests, RouteAction(r)
    PROVE  UNCHANGED <<battle, runtime, ratings>>
BY DEF RouteAction, RouteStep, BeginIdempotentRequest, AcquireBattleLease, AcquireRefused,
       ReleaseBattleLease, CompleteIdempotentRequest, LoseIdempotencyOwnership, AnswerAdvance,
       AbandonIdempotentRequest, LoseBattleLease, EndOrphan, CrashRequest

LEMMA RouteType ==
    ASSUME TypeOK, LocalsOK, NEW r \in Requests, RouteAction(r) PROVE TypeOK'
<1>0. UNCHANGED <<battle, runtime, ratings>>
    BY RouteFrame
<1>1. /\ route' \in [Requests -> RouteValue] /\ key' \in [Requests -> 0..Keys]
      /\ newest' \in 0..Keys
    <2>1. Key \subseteq 0..Keys /\ 0 \in 0..Keys /\ newest \in 0..Keys
        BY AdvanceAssumption DEF Key, TypeOK, RouteTypeOK
    <2>2. route' \in [Requests -> RouteValue]
        BY Domains
        DEF RouteAction, RouteStep, BeginIdempotentRequest, AcquireBattleLease, AcquireRefused,
            ReleaseBattleLease, CompleteIdempotentRequest, LoseIdempotencyOwnership,
            AnswerAdvance, AbandonIdempotentRequest, LoseBattleLease, EndOrphan, CrashRequest, RouteValue
    <2>3. key' \in [Requests -> 0..Keys] /\ newest' \in 0..Keys
        BY <2>1, Domains
        DEF RouteAction, RouteStep, BeginIdempotentRequest, AcquireBattleLease, AcquireRefused,
            ReleaseBattleLease, CompleteIdempotentRequest, LoseIdempotencyOwnership,
            AnswerAdvance, AbandonIdempotentRequest, LoseBattleLease, EndOrphan, CrashRequest, ForgetKey
    <2> QED
        BY <2>2, <2>3
<1>2. answered' \subseteq Key
    <2>1. route[r] # "idle" => key[r] \in Key
        BY DEF LocalsOK, LocalOK
    <2> QED
        BY <2>1
        DEF RouteAction, RouteStep, BeginIdempotentRequest, AcquireBattleLease, AcquireRefused,
            ReleaseBattleLease, CompleteIdempotentRequest, LoseIdempotencyOwnership,
            AnswerAdvance, AbandonIdempotentRequest, LoseBattleLease, EndOrphan, CrashRequest,
            TypeOK, RouteTypeOK
<1>3. idem' \in [Key -> IdemRow]
    <2>1. CASE \E k \in Key : BeginIdempotentRequest(r, k)
        BY <2>1, Domains DEF BeginIdempotentRequest, IdemRow
    <2>2. CASE CompleteIdempotentRequest(r)
        BY <2>2, Domains DEF CompleteIdempotentRequest, IdemRow
    <2>3. CASE AbandonIdempotentRequest(r)
        <3>1. NoRow \in IdemRow
            BY DEF NoRow, IdemRow
        <3> QED
            BY <2>3, <3>1, Domains DEF AbandonIdempotentRequest
    <2> QED
        BY <2>1, <2>2, <2>3, Domains
        DEF RouteAction, RouteStep, AcquireBattleLease, AcquireRefused, ReleaseBattleLease,
            LoseIdempotencyOwnership, AnswerAdvance, LoseBattleLease, EndOrphan, CrashRequest
<1>4. lease' \in LeaseRow /\ token' \in [Requests -> 0..MaxToken]
    <2>1. lease.token \in 0..MaxToken
        BY Domains, AdvanceAssumption DEF LeaseRow, NoLease
    <2>2. CASE AcquireBattleLease(r)
        <3>1. lease.token + 1 \in 1..MaxToken
            BY <2>1, <2>2, AdvanceAssumption DEF AcquireBattleLease
        <3> QED
            BY <2>2, <3>1, Domains DEF AcquireBattleLease, LeaseRow
    <2>3. CASE ~AcquireBattleLease(r)
        BY <2>3, Domains, AdvanceAssumption
        DEF RouteAction, RouteStep, BeginIdempotentRequest, AcquireRefused, ReleaseBattleLease,
            CompleteIdempotentRequest, LoseIdempotencyOwnership, AnswerAdvance,
            AbandonIdempotentRequest, LoseBattleLease, EndOrphan, CrashRequest, Released,
            LeaseRow, coreVars
    <2> QED
        BY <2>2, <2>3
<1>5. core' \in [Requests -> CoreValue]
    BY Domains
    DEF RouteAction, RouteStep, BeginIdempotentRequest, AcquireBattleLease, AcquireRefused,
        ReleaseBattleLease, CompleteIdempotentRequest, LoseIdempotencyOwnership, AnswerAdvance,
        AbandonIdempotentRequest, LoseBattleLease, EndOrphan, CrashRequest, CoreValue, coreVars
<1>6. seen' \in [Requests -> BattleRow] /\ outcome' \in [Requests -> OutcomeRow]
    <2>1. NothingSeen \in BattleRow /\ NoOutcome \in OutcomeRow
        BY NewRow DEF NothingSeen, NoOutcome, OutcomeRow, WorldKinds
    <2> QED
        BY <2>1, Domains
        DEF RouteAction, RouteStep, BeginIdempotentRequest, AcquireBattleLease, AcquireRefused,
            ReleaseBattleLease, CompleteIdempotentRequest, LoseIdempotencyOwnership,
            AnswerAdvance, AbandonIdempotentRequest, LoseBattleLease, EndOrphan, CrashRequest,
            coreVars
<1>7. faults' \in 0..MaxFaults
    BY AdvanceAssumption
    DEF RouteAction, RouteStep, BeginIdempotentRequest, AcquireBattleLease, AcquireRefused,
        ReleaseBattleLease, CompleteIdempotentRequest, LoseIdempotencyOwnership, AnswerAdvance,
        AbandonIdempotentRequest, LoseBattleLease, EndOrphan, CrashRequest, TypeOK
<1> QED
    BY <1>0, <1>1, <1>2, <1>3, <1>4, <1>5, <1>6, <1>7
    DEF TypeOK, RowTypeOK, RouteTypeOK, CoreTypeOK, RouteValue, CoreValue, OutcomeRow, IdemRow,
        LeaseRow

\* What a core that writes neither the battle nor the ratings does to its locals.
Loads(r) ==
    /\ Reads(r) /\ battle.status = "active" /\ ~IsReplay(r)
    /\ seen'[r] = [battle EXCEPT !.op = key[r], !.done = FALSE]
    /\ core'[r] \in {"loaded", "entered"} /\ outcome'[r] = outcome[r]

Plays(r) ==
    /\ core[r] \in {"loaded", "prepared", "entered"} /\ core'[r] = "played"
    /\ seen'[r] = seen[r]
    /\ \E o \in Outcomes(seen[r]) : outcome'[r] = o

Prepares(r) ==
    /\ core[r] = "loaded" /\ core'[r] = "prepared"
    /\ seen'[r] = seen[r] /\ outcome'[r] = outcome[r]

Leaves(r) ==
    /\ core[r] # "idle"
    /\ core'[r] \in {"threw", "stopping", "stopped"}
    /\ seen'[r] \in {NothingSeen, seen[r], battle}
    /\ outcome'[r] \in {NoOutcome, outcome[r]}

Replays(r) ==
    /\ core[r] # "idle"
    /\ IsReplay(r) \/ battle.status # "active"
    /\ core'[r] = "done" /\ seen'[r] = NothingSeen /\ outcome'[r] = NoOutcome

OthersKept(r) ==
    \A q \in Requests \ {r} :
        /\ route'[q] = route[q] /\ key'[q] = key[q] /\ core'[q] = core[q]
        /\ token'[q] = token[q] /\ seen'[q] = seen[q] /\ outcome'[q] = outcome[q]

\* What becomes of the sidecar: a later token, and on schema 5 a stop of its own.
RuntimeKept(r) ==
    \/ UNCHANGED runtime
    \/ /\ runtime'.token = token[r]
       /\ runtime'.turn = runtime.turn
       /\ \/ runtime'.status = runtime.status
          \/ runtime'.status = "incomplete" /\ World = "awareness" /\ battle.status = "active"
       /\ runtime' \in RuntimeRow

LEMMA CoreReadsFrame ==
    ASSUME TypeOK, NEW r \in Requests, CoreReads(r)
    PROVE  /\ UNCHANGED <<battle, ratings, lease, routeVars, token>>
           /\ faults' \in 0..MaxFaults
           /\ core' = [core EXCEPT ![r] = core'[r]]
           /\ seen' = [seen EXCEPT ![r] = seen'[r]]
           /\ outcome' = [outcome EXCEPT ![r] = outcome'[r]]
<1>1. UNCHANGED <<battle, ratings, lease, routeVars, token>>
    BY CoreFrame
    DEF CoreAction, CoreReads, ReplayAdvance, RefuseAdvance, LoadBattle,
        CheckpointRefused, PlayPhase, LegacyBoundaryRefused, PrepareBoundary, PrepareRefused,
        MissBoundary, FailProvider, CommitWorldRefused, StopRuntime, StopRefused, Fail
<1>2. faults' \in 0..MaxFaults
    BY AdvanceAssumption
    DEF TypeOK, CoreReads, ReplayAdvance, RefuseAdvance, LoadBattle,
        CheckpointRefused, PlayPhase, LegacyBoundaryRefused, PrepareBoundary, PrepareRefused,
        MissBoundary, FailProvider, CommitWorldRefused, StopRuntime, StopRefused
<1>3. core' = [core EXCEPT ![r] = core'[r]]
    BY Domains
    DEF CoreReads, ReplayAdvance, RefuseAdvance, LoadBattle, Return, Fail, Conflict,
        CheckpointRefused, PlayPhase, LegacyBoundaryRefused, PrepareBoundary, PrepareRefused,
        MissBoundary, FailProvider, CommitWorldRefused, StopRuntime, StopRefused
<1>4. seen' = [seen EXCEPT ![r] = seen'[r]]
    BY Domains
    DEF CoreReads, ReplayAdvance, RefuseAdvance, LoadBattle, Return, Fail, Conflict,
        CheckpointRefused, PlayPhase, LegacyBoundaryRefused, PrepareBoundary, PrepareRefused,
        MissBoundary, FailProvider, CommitWorldRefused, StopRuntime, StopRefused
<1>5. outcome' = [outcome EXCEPT ![r] = outcome'[r]]
    BY Domains
    DEF CoreReads, ReplayAdvance, RefuseAdvance, LoadBattle, Return, Fail, Conflict,
        CheckpointRefused, PlayPhase, LegacyBoundaryRefused, PrepareBoundary, PrepareRefused,
        MissBoundary, FailProvider, CommitWorldRefused, StopRuntime, StopRefused
<1> QED
    BY <1>1, <1>2, <1>3, <1>4, <1>5

LEMMA CoreReadsLocals ==
    ASSUME TypeOK, NEW r \in Requests, CoreReads(r)
    PROVE  /\ Loads(r) \/ Plays(r) \/ Prepares(r) \/ Leaves(r) \/ Replays(r)
           /\ RuntimeKept(r)
<1>1. ASSUME NEW how \in {"threw", "stopping"}, Return(r, how), core[r] # "idle"
      PROVE  Leaves(r)
    BY <1>1, Domains DEF Return, Leaves
<1>2. ASSUME Fail(r), core[r] # "idle" PROVE Leaves(r) /\ UNCHANGED runtime
    BY <1>2, Domains DEF Fail, Leaves
<1>3. CASE ReplayAdvance(r)
    BY <1>3, Domains DEF ReplayAdvance, Reads, Return, Replays, RuntimeKept
<1>4. CASE LoadBattle(r)
    BY <1>4, Domains DEF LoadBattle, Loads, RuntimeKept
<1>5. CASE PlayPhase(r)
    BY <1>5, Domains DEF PlayPhase, Plays, RuntimeKept
<1>6. CASE PrepareBoundary(r)
    <2>1. Prepares(r)
        BY <1>6, Domains DEF PrepareBoundary, Prepares
    <2>2. runtime' = [runtime EXCEPT !.token = token[r]] /\ token[r] \in 0..MaxToken
        BY <1>6, Domains DEF PrepareBoundary
    <2>3. token[r] \in 0..MaxToken + 1
        BY <2>2, AdvanceAssumption
    <2> QED
        BY <2>1, <2>2, <2>3, Domains DEF RuntimeKept, RuntimeRow
<1>7. CASE StopRuntime(r)
    <2>1. Leaves(r) /\ World = "awareness" /\ battle.status = "active"
        BY <1>7, Domains DEF StopRuntime, Leaves
    <2>2. /\ runtime' = [runtime EXCEPT !.token = token[r], !.status = "incomplete"]
          /\ token[r] \in 0..MaxToken
        BY <1>7, Domains DEF StopRuntime
    <2>3. token[r] \in 0..MaxToken + 1
        BY <2>2, AdvanceAssumption
    <2> QED
        BY <2>1, <2>2, <2>3, Domains DEF RuntimeKept, RuntimeRow
<1>8. CASE MissBoundary(r) \/ FailProvider(r)
    <2>1. core[r] # "idle" /\ (Fail(r) \/ (Return(r, "threw") /\ UNCHANGED runtime))
        <3>1. CASE MissBoundary(r)
            BY <3>1 DEF MissBoundary
        <3>2. CASE FailProvider(r)
            BY <3>2 DEF FailProvider
        <3> QED
            BY <1>8, <3>1, <3>2
    <2> QED
        BY <1>1, <1>2, <2>1 DEF RuntimeKept
<1>9. CASE \/ RefuseAdvance(r) \/ CheckpointRefused(r) \/ LegacyBoundaryRefused(r)
           \/ PrepareRefused(r) \/ CommitWorldRefused(r) \/ StopRefused(r)
    <2>1. /\ UNCHANGED runtime /\ core[r] # "idle"
          /\ Return(r, "threw") \/ Return(r, "stopping")
        BY <1>9
        DEF RefuseAdvance, Reads, CheckpointRefused, LegacyBoundaryRefused, PrepareRefused,
            CommitWorldRefused, StopRefused, Conflict, ReadyToSave
    <2> QED
        BY <1>1, <2>1 DEF RuntimeKept
<1> QED
    BY <1>3, <1>4, <1>5, <1>6, <1>7, <1>8, <1>9 DEF CoreReads

LEMMA CoreReadsType ==
    ASSUME TypeOK, LocalsOK, NEW r \in Requests, CoreReads(r) PROVE TypeOK'
<1>1. /\ UNCHANGED <<battle, ratings, lease, routeVars, token>> /\ faults' \in 0..MaxFaults
      /\ RuntimeKept(r)
      /\ Loads(r) \/ Plays(r) \/ Prepares(r) \/ Leaves(r) \/ Replays(r)
    BY CoreReadsFrame, CoreReadsLocals
<1>2. NothingSeen \in BattleRow /\ NoOutcome \in OutcomeRow
    BY NewRow DEF NothingSeen, NoOutcome, OutcomeRow, WorldKinds
<1>3. core'[r] \in CoreValue
    BY <1>1 DEF Loads, Plays, Prepares, Leaves, Replays, CoreValue
<1>4. seen'[r] \in BattleRow
    <2>1. ASSUME Loads(r) PROVE seen'[r] \in BattleRow
        <3>1. core[r] # "idle" /\ key[r] \in Key
            BY <2>1 DEF Loads, Reads, LocalsOK, LocalOK
        <3>2. PICK b \in BattleRow : b = battle
            BY Domains
        <3>3. PICK k \in Key : k = key[r]
            BY <3>1
        <3>4. [b EXCEPT !.op = k, !.done = FALSE] \in BattleRow
            BY ReadRow
        <3> QED
            BY <2>1, <3>2, <3>3, <3>4 DEF Loads
    <2> QED
        BY <1>1, <1>2, <2>1, Domains DEF Plays, Prepares, Leaves, Replays
<1>5. outcome'[r] \in OutcomeRow
    <2>1. Plays(r) => outcome'[r] \in OutcomeRow
        BY OutcomesType DEF Plays
    <2> QED
        BY <1>1, <1>2, <2>1, Domains DEF Loads, Prepares, Leaves, Replays
<1>6. /\ core' \in [Requests -> CoreValue] /\ seen' \in [Requests -> BattleRow]
      /\ outcome' \in [Requests -> OutcomeRow]
    BY <1>3, <1>4, <1>5, CoreReadsFrame, Domains
<1>7. runtime' \in RuntimeRow
    BY <1>1, Domains DEF RuntimeKept
<1> QED
    BY <1>1, <1>6, <1>7
    DEF TypeOK, RowTypeOK, RouteTypeOK, CoreTypeOK, routeVars, CoreValue, OutcomeRow, RuntimeRow

\* What a core that writes the battle does: it holds the lease.
SavesCheckpoint(r) ==
    /\ core[r] = "loaded" /\ core'[r] = "loaded" /\ ~Bound
    /\ battle' = [seen[r] EXCEPT !.decided = Append(@, r)]
    /\ seen'[r] = battle' /\ outcome'[r] = outcome[r]
    /\ UNCHANGED <<runtime, ratings>>

Commits(r) ==
    /\ core[r] \in Played /\ core'[r] = "done"
    /\ battle' = Completed(seen[r], outcome[r])
    /\ seen'[r] = NothingSeen /\ outcome'[r] = NoOutcome
    /\ \/ ~Bound /\ UNCHANGED <<runtime, ratings>>
       \/ Bound /\ ratings' = SettledRatings(r) /\ runtime' = CommittedRuntime(r)

Stops(r) ==
    /\ core'[r] = "done"
    /\ battle' = [battle EXCEPT !.status = "incomplete"]
    /\ runtime' = [runtime EXCEPT !.token = token[r], !.status = "incomplete"]
    /\ seen'[r] = NothingSeen /\ outcome'[r] = NoOutcome
    /\ UNCHANGED ratings

LEMMA CoreWritesFrame ==
    ASSUME TypeOK, NEW r \in Requests, CoreWrites(r)
    PROVE  /\ UNCHANGED <<lease, routeVars, token, faults>>
           /\ Fenced(r) /\ core[r] # "idle"
           /\ core' = [core EXCEPT ![r] = core'[r]]
           /\ seen' = [seen EXCEPT ![r] = seen'[r]]
           /\ outcome' = [outcome EXCEPT ![r] = outcome'[r]]
           /\ SavesCheckpoint(r) \/ Commits(r) \/ (battle.status = "active" /\ Stops(r))
<1>1. CASE SaveCheckpoint(r)
    <2>1. Len(seen[r].decided) \in Nat
        BY Domains, LenProperties DEF BattleRow
    <2>2. ~Bound
        BY <1>1, <2>1 DEF SaveCheckpoint, CheckpointsOf
    <2>3. /\ battle' = [seen[r] EXCEPT !.decided = Append(@, r)]
          /\ seen' = [seen EXCEPT ![r] = battle']
        BY <1>1 DEF SaveCheckpoint
    <2>4. /\ UNCHANGED <<lease, runtime, ratings, routeVars, core, token, outcome, faults>>
          /\ core[r] = "loaded" /\ Fenced(r)
        BY <1>1 DEF SaveCheckpoint, CanWrite
    <2>5. /\ core' = [core EXCEPT ![r] = core'[r]] /\ seen' = [seen EXCEPT ![r] = seen'[r]]
          /\ outcome' = [outcome EXCEPT ![r] = outcome'[r]] /\ seen'[r] = battle'
        BY <2>3, <2>4, Domains
    <2> QED
        BY <2>2, <2>3, <2>4, <2>5 DEF SavesCheckpoint
<1>2. CASE SaveLegacyBoundary(r)
    <2>1. /\ UNCHANGED <<lease, runtime, ratings, routeVars, token, faults>>
          /\ ~Bound /\ Fenced(r) /\ core[r] \in {"settled", "played"}
          /\ battle' = Completed(seen[r], outcome[r])
        BY <1>2 DEF SaveLegacyBoundary, Return, CanWrite, ReadyToSave
    <2>2. /\ core' = [core EXCEPT ![r] = core'[r]] /\ seen' = [seen EXCEPT ![r] = seen'[r]]
          /\ outcome' = [outcome EXCEPT ![r] = outcome'[r]]
          /\ core'[r] = "done" /\ seen'[r] = NothingSeen /\ outcome'[r] = NoOutcome
        BY <1>2, Domains DEF SaveLegacyBoundary, Return
    <2> QED
        BY <2>1, <2>2 DEF Commits, Played
<1>3. CASE CommitWorld(r)
    <2>1. /\ UNCHANGED <<lease, routeVars, token, faults>>
          /\ Bound /\ Fenced(r) /\ core[r] = "played"
          /\ battle' = Completed(seen[r], outcome[r])
          /\ ratings' = SettledRatings(r) /\ runtime' = CommittedRuntime(r)
        BY <1>3 DEF CommitWorld, Return, CommitsWorld, CanWrite
    <2>2. /\ core' = [core EXCEPT ![r] = core'[r]] /\ seen' = [seen EXCEPT ![r] = seen'[r]]
          /\ outcome' = [outcome EXCEPT ![r] = outcome'[r]]
          /\ core'[r] = "done" /\ seen'[r] = NothingSeen /\ outcome'[r] = NoOutcome
        BY <1>3, Domains DEF CommitWorld, Return
    <2> QED
        BY <2>1, <2>2 DEF Commits, Played
<1>4. CASE StopBattle(r)
    <2>1. /\ UNCHANGED <<lease, ratings, routeVars, token, faults>>
          /\ Fenced(r) /\ core[r] \in {"stopping", "stopped"} /\ battle.status = "active"
          /\ battle' = [battle EXCEPT !.status = "incomplete"]
          /\ runtime' = [runtime EXCEPT !.token = token[r], !.status = "incomplete"]
        BY <1>4 DEF StopBattle, Return, CanWriteRuntime
    <2>2. /\ core' = [core EXCEPT ![r] = core'[r]] /\ seen' = [seen EXCEPT ![r] = seen'[r]]
          /\ outcome' = [outcome EXCEPT ![r] = outcome'[r]]
          /\ core'[r] = "done" /\ seen'[r] = NothingSeen /\ outcome'[r] = NoOutcome
        BY <1>4, Domains DEF StopBattle, Return
    <2> QED
        BY <2>1, <2>2 DEF Stops
<1> QED
    BY <1>1, <1>2, <1>3, <1>4 DEF CoreWrites

\* A commit continues the battle the request has read, which is still the battle.
LEMMA CommitEffect ==
    ASSUME TypeOK, LocalsOK, NEW r \in Requests, CoreWrites(r), Commits(r)
    PROVE  LET n == Len(battle.commits)
           IN  /\ Sees(r) /\ key[r] \in Key /\ outcome[r].receipts \in 1..2
               /\ battle' \in BattleRow
               /\ battle'.world = battle.world /\ battle'.op = key[r] /\ battle'.done
               /\ battle'.revision = battle.revision + outcome[r].receipts
               /\ battle'.status = IF Finishes(r) THEN "finished" ELSE "active"
               /\ battle'.settled <=> Finishes(r)
               /\ n \in Nat /\ Len(battle'.commits) = n + 1
               /\ \A i \in 1..n : battle'.commits[i] = battle.commits[i]
               /\ battle'.commits[n + 1].op = key[r]
               /\ battle'.commits[n + 1].decided = battle.decided
<1>1. Fenced(r) /\ core[r] \in Played
    BY CoreWritesFrame DEF Commits
<1>2. /\ Sees(r) /\ key[r] \in Key /\ seen[r].op = key[r] /\ seen[r].status = "active"
      /\ outcome[r].phase \in Phases /\ outcome[r].receipts \in 1..2
    BY <1>1 DEF LocalsOK, LocalOK, Played, Working
<1>3. seen[r] \in BattleRow /\ outcome[r] \in OutcomeRow
    BY Domains
<1>4. PICK s \in BattleRow, o \in OutcomeRow : s = seen[r] /\ o = outcome[r]
    BY <1>3
<1>5. battle' = Completed(s, o)
    BY <1>4 DEF Commits
<1>6. s.op \in Key /\ o.phase \in Phases
    BY <1>2, <1>4
<1>7. LET c == Completed(s, o)
          n == Len(s.commits)
      IN  /\ c \in BattleRow
          /\ c.world = s.world /\ c.op = s.op
          /\ c.revision = s.revision + o.receipts
          /\ c.phase = o.phase
          /\ c.status = IF o.phase = "over" THEN "finished" ELSE s.status
          /\ c.done = TRUE
          /\ c.settled = (o.phase = "over")
          /\ n \in Nat /\ Len(c.commits) = n + 1
          /\ \A i \in 1..n : c.commits[i] = s.commits[i]
          /\ c.commits[n + 1].op = s.op /\ c.commits[n + 1].decided = s.decided
    BY <1>6, CompletedRow
<1>8. /\ battle.commits = s.commits /\ battle.world = s.world /\ battle.decided = s.decided
      /\ battle.revision = s.revision /\ s.status = "active" /\ s.op = key[r]
    BY <1>2, <1>4 DEF Sees
<1>9. Finishes(r) <=> o.phase = "over"
    BY <1>4 DEF Finishes
<1>10. /\ battle' \in BattleRow /\ battle'.world = battle.world /\ battle'.op = key[r]
       /\ battle'.done /\ battle'.status = IF Finishes(r) THEN "finished" ELSE "active"
       /\ battle'.settled <=> Finishes(r)
    BY <1>5, <1>7, <1>8, <1>9
<1>11. battle'.revision = battle.revision + outcome[r].receipts
    BY <1>4, <1>5, <1>7, <1>8
<1>12. LET n == Len(battle.commits)
       IN  /\ n \in Nat /\ Len(battle'.commits) = n + 1
           /\ \A i \in 1..n : battle'.commits[i] = battle.commits[i]
           /\ battle'.commits[n + 1].op = key[r]
           /\ battle'.commits[n + 1].decided = battle.decided
    BY <1>5, <1>7, <1>8
<1> QED
    BY <1>2, <1>10, <1>11, <1>12

LEMMA CheckpointEffect ==
    ASSUME TypeOK, LocalsOK, NEW r \in Requests, CoreWrites(r), SavesCheckpoint(r)
    PROVE  /\ Sees(r) /\ key[r] \in Key
           /\ battle' \in BattleRow
           /\ battle'.world = battle.world /\ battle'.op = key[r] /\ ~battle'.done
           /\ battle'.revision = battle.revision /\ battle'.status = "active"
           /\ battle'.phase = battle.phase /\ battle'.settled = battle.settled
           /\ battle'.commits = battle.commits
           /\ Len(battle.decided) \in Nat
           /\ Len(battle'.decided) = Len(battle.decided) + 1
           /\ \A i \in 1..Len(battle.decided) : battle'.decided[i] = battle.decided[i]
<1>1. Fenced(r) /\ core[r] = "loaded"
    BY CoreWritesFrame DEF SavesCheckpoint
<1>2. /\ Sees(r) /\ key[r] \in Key /\ seen[r].op = key[r] /\ seen[r].status = "active"
      /\ ~seen[r].done
    BY <1>1 DEF LocalsOK, LocalOK, Working
<1>3. PICK s \in BattleRow : s = seen[r]
    BY Domains
<1>4. battle' = [s EXCEPT !.decided = Append(s.decided, r)]
    BY <1>3 DEF SavesCheckpoint
<1>5. /\ battle' \in BattleRow
      /\ Len(Append(s.decided, r)) = Len(s.decided) + 1
      /\ \A i \in 1..Len(s.decided) : Append(s.decided, r)[i] = s.decided[i]
    BY <1>4, CheckpointRow
<1>6. Len(s.decided) \in Nat
    BY LenProperties DEF BattleRow
<1>7. /\ battle'.world = s.world /\ battle'.op = s.op /\ battle'.done = s.done
      /\ battle'.revision = s.revision /\ battle'.status = s.status
      /\ battle'.phase = s.phase /\ battle'.settled = s.settled
      /\ battle'.commits = s.commits /\ battle'.decided = Append(s.decided, r)
    BY <1>4 DEF BattleRow
<1> QED
    BY <1>2, <1>3, <1>5, <1>6, <1>7 DEF Sees

LEMMA CoreWritesType ==
    ASSUME TypeOK, LocalsOK, NEW r \in Requests, CoreWrites(r) PROVE TypeOK'
<1>1. /\ UNCHANGED <<lease, routeVars, token, faults>>
      /\ core' = [core EXCEPT ![r] = core'[r]]
      /\ seen' = [seen EXCEPT ![r] = seen'[r]]
      /\ outcome' = [outcome EXCEPT ![r] = outcome'[r]]
      /\ SavesCheckpoint(r) \/ Commits(r) \/ Stops(r)
    BY CoreWritesFrame
<1>2. battle' \in BattleRow
    <2>1. CASE SavesCheckpoint(r)
        BY <2>1, CheckpointEffect
    <2>2. CASE Commits(r)
        BY <2>2, CommitEffect
    <2>3. CASE Stops(r)
        <3>1. battle' = [battle EXCEPT !.status = "incomplete"]
            BY <2>3 DEF Stops
        <3>2. PICK b \in BattleRow : b = battle
            BY Domains
        <3>3. [b EXCEPT !.status = "incomplete"] \in BattleRow
            BY DEF BattleRow, Statuses
        <3> QED
            BY <3>1, <3>2, <3>3
    <2> QED
        BY <1>1, <2>1, <2>2, <2>3
<1>3. token[r] \in 0..MaxToken /\ 0..MaxToken \subseteq 0..MaxToken + 1
    BY Domains, AdvanceAssumption
<1>4. runtime' \in RuntimeRow
    <2>1. CASE SavesCheckpoint(r)
        BY <2>1, Domains DEF SavesCheckpoint
    <2>2. CASE Commits(r)
        <3>1. seen[r] \in BattleRow /\ outcome[r] \in OutcomeRow
            BY Domains
        <3>2. seen[r].revision \in Nat /\ outcome[r].receipts \in Nat
            BY <3>1 DEF BattleRow, OutcomeRow
        <3> QED
            BY <1>3, <2>2, <3>2, Domains DEF Commits, CommittedRuntime, RuntimeRow
    <2>3. CASE Stops(r)
        BY <1>3, <2>3, Domains DEF Stops, RuntimeRow
    <2> QED
        BY <1>1, <2>1, <2>2, <2>3
<1>5. ratings' \in [Side -> Nat]
    BY <1>1, Domains DEF SavesCheckpoint, Commits, Stops, SettledRatings
<1>6. core'[r] \in CoreValue
    BY <1>1 DEF SavesCheckpoint, Commits, Stops, CoreValue
<1>7. seen'[r] \in BattleRow /\ outcome'[r] \in OutcomeRow
    <2>1. NothingSeen \in BattleRow /\ NoOutcome \in OutcomeRow
        BY NewRow DEF NothingSeen, NoOutcome, OutcomeRow, WorldKinds
    <2>2. outcome[r] \in OutcomeRow
        BY Domains
    <2> QED
        BY <1>1, <1>2, <2>1, <2>2 DEF SavesCheckpoint, Commits, Stops
<1>8. /\ core' \in [Requests -> CoreValue] /\ seen' \in [Requests -> BattleRow]
      /\ outcome' \in [Requests -> OutcomeRow]
    BY <1>1, <1>6, <1>7, Domains
<1> QED
    BY <1>1, <1>2, <1>4, <1>5, <1>8
    DEF TypeOK, RowTypeOK, RouteTypeOK, CoreTypeOK, routeVars, CoreValue, OutcomeRow, RuntimeRow

LEMMA SettleType ==
    ASSUME TypeOK, NEW r \in Requests, SettleLegacyRating(r) PROVE TypeOK'
<1>1. /\ UNCHANGED <<battle, lease, runtime, routeVars, token, seen, outcome, faults>>
      /\ \E c \in CoreValue : core' = [core EXCEPT ![r] = c]
      /\ \E s \in Side : ratings' = [ratings EXCEPT ![s] = ratings[s] + 1]
    BY DEF SettleLegacyRating, Side, CoreValue
<1>2. core' \in [Requests -> CoreValue] /\ ratings' \in [Side -> Nat]
    BY <1>1, Domains
<1> QED
    BY <1>1, <1>2 DEF TypeOK, RowTypeOK, RouteTypeOK, CoreTypeOK, routeVars, CoreValue

LEMMA EnvironmentType ==
    ASSUME TypeOK, Environment PROVE TypeOK'
<1>1. CASE \E k \in Key : ReplayResponse(k)
    BY <1>1 DEF ReplayResponse, TypeOK, RowTypeOK, RouteTypeOK, CoreTypeOK, coreVars
<1>2. CASE \E k \in Key : IdempotencyRowExpires(k)
    <2>1. PICK k \in Key : IdempotencyRowExpires(k)
        BY <1>2
    <2>2. idem' = [idem EXCEPT ![k] = [idem[k] EXCEPT !.live = FALSE]]
        BY <2>1, Domains DEF IdempotencyRowExpires
    <2>3. [idem[k] EXCEPT !.live = FALSE] \in IdemRow
        BY Domains DEF IdemRow
    <2>4. idem' \in [Key -> IdemRow]
        BY <2>2, <2>3, Domains
    <2> QED
        BY <2>1, <2>4
        DEF IdempotencyRowExpires, TypeOK, RowTypeOK, RouteTypeOK, CoreTypeOK, coreVars, IdemRow
<1>3. CASE LeaseExpires
    <2>1. lease' \in LeaseRow
        <3>1. lease \in [owner : Requests, token : 1..MaxToken, live : BOOLEAN]
            BY <1>3, Domains DEF LeaseExpires, LeaseRow, NoLease
        <3>2. lease' = [lease EXCEPT !.live = FALSE]
            BY <1>3 DEF LeaseExpires
        <3> QED
            BY <3>1, <3>2 DEF LeaseRow
    <2>2. faults' \in 0..MaxFaults
        BY <1>3, AdvanceAssumption DEF LeaseExpires, TypeOK
    <2> QED
        BY <1>3, <2>1, <2>2
        DEF LeaseExpires, TypeOK, RowTypeOK, RouteTypeOK, CoreTypeOK, coreVars, routeVars, LeaseRow
<1>4. CASE DeleteBattle
    <2>1. battle' \in BattleRow
        BY <1>4, Domains DEF DeleteBattle, BattleRow, Statuses
    <2>2. lease' = NoLease /\ faults' \in 0..MaxFaults
        BY <1>4, AdvanceAssumption DEF DeleteBattle, TypeOK
    <2> QED
        BY <1>4, <2>1, <2>2
        DEF DeleteBattle, TypeOK, RowTypeOK, RouteTypeOK, CoreTypeOK, coreVars, routeVars
<1>5. CASE Finished
    BY <1>5
    DEF Finished, vars, TypeOK, RowTypeOK, RouteTypeOK, CoreTypeOK, coreVars, routeVars
<1> QED
    BY <1>1, <1>2, <1>3, <1>4, <1>5 DEF Environment

LEMMA TypeStep == ASSUME TypeOK, LocalsOK, Next PROVE TypeOK'
BY Steps, RouteType, CoreReadsType, CoreWritesType, SettleType, EnvironmentType DEF CoreAction

-----------------------------------------------------------------------------
(* The fence: who may pass it after a step.                                  *)

\* Only the request that has just taken the lease passes the fence without having
\* done so before.
LEMMA RouteFence ==
    ASSUME TypeOK, NEW r \in Requests, RouteAction(r), NEW q \in Requests, Fenced(q)'
    PROVE  \/ /\ q = r /\ AcquireBattleLease(r)
           \/ /\ Fenced(q) /\ token'[q] = token[q] /\ UNCHANGED lease
              /\ q = r => \/ \E k \in Key : BeginIdempotentRequest(r, k)
                          \/ AcquireRefused(r) \/ CompleteIdempotentRequest(r)
                          \/ LoseIdempotencyOwnership(r) \/ AnswerAdvance(r)
                          \/ AbandonIdempotentRequest(r) \/ LoseBattleLease(r)
<1>1. lease'.owner = q /\ lease'.token = token'[q] /\ lease'.token # 0 /\ lease'.live
    BY DEF Fenced
<1>2. CASE AcquireBattleLease(r)
    BY <1>1, <1>2 DEF AcquireBattleLease
<1>3. CASE ReleaseBattleLease(r)
    <2>1. lease' = Released(r) /\ lease' # NoLease
        BY <1>1, <1>3 DEF ReleaseBattleLease, NoLease
    <2>2. lease' = lease /\ lease.owner # r
        BY <2>1 DEF Released
    <2>3. q # r
        BY <1>1, <2>2
    <2>4. token'[q] = token[q]
        BY <1>3, <2>3, Domains DEF ReleaseBattleLease
    <2> QED
        BY <1>1, <2>2, <2>3, <2>4 DEF Fenced
<1>4. CASE EndOrphan(r) \/ CrashRequest(r)
    <2>1. UNCHANGED lease /\ token' = [token EXCEPT ![r] = 0]
        BY <1>4 DEF EndOrphan, CrashRequest
    <2>2. q # r
        BY <1>1, <2>1, Domains
    <2> QED
        BY <1>1, <2>1, <2>2, Domains DEF Fenced
<1>5. ASSUME \/ \E k \in Key : BeginIdempotentRequest(r, k)
             \/ AcquireRefused(r) \/ CompleteIdempotentRequest(r)
             \/ LoseIdempotencyOwnership(r) \/ AnswerAdvance(r)
             \/ AbandonIdempotentRequest(r) \/ LoseBattleLease(r)
      PROVE  UNCHANGED <<lease, token>>
    BY <1>5
    DEF BeginIdempotentRequest, AcquireRefused, CompleteIdempotentRequest,
        LoseIdempotencyOwnership, AnswerAdvance, AbandonIdempotentRequest, LoseBattleLease,
        coreVars
<1> QED
    BY <1>1, <1>2, <1>3, <1>4, <1>5 DEF RouteAction, RouteStep, Fenced

LEMMA CoreFence ==
    ASSUME NEW r \in Requests, CoreAction(r), NEW q \in Requests
    PROVE  Fenced(q)' <=> Fenced(q)
BY CoreFrame DEF Fenced

LEMMA EnvironmentFence ==
    ASSUME Environment, NEW q \in Requests, Fenced(q)'
    PROVE  Fenced(q) /\ UNCHANGED <<battle, lease>>
<1>1. /\ UNCHANGED token
      /\ lease' \in {lease, NoLease, [lease EXCEPT !.live = FALSE]}
      /\ UNCHANGED battle \/ lease' = NoLease
    BY DEF Environment, ReplayResponse, IdempotencyRowExpires, LeaseExpires, DeleteBattle,
           Finished, vars, coreVars
<1>2. lease'.token # 0 /\ lease'.live
    BY DEF Fenced
<1>3. lease' # NoLease
    BY <1>2 DEF NoLease
<1>4. lease' = lease
    <2>1. CASE lease' = [lease EXCEPT !.live = FALSE]
        BY <1>2, <2>1
    <2> QED
        BY <1>1, <1>3, <2>1
<1> QED
    BY <1>1, <1>3, <1>4 DEF Fenced

-----------------------------------------------------------------------------
(* What each request knows.                                                  *)

\* The battle never comes back to life, and what is committed stays committed.
BattleGrows ==
    /\ battle.status # "active" => battle'.status # "active"
    /\ \A k \in Key : ~Uncommitted(k) => ~Uncommitted(k)'

\* A request that does nothing keeps what it knows, unless the battle it holds the
\* lease of changes under it.
LEMMA LocalKept ==
    ASSUME TypeOK, NEW q \in Requests, LocalOK(q), BattleGrows,
           route'[q] = route[q], key'[q] = key[q], core'[q] = core[q],
           seen'[q] = seen[q], outcome'[q] = outcome[q],
           Fenced(q)' => Fenced(q) /\ UNCHANGED battle
    PROVE  LocalOK(q)'
<1>1. Sees(q) /\ UNCHANGED battle => Sees(q)'
    BY DEF Sees, IsReplay
<1>2. core[q] = "done" \/ route[q] \in {"returned", "answering"} =>
          battle'.status # "active" \/ ~Uncommitted(key[q])'
    <2>1. ASSUME core[q] = "done" \/ route[q] \in {"returned", "answering"}
          PROVE  battle'.status # "active" \/ ~Uncommitted(key[q])'
        <3>1. key[q] \in Key /\ (battle.status # "active" \/ ~Uncommitted(key[q]))
            BY <2>1 DEF LocalOK
        <3>2. PICK k \in Key : k = key[q]
            BY <3>1
        <3>3. ~Uncommitted(k) => ~Uncommitted(k)'
            BY DEF BattleGrows
        <3> QED
            BY <3>1, <3>2, <3>3 DEF BattleGrows
    <2> QED
        BY <2>1
<1> QED
    BY <1>1, <1>2 DEF LocalOK, Working, Played

\* A request's own route steps.
LEMMA RouteOwnLocal ==
    ASSUME TypeOK, NEW r \in Requests, LocalOK(r), RouteAction(r)
    PROVE  LocalOK(r)'
<1>0. /\ UNCHANGED battle
      /\ core[r] \in CoreValue /\ route[r] \in RouteValue /\ key[r] \in 0..Keys
    BY RouteFrame, Domains
<1>1. CASE \E k \in Key : BeginIdempotentRequest(r, k)
    <2>1. /\ route'[r] = "begun" /\ core'[r] = "idle" /\ key'[r] \in Key
          /\ UNCHANGED <<lease, token>> /\ core[r] = "idle"
        BY <1>1, Domains DEF BeginIdempotentRequest, coreVars
    <2>2. ~Fenced(r)'
        BY <2>1 DEF LocalOK, Fenced
    <2> QED
        BY <2>1, <2>2 DEF LocalOK, Working, Played
<1>2. CASE AcquireBattleLease(r)
    <2>1. /\ route'[r] = "waiting" /\ core'[r] = "leased" /\ key'[r] = key[r] /\ route[r] = "begun"
        BY <1>2, Domains DEF AcquireBattleLease
    <2> QED
        BY <2>1 DEF LocalOK, Working, Played
<1>3. CASE LoseBattleLease(r)
    <2>1. /\ route'[r] = "lost" /\ route[r] = "waiting"
          /\ UNCHANGED <<lease, key, coreVars>>
        BY <1>3, Domains DEF LoseBattleLease
    <2>2. Fenced(r)' <=> Fenced(r)
        BY <2>1 DEF Fenced, coreVars
    <2>3. Sees(r)' <=> Sees(r)
        BY <1>0, <2>1 DEF Sees, IsReplay, coreVars
    <2> QED
        BY <1>0, <2>1, <2>2, <2>3 DEF LocalOK, Uncommitted, coreVars
<1>4. CASE ReleaseBattleLease(r)
    <2>1. ~Fenced(r)'
        BY <1>4, RouteFence
        DEF AcquireBattleLease, ReleaseBattleLease, AcquireRefused, CompleteIdempotentRequest,
            LoseIdempotencyOwnership, AnswerAdvance, AbandonIdempotentRequest,
            BeginIdempotentRequest, LoseBattleLease
    <2>2. /\ UNCHANGED <<key, seen, outcome>> /\ route[r] # "idle"
          /\ route'[r] \in {"returned", "failed"}
          /\ route'[r] = "returned" => core[r] = "done"
          /\ core'[r] = (IF core[r] \in {"done", "threw"} THEN "idle" ELSE core[r])
        BY <1>4, Domains DEF ReleaseBattleLease, Returned
    <2> QED
        BY <1>0, <2>1, <2>2 DEF LocalOK, Uncommitted, Working, Played
<1>5. CASE AcquireRefused(r)
    <2>1. /\ route'[r] = "failed" /\ route[r] = "begun"
          /\ UNCHANGED <<lease, key, coreVars>>
        BY <1>5, Domains DEF AcquireRefused
    <2>2. core'[r] = "idle" /\ ~Fenced(r)'
        BY <2>1 DEF LocalOK, Fenced, coreVars
    <2> QED
        BY <2>1, <2>2 DEF LocalOK, Working, Played
<1>6. CASE CompleteIdempotentRequest(r)
    <2>1. /\ route'[r] = "answering" /\ route[r] = "returned"
          /\ UNCHANGED <<lease, key, coreVars>>
        BY <1>6, Domains DEF CompleteIdempotentRequest
    <2>2. ~Fenced(r)'
        BY <2>1 DEF LocalOK, Fenced, coreVars
    <2> QED
        BY <1>0, <2>1, <2>2 DEF LocalOK, Uncommitted, coreVars
<1>7. CASE LoseIdempotencyOwnership(r) \/ AnswerAdvance(r) \/ AbandonIdempotentRequest(r)
    <2>1. /\ route'[r] = "idle" /\ route[r] \notin {"waiting", "lost"}
          /\ core[r] # "idle" => key'[r] = key[r]
          /\ UNCHANGED <<lease, coreVars>>
        BY <1>7, Domains
        DEF LoseIdempotencyOwnership, AnswerAdvance, AbandonIdempotentRequest, ForgetKey
    <2>2. ~Fenced(r)'
        BY <2>1 DEF LocalOK, Fenced, coreVars
    <2> QED
        BY <1>0, <2>1, <2>2 DEF LocalOK, Uncommitted, coreVars, Working
<1>8. CASE EndOrphan(r)
    <2>1. /\ core'[r] = "idle" /\ token'[r] = 0 /\ UNCHANGED <<lease, route>>
          /\ route[r] # "idle" => key'[r] = key[r]
        BY <1>8, Domains DEF EndOrphan
    <2>2. ~Fenced(r)'
        BY <2>1 DEF Fenced
    <2> QED
        BY <1>0, <2>1, <2>2 DEF LocalOK, Uncommitted, Working, Played
<1>9. CASE CrashRequest(r)
    <2>1. core'[r] = "idle" /\ token'[r] = 0 /\ route'[r] = "idle" /\ UNCHANGED lease
        BY <1>9, Domains DEF CrashRequest
    <2>2. ~Fenced(r)'
        BY <2>1 DEF Fenced
    <2> QED
        BY <2>1, <2>2 DEF LocalOK, Working, Played
<1> QED
    BY <1>1, <1>2, <1>3, <1>4, <1>5, <1>6, <1>7, <1>8, <1>9 DEF RouteAction, RouteStep

LEMMA RouteOthers ==
    ASSUME TypeOK, NEW r \in Requests, RouteAction(r), NEW q \in Requests, q # r
    PROVE  /\ route'[q] = route[q] /\ key'[q] = key[q] /\ core'[q] = core[q]
           /\ token'[q] = token[q] /\ seen'[q] = seen[q] /\ outcome'[q] = outcome[q]
<1>1. route'[q] = route[q] /\ key'[q] = key[q]
    BY Domains
    DEF RouteAction, RouteStep, BeginIdempotentRequest, AcquireBattleLease, AcquireRefused,
        ReleaseBattleLease, CompleteIdempotentRequest, LoseIdempotencyOwnership, AnswerAdvance,
        AbandonIdempotentRequest, LoseBattleLease, EndOrphan, CrashRequest, ForgetKey
<1>2. core'[q] = core[q] /\ token'[q] = token[q] /\ seen'[q] = seen[q] /\ outcome'[q] = outcome[q]
    BY Domains
    DEF RouteAction, RouteStep, BeginIdempotentRequest, AcquireBattleLease, AcquireRefused,
        ReleaseBattleLease, CompleteIdempotentRequest, LoseIdempotencyOwnership, AnswerAdvance,
        AbandonIdempotentRequest, LoseBattleLease, EndOrphan, CrashRequest, coreVars
<1> QED
    BY <1>1, <1>2

LEMMA RouteLocals ==
    ASSUME TypeOK, LocalsOK, NEW r \in Requests, RouteAction(r)
    PROVE  LocalsOK'
<1> SUFFICES ASSUME NEW q \in Requests PROVE LocalOK(q)'
    BY DEF LocalsOK
<1>1. LocalOK(q)
    BY DEF LocalsOK
<1>2. CASE q = r
    BY <1>1, <1>2, RouteOwnLocal
<1>3. CASE q # r
    <2>1. BattleGrows /\ UNCHANGED battle
        BY RouteFrame DEF BattleGrows, Uncommitted
    <2>2. Fenced(q)' => Fenced(q)
        BY <1>3, RouteFence
    <2> QED
        BY <1>1, <1>3, <2>1, <2>2, RouteOthers, LocalKept
<1> QED
    BY <1>2, <1>3

LEMMA CoreOthers ==
    ASSUME TypeOK, NEW r \in Requests, CoreAction(r), NEW q \in Requests, q # r
    PROVE  /\ route'[q] = route[q] /\ key'[q] = key[q] /\ core'[q] = core[q]
           /\ seen'[q] = seen[q] /\ outcome'[q] = outcome[q]
<1>1. UNCHANGED <<lease, routeVars, token>>
    BY CoreFrame
<1>2. /\ \/ core' = [core EXCEPT ![r] = core'[r]]
         \/ \E c \in CoreValue : core' = [core EXCEPT ![r] = c]
      /\ seen' = [seen EXCEPT ![r] = seen'[r]] \/ UNCHANGED seen
      /\ outcome' = [outcome EXCEPT ![r] = outcome'[r]] \/ UNCHANGED outcome
    <2>1. CASE SettleLegacyRating(r)
        BY <2>1 DEF SettleLegacyRating, CoreValue
    <2> QED
        BY <2>1, CoreReadsFrame, CoreWritesFrame DEF CoreAction
<1>3. core'[q] = core[q] /\ seen'[q] = seen[q] /\ outcome'[q] = outcome[q]
    BY <1>2, Domains
<1> QED
    BY <1>1, <1>3 DEF routeVars

\* Whoever reads the battle, or settles its rating, leaves the battle alone.
LEMMA ReaderOwnLocal ==
    ASSUME TypeOK, BattleOK, NEW r \in Requests, LocalOK(r),
           CoreReads(r) \/ SettleLegacyRating(r)
    PROVE  LocalOK(r)' /\ UNCHANGED battle
<1>1. /\ UNCHANGED <<battle, lease, token, route, key>>
    BY CoreFrame, CoreReadsFrame DEF CoreAction, routeVars, SettleLegacyRating
<1>2. /\ Fenced(r)' <=> Fenced(r)
      /\ Uncommitted(key[r])' <=> Uncommitted(key[r])
    BY <1>1 DEF Fenced, Uncommitted
<1>3. core[r] # "idle" => key[r] \in Key /\ route[r] # "begun"
    BY DEF LocalOK
<1>4. /\ IsReplay(r)' <=> IsReplay(r)
      /\ seen'[r] = seen[r] => (Sees(r)' <=> Sees(r))
    BY <1>1 DEF Sees, IsReplay
<1>5. ASSUME Loads(r) PROVE LocalOK(r)'
    <2>1. /\ core[r] # "idle" /\ battle.status = "active" /\ ~IsReplay(r)
          /\ core'[r] \in {"loaded", "entered"}
          /\ seen'[r] = [battle EXCEPT !.op = key[r], !.done = FALSE]
        BY <1>5 DEF Loads, Reads
    <2>2. PICK b \in BattleRow : b = battle
        BY Domains
    <2>3. PICK s : s = seen'[r] /\ s = [b EXCEPT !.op = key[r], !.done = FALSE]
        BY <2>1, <2>2
    <2>4. /\ s.op = key[r] /\ ~s.done /\ s.world = b.world /\ s.revision = b.revision
          /\ s.status = b.status /\ s.phase = b.phase /\ s.decided = b.decided
          /\ s.commits = b.commits /\ s.settled = b.settled
        BY <2>3 DEF BattleRow
    <2>5. Sees(r)'
        BY <1>1, <1>4, <2>1, <2>2, <2>3, <2>4 DEF Sees
    <2>6. seen'[r].op = key[r] /\ seen'[r].status = "active" /\ ~seen'[r].done
        BY <2>1, <2>2, <2>3, <2>4
    <2> QED
        BY <1>1, <1>2, <1>3, <2>1, <2>5, <2>6 DEF LocalOK, Working, Played
<1>6. ASSUME Plays(r) PROVE LocalOK(r)'
    <2>1. core[r] \in Working /\ core'[r] = "played" /\ seen'[r] = seen[r]
        BY <1>6 DEF Plays, Working
    <2>2. outcome'[r].phase \in Phases /\ outcome'[r].receipts \in 1..2
        BY <1>6, OutcomesType DEF Plays
    <2>3. core[r] # "idle" /\ core'[r] \in Working
        BY <2>1 DEF Working
    <2> QED
        BY <1>1, <1>2, <1>3, <1>4, <2>1, <2>2, <2>3 DEF LocalOK
<1>7. ASSUME Prepares(r) PROVE LocalOK(r)'
    <2>1. /\ core[r] \in Working /\ core[r] # "idle" /\ core'[r] = "prepared"
          /\ core'[r] \in Working /\ core'[r] \notin Played /\ seen'[r] = seen[r]
        BY <1>7 DEF Prepares, Working, Played
    <2> QED
        BY <1>1, <1>2, <1>3, <1>4, <2>1 DEF LocalOK
<1>8. ASSUME Leaves(r) PROVE LocalOK(r)'
    <2>1. core[r] # "idle" /\ core'[r] \in {"threw", "stopping", "stopped"}
        BY <1>8 DEF Leaves
    <2> QED
        BY <1>1, <1>2, <1>3, <2>1 DEF LocalOK, Working, Played
<1>9. ASSUME Replays(r) PROVE LocalOK(r)'
    <2>1. /\ core[r] # "idle" /\ core'[r] = "done"
          /\ IsReplay(r) \/ battle.status # "active"
        BY <1>9 DEF Replays
    <2>2. battle.status # "active" \/ ~Uncommitted(key[r])
        BY <1>3, <2>1 DEF BattleOK, IsReplay, Key
    <2> QED
        BY <1>1, <1>2, <1>3, <2>1, <2>2 DEF LocalOK, Working, Played
<1>10. ASSUME SettleLegacyRating(r) PROVE LocalOK(r)'
    <2>1. /\ core[r] \in {"played", "half settled"} /\ core'[r] \in {"half settled", "settled"}
          /\ seen'[r] = seen[r] /\ outcome'[r] = outcome[r]
        BY <1>10, Domains DEF SettleLegacyRating
    <2>2. /\ core[r] \in Working /\ core[r] \in Played /\ core[r] # "idle"
          /\ core'[r] \in Working /\ core'[r] \notin {"done", "idle"}
        BY <2>1 DEF Working, Played
    <2> QED
        BY <1>1, <1>2, <1>3, <1>4, <2>1, <2>2 DEF LocalOK
<1> QED
    BY <1>1, <1>5, <1>6, <1>7, <1>8, <1>9, <1>10, CoreReadsLocals

\* Whoever writes the battle keeps its place, or has its operation committed.
LEMMA CommitsGrow ==
    ASSUME NEW k, Len(battle.commits) \in Nat,
           Len(battle'.commits) = Len(battle.commits) + 1,
           \A i \in 1..Len(battle.commits) : battle'.commits[i] = battle.commits[i]
    PROVE  /\ ~Uncommitted(k) => ~(\A i \in 1..Len(battle'.commits) : battle'.commits[i].op # k)
           /\ battle'.commits[Len(battle.commits) + 1].op = k =>
                ~(\A i \in 1..Len(battle'.commits) : battle'.commits[i].op # k)
BY DEF Uncommitted

LEMMA WriterGrows ==
    ASSUME TypeOK, LocalsOK, NEW r \in Requests, CoreWrites(r)
    PROVE  /\ BattleGrows /\ battle.status = "active"
           /\ Commits(r) => ~(\A i \in 1..Len(battle'.commits) : battle'.commits[i].op # key[r])
<1>1. SavesCheckpoint(r) \/ Commits(r) \/ (battle.status = "active" /\ Stops(r))
    BY CoreWritesFrame
<1>2. ASSUME SavesCheckpoint(r) PROVE BattleGrows /\ battle.status = "active"
    <2>1. Sees(r) /\ battle'.commits = battle.commits
        BY <1>2, CheckpointEffect
    <2> QED
        BY <2>1 DEF BattleGrows, Uncommitted, Sees
<1>3. ASSUME Commits(r)
      PROVE  /\ BattleGrows /\ battle.status = "active"
             /\ ~(\A i \in 1..Len(battle'.commits) : battle'.commits[i].op # key[r])
    <2>1. /\ Sees(r) /\ Len(battle.commits) \in Nat
          /\ Len(battle'.commits) = Len(battle.commits) + 1
          /\ \A i \in 1..Len(battle.commits) : battle'.commits[i] = battle.commits[i]
          /\ battle'.commits[Len(battle.commits) + 1].op = key[r]
        BY <1>3, CommitEffect
    <2>2. \A k \in Key : ~Uncommitted(k) => ~Uncommitted(k)'
        BY <2>1, CommitsGrow DEF Uncommitted
    <2>3. ~(\A i \in 1..Len(battle'.commits) : battle'.commits[i].op # key[r])
        BY <2>1
    <2> QED
        BY <2>1, <2>2, <2>3 DEF BattleGrows, Sees
<1>4. ASSUME battle.status = "active", Stops(r) PROVE BattleGrows
    <2>1. battle'.commits = battle.commits /\ battle'.status = "incomplete"
        BY <1>4, Domains DEF Stops, BattleRow
    <2> QED
        BY <1>4, <2>1 DEF BattleGrows, Uncommitted
<1> QED
    BY <1>1, <1>2, <1>3, <1>4

LEMMA WriterOwnLocal ==
    ASSUME TypeOK, LocalsOK, NEW r \in Requests, CoreWrites(r)
    PROVE  LocalOK(r)'
<1>1. /\ UNCHANGED <<lease, token, route, key>> /\ Fenced(r) /\ core[r] # "idle"
      /\ SavesCheckpoint(r) \/ Commits(r) \/ (battle.status = "active" /\ Stops(r))
    BY CoreWritesFrame DEF routeVars
<1>2. key[r] \in Key /\ route[r] \in {"waiting", "lost"}
    BY <1>1 DEF LocalsOK, LocalOK
<1>3. ASSUME SavesCheckpoint(r) PROVE LocalOK(r)'
    <2>1. /\ Sees(r) /\ battle'.op = key[r] /\ ~battle'.done /\ battle'.status = "active"
          /\ seen'[r] = battle' /\ core'[r] = "loaded"
        BY <1>3, CheckpointEffect DEF SavesCheckpoint
    <2>2. Sees(r)'
        BY <2>1 DEF Sees, IsReplay
    <2> QED
        BY <1>1, <1>2, <2>1, <2>2 DEF LocalOK, Working, Played
<1>4. ASSUME core'[r] = "done",
             \/ battle'.status # "active"
             \/ ~(\A i \in 1..Len(battle'.commits) : battle'.commits[i].op # key[r])
      PROVE  LocalOK(r)'
    <2>1. battle'.status # "active" \/ ~Uncommitted(key[r])'
        BY <1>1, <1>4 DEF Uncommitted
    <2> QED
        BY <1>1, <1>2, <1>4, <2>1 DEF LocalOK, Working, Played
<1>5. ASSUME Commits(r) PROVE LocalOK(r)'
    BY <1>4, <1>5, WriterGrows DEF Commits
<1>6. ASSUME Stops(r) PROVE LocalOK(r)'
    <2>1. battle'.status = "incomplete" /\ core'[r] = "done"
        BY <1>6, Domains DEF Stops, BattleRow
    <2> QED
        BY <1>4, <2>1
<1> QED
    BY <1>1, <1>3, <1>5, <1>6

LEMMA CoreLocals ==
    ASSUME TypeOK, LocalsOK, BattleOK, RowsOK, NEW r \in Requests, CoreAction(r)
    PROVE  LocalsOK' /\ BattleGrows
<1>1. ASSUME CoreReads(r) \/ SettleLegacyRating(r)
      PROVE  LocalOK(r)' /\ UNCHANGED battle /\ BattleGrows
    BY <1>1, ReaderOwnLocal DEF LocalsOK, BattleGrows, Uncommitted
<1>2. ASSUME CoreWrites(r) PROVE LocalOK(r)' /\ BattleGrows /\ Fenced(r)
    BY <1>2, WriterOwnLocal, WriterGrows, CoreWritesFrame
<1>3. LocalOK(r)' /\ BattleGrows
    BY <1>1, <1>2 DEF CoreAction
<1>4. ASSUME NEW q \in Requests, q # r PROVE LocalOK(q)'
    <2>1. Fenced(q)' => Fenced(q) /\ UNCHANGED battle
        BY <1>1, <1>2, <1>4, CoreFence DEF CoreAction, Fenced
    <2> QED
        BY <1>3, <1>4, <2>1, CoreOthers, LocalKept DEF LocalsOK
<1> QED
    BY <1>3, <1>4 DEF LocalsOK

LEMMA EnvironmentLocals ==
    ASSUME TypeOK, LocalsOK, Environment PROVE LocalsOK' /\ BattleGrows
<1>1. UNCHANGED <<route, key, coreVars>>
    BY DEF Environment, ReplayResponse, IdempotencyRowExpires, LeaseExpires, DeleteBattle,
           Finished, vars, routeVars
<1>2. BattleGrows
    <2>1. UNCHANGED battle \/ battle' = [battle EXCEPT !.status = "deleted"]
        BY DEF Environment, ReplayResponse, IdempotencyRowExpires, LeaseExpires, DeleteBattle,
               Finished, vars
    <2>2. battle'.commits = battle.commits
          /\ (battle'.status = battle.status \/ battle'.status = "deleted")
        BY <2>1, Domains DEF BattleRow
    <2> QED
        BY <2>2 DEF BattleGrows, Uncommitted
<1>3. ASSUME NEW q \in Requests PROVE LocalOK(q)'
    BY <1>1, <1>2, EnvironmentFence, LocalKept DEF LocalsOK, coreVars
<1> QED
    BY <1>2, <1>3 DEF LocalsOK

-----------------------------------------------------------------------------
(* The battle, its ratings and its sidecar.                                  *)

\* A response is stored only by a request whose advancement returned.
LEMMA RouteBattle ==
    ASSUME TypeOK, LocalsOK, BattleOK, NEW r \in Requests, RouteAction(r)
    PROVE  BattleOK'
<1>1. UNCHANGED <<battle, runtime, ratings>>
    BY RouteFrame
<1>2. ASSUME NEW k \in Key, idem'[k].status = "completed"
      PROVE  idem[k].status = "completed" \/ battle.status # "active" \/ ~Uncommitted(k)
    <2>1. CASE CompleteIdempotentRequest(r)
        <3>1. k = key[r] \/ idem'[k] = idem[k]
            BY <2>1, Domains DEF CompleteIdempotentRequest
        <3>2. battle.status # "active" \/ ~Uncommitted(key[r])
            BY <2>1 DEF CompleteIdempotentRequest, LocalsOK, LocalOK
        <3> QED
            BY <1>2, <3>1, <3>2
    <2>2. CASE \E j \in Key : BeginIdempotentRequest(r, j)
        BY <1>2, <2>2, Domains DEF BeginIdempotentRequest
    <2>3. CASE AbandonIdempotentRequest(r)
        BY <1>2, <2>3, Domains DEF AbandonIdempotentRequest, NoRow
    <2> QED
        BY <1>2, <2>1, <2>2, <2>3
        DEF RouteAction, RouteStep, AcquireBattleLease, AcquireRefused, ReleaseBattleLease,
            LoseIdempotencyOwnership, AnswerAdvance, LoseBattleLease, EndOrphan, CrashRequest
<1>3. CompletedKeyCommitted'
    BY <1>1, <1>2 DEF BattleOK, CompletedKeyCommitted, Uncommitted
<1> QED
    BY <1>1, <1>3 DEF BattleOK, RatedOnce, SidecarFollowsBattle, Uncommitted, Bound, World

LEMMA ReaderBattle ==
    ASSUME TypeOK, BattleOK, NEW r \in Requests, CoreReads(r)
    PROVE  BattleOK'
<1>1. UNCHANGED <<battle, ratings, routeVars>> /\ RuntimeKept(r)
    BY CoreReadsFrame, CoreReadsLocals
<1>2. SidecarFollowsBattle'
    BY <1>1 DEF RuntimeKept, BattleOK, SidecarFollowsBattle, Bound, World
<1> QED
    BY <1>1, <1>2
    DEF BattleOK, RatedOnce, CompletedKeyCommitted, Uncommitted, Bound, World, routeVars

LEMMA SettleBattle ==
    ASSUME BattleOK, NEW r \in Requests, SettleLegacyRating(r)
    PROVE  BattleOK'
BY DEF SettleLegacyRating, BattleOK, RatedOnce, SidecarFollowsBattle, CompletedKeyCommitted,
       Uncommitted, Bound, World, routeVars

LEMMA WriterBattle ==
    ASSUME TypeOK, LocalsOK, BattleOK, NEW r \in Requests, CoreWrites(r)
    PROVE  BattleOK'
<1>1. /\ UNCHANGED idem
      /\ SavesCheckpoint(r) \/ Commits(r) \/ (battle.status = "active" /\ Stops(r))
    BY CoreWritesFrame DEF routeVars
<1>2. BattleGrows /\ battle.status = "active" /\ ~battle.settled
    BY WriterGrows DEF BattleOK
<1>3. CompletedKeyCommitted'
    BY <1>1, <1>2 DEF BattleOK, CompletedKeyCommitted, BattleGrows, Uncommitted
<1>4. ASSUME SavesCheckpoint(r) PROVE BattleOK'
    <2>1. /\ ~Bound /\ battle'.world = battle.world /\ ~battle'.done
          /\ battle'.settled = battle.settled
        BY <1>4, CheckpointEffect DEF SavesCheckpoint
    <2> QED
        BY <1>2, <1>3, <2>1 DEF BattleOK, RatedOnce, SidecarFollowsBattle, Bound, World
<1>5. ASSUME Commits(r) PROVE BattleOK'
    <2>1. /\ Sees(r) /\ battle'.world = battle.world /\ battle'.op = key[r]
          /\ battle'.revision = battle.revision + outcome[r].receipts
          /\ battle'.status = IF Finishes(r) THEN "finished" ELSE "active"
          /\ battle'.settled <=> Finishes(r)
        BY <1>5, CommitEffect
    <2>2. ~Uncommitted(battle.op)'
        BY <1>5, <2>1, WriterGrows DEF Uncommitted
    <2>3. battle'.status = "active" => ~battle'.settled
        BY <2>1
    <2>4. Bound' <=> Bound
        BY <2>1 DEF Bound, World
    <2>5. ASSUME Bound PROVE RatedOnce' /\ SidecarFollowsBattle'
        <3>1. ratings' = SettledRatings(r) /\ runtime' = CommittedRuntime(r)
            BY <1>5, <2>5 DEF Commits
        <3>2. ~seen[r].settled /\ seen[r].revision = battle.revision
            BY <1>2, <2>1 DEF Sees
        <3>3. \A s \in Side : ratings[s] = 0
            BY <1>2, <2>5 DEF BattleOK, RatedOnce
        <3>4. ratings' = (IF Finishes(r) THEN [s \in Side |-> ratings[s] + 1] ELSE ratings)
            BY <3>1, <3>2 DEF SettledRatings
        <3>5. \A s \in Side : ratings'[s] = (IF Finishes(r) THEN 1 ELSE 0)
            BY <3>3, <3>4
        <3>6. RatedOnce'
            BY <2>1, <3>5 DEF RatedOnce
        <3>7. /\ runtime'.turn = battle'.revision
              /\ runtime'.status = IF Finishes(r) THEN "terminal" ELSE "active"
            BY <2>1, <3>1, <3>2 DEF CommittedRuntime
        <3> QED
            BY <2>1, <3>6, <3>7 DEF SidecarFollowsBattle
    <2>6. RatedOnce' /\ SidecarFollowsBattle'
        BY <2>4, <2>5 DEF RatedOnce, SidecarFollowsBattle
    <2> QED
        BY <1>3, <2>2, <2>3, <2>6 DEF BattleOK
<1>6. ASSUME Stops(r) PROVE BattleOK'
    <2>1. /\ battle'.status = "incomplete" /\ battle'.settled = battle.settled
          /\ battle'.world = battle.world /\ battle'.revision = battle.revision
          /\ battle'.done = battle.done /\ battle'.op = battle.op
          /\ battle'.commits = battle.commits /\ UNCHANGED ratings
        BY <1>6, Domains DEF Stops, BattleRow
    <2>2. runtime'.status = "incomplete" /\ runtime'.turn = runtime.turn
        BY <1>6, Domains DEF Stops, RuntimeRow
    <2>3. SidecarFollowsBattle'
        BY <1>2, <2>1, <2>2 DEF BattleOK, SidecarFollowsBattle, Bound, World
    <2>4. RatedOnce'
        BY <2>1 DEF BattleOK, RatedOnce, Bound, World
    <2>5. battle'.done /\ battle'.op # 0 => ~Uncommitted(battle.op)'
        BY <2>1 DEF BattleOK, Uncommitted
    <2> QED
        BY <1>3, <2>1, <2>3, <2>4, <2>5 DEF BattleOK
<1> QED
    BY <1>1, <1>4, <1>5, <1>6

LEMMA EnvironmentBattle ==
    ASSUME TypeOK, BattleOK, Environment PROVE BattleOK'
<1>1. /\ UNCHANGED <<runtime, ratings>>
      /\ UNCHANGED battle \/ battle' = [battle EXCEPT !.status = "deleted"]
    BY DEF Environment, ReplayResponse, IdempotencyRowExpires, LeaseExpires, DeleteBattle,
           Finished, vars
<1>2. ASSUME NEW k \in Key, idem'[k].status = "completed" PROVE idem[k].status = "completed"
    <2>1. CASE \E j \in Key : IdempotencyRowExpires(j)
        BY <1>2, <2>1, Domains DEF IdempotencyRowExpires, IdemRow
    <2> QED
        BY <1>2, <2>1
        DEF Environment, ReplayResponse, LeaseExpires, DeleteBattle, Finished, vars, routeVars
<1>3. CASE UNCHANGED battle
    BY <1>1, <1>2, <1>3
    DEF BattleOK, RatedOnce, SidecarFollowsBattle, CompletedKeyCommitted, Uncommitted, Bound, World
<1>4. CASE battle' = [battle EXCEPT !.status = "deleted"]
    <2>1. /\ battle'.status = "deleted" /\ battle'.settled = battle.settled
          /\ battle'.world = battle.world /\ battle'.done = battle.done
          /\ battle'.op = battle.op /\ battle'.commits = battle.commits
        BY <1>4, Domains DEF BattleRow
    <2>2. battle'.done /\ battle'.op # 0 => ~Uncommitted(battle.op)'
        BY <2>1 DEF BattleOK, Uncommitted
    <2> QED
        BY <1>1, <2>1, <2>2
        DEF BattleOK, RatedOnce, SidecarFollowsBattle, CompletedKeyCommitted, Bound, World
<1> QED
    BY <1>1, <1>3, <1>4

-----------------------------------------------------------------------------
(* The idempotency rows.                                                     *)

\* The steps that write no idempotency row leave every row's owner its row.
LEMMA CoreRows ==
    ASSUME RowsOK, NEW r \in Requests, CoreAction(r)
    PROVE  RowsOK'
<1>1. UNCHANGED <<lease, idem, answered, route, key, token>>
    BY CoreFrame DEF routeVars
<1> QED
    BY <1>1 DEF RowsOK, RowOK, OwnsRow, Fenced

LEMMA EnvironmentRows ==
    ASSUME TypeOK, LocalsOK, RowsOK, Environment PROVE RowsOK'
<1>1. UNCHANGED <<route, key, coreVars>>
    BY DEF Environment, ReplayResponse, IdempotencyRowExpires, LeaseExpires, DeleteBattle,
           Finished, vars, routeVars
<1>2. CASE \E k \in Key : ReplayResponse(k)
    BY <1>2 DEF ReplayResponse, RowsOK, RowOK, OwnsRow, Fenced, coreVars
<1>3. CASE \E k \in Key : IdempotencyRowExpires(k)
    <2>1. PICK k \in Key : IdempotencyRowExpires(k)
        BY <1>3
    <2>2. /\ \A j \in Key : idem'[j].status = idem[j].status /\ idem'[j].owner = idem[j].owner
          /\ \A j \in Key \ {k} : idem'[j].live = idem[j].live
          /\ UNCHANGED answered /\ answered \subseteq Key
        BY <2>1, Domains DEF IdempotencyRowExpires, IdemRow, TypeOK, RouteTypeOK
    <2>3. ASSUME NEW q \in Requests PROVE RowOK(q)'
        <3>1. route[q] = "begun" => key[q] # k
            BY <2>1 DEF IdempotencyRowExpires
        <3>2. route[q] # "idle" \/ Fenced(q) => key[q] \in Key
            BY DEF LocalsOK, LocalOK
        <3>3. \A p \in Requests : Fenced(p)' => Fenced(p)
            BY EnvironmentFence
        <3> QED
            BY <1>1, <2>2, <3>1, <3>2, <3>3 DEF RowsOK, RowOK, OwnsRow
    <2> QED
        BY <2>2, <2>3 DEF RowsOK
<1>4. CASE LeaseExpires \/ DeleteBattle \/ Finished
    <2>1. UNCHANGED <<idem, answered>>
        BY <1>4 DEF LeaseExpires, DeleteBattle, Finished, vars, routeVars
    <2>2. \A p \in Requests : Fenced(p)' => Fenced(p)
        BY EnvironmentFence
    <2> QED
        BY <1>1, <2>1, <2>2 DEF RowsOK, RowOK, OwnsRow
<1> QED
    BY <1>2, <1>3, <1>4 DEF Environment

\* A route step writes a row of its own or one nobody is processing.
LEMMA RouteRowsOther ==
    ASSUME TypeOK, LocalsOK, NEW r \in Requests, RouteAction(r),
           NEW q \in Requests, q # r, key[q] \in Key
    PROVE  /\ OwnsRow(q)' => OwnsRow(q)
           /\ OwnsRow(q) /\ idem[key[q]].live => idem'[key[q]] = idem[key[q]]
           /\ idem[key[q]].status = "completed" => idem'[key[q]].status = "completed"
           /\ idem'[key[q]].status = "completed" =>
                 \/ idem[key[q]].status = "completed"
                 \/ OwnsRow(r) /\ route[r] = "returned" /\ key[r] = key[q]
<1>1. key'[q] = key[q]
    BY RouteOthers
<1>2. CASE \E k \in Key : BeginIdempotentRequest(r, k)
    <2>1. PICK k \in Key : BeginIdempotentRequest(r, k)
        BY <1>2
    <2>2. /\ idem' = [idem EXCEPT ![k] = [status |-> "processing", owner |-> r, live |-> TRUE]]
          /\ idem[k].status # "completed"
          /\ idem[k].status = "processing" => ~idem[k].live
        BY <2>1 DEF BeginIdempotentRequest
    <2>3. CASE key[q] = k
        <3>1. idem'[k].owner = r /\ idem'[k].status = "processing"
            BY <2>2, Domains
        <3> QED
            BY <1>1, <2>2, <2>3, <3>1 DEF OwnsRow
    <2>4. CASE key[q] # k
        <3>1. idem'[key[q]] = idem[key[q]]
            BY <2>2, <2>4, Domains
        <3> QED
            BY <1>1, <3>1 DEF OwnsRow
    <2> QED
        BY <2>3, <2>4
<1>3. ASSUME OwnsRow(r),
             \/ /\ route[r] = "returned"
                /\ idem' = [idem EXCEPT ![key[r]] =
                               [idem[key[r]] EXCEPT !.status = "completed", !.live = FALSE]]
             \/ idem' = [idem EXCEPT ![key[r]] = NoRow]
      PROVE  /\ OwnsRow(q)' => OwnsRow(q)
             /\ OwnsRow(q) /\ idem[key[q]].live => idem'[key[q]] = idem[key[q]]
             /\ idem[key[q]].status = "completed" => idem'[key[q]].status = "completed"
             /\ idem'[key[q]].status = "completed" =>
                   \/ idem[key[q]].status = "completed"
                   \/ OwnsRow(r) /\ route[r] = "returned" /\ key[r] = key[q]
    <2>1. CASE key[q] # key[r]
        <3>1. idem'[key[q]] = idem[key[q]]
            BY <1>3, <2>1, Domains
        <3> QED
            BY <1>1, <3>1 DEF OwnsRow
    <2>2. CASE key[q] = key[r]
        <3>1. idem[key[q]].status = "processing" /\ ~OwnsRow(q)
            BY <1>3, <2>2 DEF OwnsRow
        <3>2. /\ idem'[key[q]].status \in {"completed", "absent"}
              /\ idem'[key[q]].status = "completed" => route[r] = "returned"
            <4>1. [idem[key[q]] EXCEPT !.status = "completed", !.live = FALSE].status = "completed"
                BY Domains DEF IdemRow
            <4>2. NoRow.status = "absent"
                BY DEF NoRow
            <4>3. idem'[key[q]] \in
                     {[idem[key[q]] EXCEPT !.status = "completed", !.live = FALSE], NoRow}
                BY <1>3, <2>2, Domains
            <4>4. idem'[key[q]] # NoRow => route[r] = "returned"
                BY <1>3, <2>2, Domains
            <4> QED
                BY <4>1, <4>2, <4>3, <4>4
        <3> QED
            BY <1>1, <1>3, <2>2, <3>1, <3>2 DEF OwnsRow
    <2> QED
        BY <2>1, <2>2
<1>4. CASE CompleteIdempotentRequest(r)
    BY <1>3, <1>4 DEF CompleteIdempotentRequest
<1>5. CASE AbandonIdempotentRequest(r) /\ OwnsRow(r)
    BY <1>3, <1>5 DEF AbandonIdempotentRequest
<1>6. ASSUME UNCHANGED idem PROVE OwnsRow(q)' <=> OwnsRow(q)
    BY <1>1, <1>6 DEF OwnsRow
<1>7. ASSUME ~(\E k \in Key : BeginIdempotentRequest(r, k)), ~CompleteIdempotentRequest(r),
             ~(AbandonIdempotentRequest(r) /\ OwnsRow(r))
      PROVE  UNCHANGED idem
    BY <1>7
    DEF RouteAction, RouteStep, AcquireBattleLease, AcquireRefused, ReleaseBattleLease,
        AbandonIdempotentRequest, LoseIdempotencyOwnership, AnswerAdvance, LoseBattleLease,
        EndOrphan, CrashRequest
<1> QED
    BY <1>2, <1>4, <1>5, <1>6, <1>7

LEMMA RouteAnswered ==
    ASSUME TypeOK, LocalsOK, RowsOK, NEW r \in Requests, RouteAction(r)
    PROVE  \A k \in answered' : idem'[k].status = "completed"
<1>1. ASSUME NEW k \in answered PROVE k \in Key /\ idem[k].status = "completed"
    BY DEF RowsOK, TypeOK, RouteTypeOK
<1>2. CASE \E k \in Key : BeginIdempotentRequest(r, k)
    BY <1>1, <1>2, Domains DEF BeginIdempotentRequest
<1>3. CASE CompleteIdempotentRequest(r)
    <2>1. /\ answered' = answered
          /\ idem' = [idem EXCEPT ![key[r]] =
                         [idem[key[r]] EXCEPT !.status = "completed", !.live = FALSE]]
        BY <1>3 DEF CompleteIdempotentRequest
    <2> QED
        BY <1>1, <2>1, Domains DEF IdemRow
<1>4. CASE AbandonIdempotentRequest(r)
    <2>1. /\ answered' = answered
          /\ idem' = IF OwnsRow(r) THEN [idem EXCEPT ![key[r]] = NoRow] ELSE idem
        BY <1>4 DEF AbandonIdempotentRequest
    <2> QED
        BY <1>1, <2>1, Domains DEF OwnsRow
<1>5. CASE AnswerAdvance(r)
    BY <1>1, <1>5 DEF AnswerAdvance, RowsOK, RowOK
<1>6. ASSUME ~(\E k \in Key : BeginIdempotentRequest(r, k)), ~CompleteIdempotentRequest(r),
             ~AbandonIdempotentRequest(r), ~AnswerAdvance(r)
      PROVE  UNCHANGED <<idem, answered>>
    BY <1>6
    DEF RouteAction, RouteStep, AcquireBattleLease, AcquireRefused, ReleaseBattleLease,
        LoseIdempotencyOwnership, LoseBattleLease, EndOrphan, CrashRequest
<1> QED
    BY <1>1, <1>2, <1>3, <1>4, <1>5, <1>6

\* Who passes the fence keeps its key; a request that takes the lease owns its row.
LEMMA RouteFencedKey ==
    ASSUME TypeOK, LocalsOK, RowsOK, NEW r \in Requests, RouteAction(r),
           NEW q \in Requests, Fenced(q)'
    PROVE  /\ key'[q] = key[q] /\ key[q] \in Key
           /\ \/ Fenced(q) /\ (q = r => LoseBattleLease(r))
              \/ q = r /\ AcquireBattleLease(r) /\ OwnsRow(r) /\ UNCHANGED idem
<1>1. CASE q = r /\ AcquireBattleLease(r)
    BY <1>1 DEF AcquireBattleLease, RowsOK, RowOK, LocalsOK, LocalOK
<1>2. ASSUME Fenced(q) PROVE key[q] \in Key /\ route[q] \in {"waiting", "lost"} /\ core[q] # "idle"
    BY <1>2 DEF LocalsOK, LocalOK
<1>3. CASE q # r
    BY <1>2, <1>3, RouteFence, RouteOthers
<1>4. CASE q = r /\ ~AcquireBattleLease(r)
    <2>1. Fenced(r) /\ LoseBattleLease(r)
        BY <1>2, <1>4, RouteFence
        DEF BeginIdempotentRequest, AcquireRefused, CompleteIdempotentRequest,
            LoseIdempotencyOwnership, AnswerAdvance, AbandonIdempotentRequest
    <2> QED
        BY <1>2, <1>4, <2>1 DEF LoseBattleLease
<1> QED
    BY <1>1, <1>3, <1>4

LEMMA RouteRows ==
    ASSUME TypeOK, LocalsOK, RowsOK, NEW r \in Requests, RouteAction(r)
    PROVE  RowsOK'
<1>1. ASSUME NEW q \in Requests, q # r PROVE RowOK(q)'
    <2>1. route'[q] = route[q] /\ key'[q] = key[q]
        BY <1>1, RouteOthers
    <2>2. route[q] # "idle" \/ Fenced(q) => key[q] \in Key
        BY DEF LocalsOK, LocalOK
    <2>3. route'[q] = "begun" => OwnsRow(q)' /\ idem'[key[q]].live
        <3>1. ASSUME route'[q] = "begun" PROVE key[q] \in Key /\ OwnsRow(q) /\ idem[key[q]].live
            BY <2>1, <2>2, <3>1 DEF RowsOK, RowOK
        <3>2. ASSUME route'[q] = "begun" PROVE idem'[key[q]] = idem[key[q]]
            BY <1>1, <3>1, <3>2, RouteRowsOther
        <3> QED
            BY <2>1, <3>1, <3>2 DEF OwnsRow
    <2>4. route'[q] = "answering" => idem'[key[q]].status = "completed"
        BY <1>1, <2>1, <2>2, RouteRowsOther DEF RowsOK, RowOK
    <2>5. ASSUME route'[q] \in {"waiting", "lost", "returned"}, OwnsRow(q)',
                 NEW p \in Requests \ {q}, key'[p] = key'[q]
          PROVE  ~Fenced(p)'
        <3>1. OwnsRow(q) /\ route[q] \in {"waiting", "lost", "returned"}
            BY <1>1, <2>1, <2>2, <2>5, RouteRowsOther
        <3>2. key[p] = key[q] => ~Fenced(p)
            BY <3>1 DEF RowsOK, RowOK
        <3>3. key[p] = key[q] => ~(p = r /\ OwnsRow(p))
            BY <3>1, <1>1 DEF OwnsRow
        <3> QED
            BY <2>1, <2>5, <3>2, <3>3, RouteFencedKey
    <2>6. ASSUME Fenced(q)' PROVE idem'[key[q]].status # "completed"
        <3>1. Fenced(q) /\ key[q] \in Key
            BY <1>1, <2>6, RouteFencedKey
        <3>2. ~(OwnsRow(r) /\ route[r] = "returned" /\ key[r] = key[q])
            BY <1>1, <3>1 DEF RowsOK, RowOK
        <3> QED
            BY <1>1, <3>1, <3>2, RouteRowsOther DEF RowsOK, RowOK
    <2> QED
        BY <2>1, <2>3, <2>4, <2>5, <2>6 DEF RowOK, OwnsRow
<1>2. /\ route'[r] = "begun" => OwnsRow(r)' /\ idem'[key'[r]].live
      /\ route'[r] = "answering" => idem'[key'[r]].status = "completed"
    <2>1. CASE \E k \in Key : BeginIdempotentRequest(r, k)
        <3>1. PICK k \in Key : BeginIdempotentRequest(r, k)
            BY <2>1
        <3>2. /\ route'[r] = "begun" /\ key'[r] = k
              /\ idem'[k] = [status |-> "processing", owner |-> r, live |-> TRUE]
            BY <3>1, Domains DEF BeginIdempotentRequest
        <3> QED
            BY <3>2 DEF OwnsRow
    <2>2. CASE CompleteIdempotentRequest(r)
        <3>1. /\ route'[r] = "answering" /\ UNCHANGED key /\ key[r] \in Key
              /\ idem' = [idem EXCEPT ![key[r]] =
                             [idem[key[r]] EXCEPT !.status = "completed", !.live = FALSE]]
            BY <2>2, Domains DEF CompleteIdempotentRequest, LocalsOK, LocalOK
        <3>2. idem'[key[r]].status = "completed"
            BY <3>1, Domains DEF IdemRow
        <3> QED
            BY <3>1, <3>2
    <2>3. ASSUME ~(\E k \in Key : BeginIdempotentRequest(r, k)), ~CompleteIdempotentRequest(r)
          PROVE  \/ route'[r] \notin {"begun", "answering"}
                 \/ EndOrphan(r)
        BY <2>3, Domains
        DEF RouteAction, RouteStep, AcquireBattleLease, AcquireRefused, ReleaseBattleLease,
            AbandonIdempotentRequest, LoseIdempotencyOwnership, AnswerAdvance,
            LoseBattleLease, CrashRequest
    <2>4. CASE EndOrphan(r)
        <3>1. UNCHANGED <<route, idem>> /\ (route[r] # "idle" => key'[r] = key[r])
            BY <2>4, Domains DEF EndOrphan
        <3> QED
            BY <3>1 DEF RowsOK, RowOK, OwnsRow
    <2> QED
        BY <2>1, <2>2, <2>3, <2>4
<1>3. ASSUME route'[r] \in {"waiting", "lost", "returned"}, OwnsRow(r)',
             NEW p \in Requests \ {r}, key'[p] = key'[r]
      PROVE  ~Fenced(p)'
    <2>1. CASE AcquireBattleLease(r)
        BY <2>1 DEF AcquireBattleLease, Fenced
    <2>2. CASE ~AcquireBattleLease(r)
        <3>1. /\ route[r] \in {"waiting", "lost", "returned"}
              /\ key'[r] = key[r] /\ UNCHANGED idem
            BY <1>3, <2>2, Domains
            DEF RouteAction, RouteStep, BeginIdempotentRequest, AcquireRefused,
                ReleaseBattleLease, CompleteIdempotentRequest, AbandonIdempotentRequest,
                LoseIdempotencyOwnership, AnswerAdvance, LoseBattleLease, EndOrphan,
                CrashRequest
        <3>2. OwnsRow(r) /\ key[p] = key[r]
            BY <1>3, <3>1, RouteOthers DEF OwnsRow
        <3>3. ~Fenced(p)
            BY <1>3, <3>1, <3>2 DEF RowsOK, RowOK
        <3> QED
            BY <1>3, <3>3, RouteFence
    <2> QED
        BY <2>1, <2>2
<1>4. ASSUME Fenced(r)' PROVE idem'[key'[r]].status # "completed"
    <2>1. key'[r] = key[r] /\ (Fenced(r) \/ OwnsRow(r)) /\ UNCHANGED idem
        BY <1>4, RouteFencedKey DEF LoseBattleLease
    <2> QED
        BY <2>1 DEF RowsOK, RowOK, OwnsRow
<1>5. RowOK(r)'
    BY <1>2, <1>3, <1>4 DEF RowOK
<1> QED
    BY <1>1, <1>5, RouteAnswered DEF RowsOK

-----------------------------------------------------------------------------
(* The inductive invariant.                                                  *)

LEMMA AdvanceInit == Init => AdvanceInv
<1> SUFFICES ASSUME Init PROVE AdvanceInv
    OBVIOUS
<1>1. PICK w \in Worlds : battle = NewBattle(w)
    BY DEF Init
<1>2. /\ battle.commits = <<>> /\ battle.op = 0 /\ ~battle.settled /\ battle.status = "active"
      /\ battle.revision = 0
    BY <1>1 DEF NewBattle
<1>3. LocalsOK
    BY DEF LocalsOK, LocalOK, Init, Fenced, NoLease, Working, Played
<1>4. BattleOK
    <2>1. \A k \in Key : idem[k].status # "completed"
        BY DEF Init, NoRow
    <2>2. /\ \A s \in Side : ratings[s] = 0
          /\ runtime.turn = 0 /\ runtime.status = "active"
        BY DEF Init
    <2> QED
        BY <1>2, <2>1, <2>2
        DEF BattleOK, RatedOnce, SidecarFollowsBattle, CompletedKeyCommitted
<1>5. RowsOK
    BY DEF RowsOK, RowOK, Init, Fenced, NoLease
<1> QED
    BY <1>3, <1>4, <1>5, TypeInit DEF AdvanceInv

LEMMA AdvanceStep == AdvanceInv /\ [Next]_vars => AdvanceInv'
<1> SUFFICES ASSUME AdvanceInv, [Next]_vars PROVE AdvanceInv'
    OBVIOUS
<1> USE DEF AdvanceInv
<1>1. ASSUME NEW r \in Requests, RouteAction(r) PROVE AdvanceInv'
    BY <1>1, RouteType, RouteLocals, RouteBattle, RouteRows
<1>2. ASSUME NEW r \in Requests, CoreAction(r) PROVE AdvanceInv'
    <2>1. TypeOK'
        BY <1>2, CoreReadsType, CoreWritesType, SettleType DEF CoreAction
    <2>2. BattleOK'
        BY <1>2, ReaderBattle, WriterBattle, SettleBattle DEF CoreAction
    <2> QED
        BY <1>2, <2>1, <2>2, CoreLocals, CoreRows
<1>3. CASE Environment
    BY <1>3, EnvironmentType, EnvironmentLocals, EnvironmentBattle, EnvironmentRows
<1>4. CASE UNCHANGED vars
    <2>1. TypeOK'
        BY <1>4 DEF vars, routeVars, coreVars, TypeOK, RowTypeOK, RouteTypeOK, CoreTypeOK
    <2>2. LocalsOK'
        BY <1>4
        DEF vars, routeVars, coreVars, LocalsOK, LocalOK, Fenced, Sees, IsReplay, Uncommitted
    <2>3. BattleOK'
        BY <1>4
        DEF vars, routeVars, coreVars, BattleOK, RatedOnce, SidecarFollowsBattle,
            CompletedKeyCommitted, Uncommitted, Bound, World
    <2>4. RowsOK'
        BY <1>4 DEF vars, routeVars, coreVars, RowsOK, RowOK, OwnsRow, Fenced
    <2> QED
        BY <2>1, <2>2, <2>3, <2>4
<1> QED
    BY <1>1, <1>2, <1>3, <1>4, Steps

LEMMA AdvanceInvariant == Spec => []AdvanceInv
<1>1. AdvanceInv /\ [Next]_vars => AdvanceInv'
    BY AdvanceStep
<1> QED
    BY <1>1, AdvanceInit, PTL DEF Spec

-----------------------------------------------------------------------------
(* Clients that do not overlap.                                              *)

LEMMA OnceInit == Init => OnceOK
<1> SUFFICES ASSUME Init PROVE OnceOK
    OBVIOUS
<1>1. Len(battle.commits) = 0
    BY DEF Init, NewBattle
<1> QED
    BY <1>1 DEF OnceOK, OperationOnce, Init, Fenced, NoLease

LEMMA OnceRoute ==
    ASSUME AdvanceInv, OnceOK, "overlap" \notin Faults, NEW r \in Requests, RouteAction(r)
    PROVE  OnceOK'
<1> USE DEF AdvanceInv
<1>1. UNCHANGED battle
    BY RouteFrame
<1>2. /\ newest \in Nat /\ \A i \in 1..Len(battle.commits) : battle.commits[i].op \in Nat
    <2>1. battle.commits \in Seq(Commit)
        BY Domains DEF BattleRow
    <2>2. \A i \in 1..Len(battle.commits) : battle.commits[i] \in Commit
        BY <2>1, ElementOfSeq
    <2> QED
        BY <2>2, AdvanceAssumption DEF Commit, Key, TypeOK, RouteTypeOK
<1>3. CASE \E k \in Key : BeginIdempotentRequest(r, k)
    <2>1. PICK k \in Key : BeginIdempotentRequest(r, k)
        BY <1>3
    <2>2. /\ k = newest \/ (k = newest + 1 /\ newest \in answered \cup {0})
          /\ newest' = IF k > newest THEN k ELSE newest
          /\ key'[r] = k /\ UNCHANGED <<lease, token>>
        BY <2>1, Domains DEF BeginIdempotentRequest, Sends, coreVars
    <2>3. newest' = k
        BY <1>2, <2>2
    <2>4. CASE k = newest
        <3>1. \A q \in Requests : route'[q] = "begun" \/ Fenced(q)' => key'[q] = newest
            BY <2>2, <2>4, RouteOthers DEF OnceOK, Fenced
        <3> QED
            BY <1>1, <2>3, <2>4, <3>1 DEF OnceOK, OperationOnce, Uncommitted
    <2>5. CASE k = newest + 1
        <3>1. ASSUME NEW q \in Requests PROVE ~(route[q] = "begun" \/ Fenced(q))
            <4>1. SUFFICES ASSUME route[q] = "begun" \/ Fenced(q) PROVE FALSE
                OBVIOUS
            <4>2. key[q] = newest /\ key[q] \in Key
                BY <4>1 DEF OnceOK, LocalsOK, LocalOK
            <4>3. newest \in answered
                BY <1>2, <2>2, <2>5, <4>2 DEF Key
            <4> QED
                BY <4>1, <4>2, <4>3 DEF RowsOK, RowOK, OwnsRow
        <3>2. \A q \in Requests : route'[q] = "begun" \/ Fenced(q)' => key'[q] = newest + 1
            BY <2>2, <2>5, <3>1, RouteOthers DEF Fenced
        <3>3. \A i \in 1..Len(battle.commits) : battle.commits[i].op < newest + 1
            BY <1>2 DEF OnceOK
        <3>4. \A i \in 1..Len(battle.commits) :
                 battle.commits[i].op <= newest + 1 /\ battle.commits[i].op # newest + 1
            BY <1>2, <3>3
        <3> QED
            BY <1>1, <2>3, <2>5, <3>2, <3>4 DEF OnceOK, OperationOnce, Uncommitted
    <2> QED
        BY <2>2, <2>4, <2>5
<1>4. CASE ~(\E k \in Key : BeginIdempotentRequest(r, k))
    <2>1. newest' = newest
        BY <1>4
        DEF RouteAction, RouteStep, AcquireBattleLease, AcquireRefused, ReleaseBattleLease,
            CompleteIdempotentRequest, AbandonIdempotentRequest, LoseIdempotencyOwnership,
            AnswerAdvance, LoseBattleLease, EndOrphan, CrashRequest
    <2>2. ASSUME route'[r] = "begun" PROVE route[r] = "begun" /\ key'[r] = key[r]
        BY <1>4, <2>2, Domains
        DEF RouteAction, RouteStep, AcquireBattleLease, AcquireRefused, ReleaseBattleLease,
            CompleteIdempotentRequest, AbandonIdempotentRequest, LoseIdempotencyOwnership,
            AnswerAdvance, LoseBattleLease, EndOrphan, CrashRequest
    <2>3. ASSUME NEW q \in Requests, route'[q] = "begun" \/ Fenced(q)' PROVE key'[q] = newest
        <3>1. CASE route'[q] = "begun"
            BY <2>2, <3>1, RouteOthers DEF OnceOK
        <3>2. CASE Fenced(q)'
            BY <3>2, RouteFencedKey DEF OnceOK, AcquireBattleLease
        <3> QED
            BY <2>3, <3>1, <3>2
    <2> QED
        BY <1>1, <2>1, <2>3 DEF OnceOK, OperationOnce, Uncommitted
<1> QED
    BY <1>3, <1>4

LEMMA OnceCore ==
    ASSUME AdvanceInv, OnceOK, NEW r \in Requests, CoreAction(r)
    PROVE  OnceOK'
<1> USE DEF AdvanceInv
<1>1. /\ UNCHANGED <<newest, key, route, lease, token>>
      /\ \A q \in Requests : Fenced(q)' <=> Fenced(q)
    BY CoreFrame DEF routeVars, Fenced
<1>2. \A q \in Requests : route'[q] = "begun" \/ Fenced(q)' => key'[q] = newest'
    BY <1>1 DEF OnceOK
<1>3. ASSUME UNCHANGED battle PROVE OnceOK'
    BY <1>1, <1>2, <1>3 DEF OnceOK, OperationOnce, Uncommitted
<1>4. CASE CoreReads(r) \/ SettleLegacyRating(r)
    BY <1>3, <1>4, ReaderOwnLocal DEF LocalsOK
<1>5. CASE CoreWrites(r)
    <2>1. /\ Fenced(r) /\ key[r] = newest
          /\ SavesCheckpoint(r) \/ Commits(r) \/ Stops(r)
        BY <1>5, CoreWritesFrame DEF OnceOK
    <2>2. ASSUME SavesCheckpoint(r) PROVE OnceOK'
        <3>1. Sees(r) /\ battle'.commits = battle.commits
            BY <1>5, <2>2, CheckpointEffect
        <3>2. ~(battle.done /\ battle.op = newest)
            BY <2>1, <3>1 DEF Sees, IsReplay
        <3> QED
            BY <1>1, <1>2, <3>1, <3>2 DEF OnceOK, OperationOnce, Uncommitted
    <2>3. ASSUME Stops(r) PROVE OnceOK'
        <3>1. /\ battle'.commits = battle.commits /\ battle'.done = battle.done
              /\ battle'.op = battle.op
            BY <2>3, Domains DEF Stops, BattleRow
        <3> QED
            BY <1>1, <1>2, <3>1 DEF OnceOK, OperationOnce, Uncommitted
    <2>4. ASSUME Commits(r) PROVE OnceOK'
        <3> DEFINE n == Len(battle.commits)
        <3>1. /\ Sees(r) /\ key[r] \in Key /\ battle'.done /\ battle'.op = key[r]
              /\ n \in Nat /\ Len(battle'.commits) = n + 1
              /\ \A i \in 1..n : battle'.commits[i] = battle.commits[i]
              /\ battle'.commits[n + 1].op = key[r]
            BY <1>5, <2>4, CommitEffect
        <3>2. newest \in Nat /\ newest # 0
            BY <2>1, <3>1, AdvanceAssumption DEF Key
        <3>3. ~(battle.done /\ battle.op = newest)
            BY <2>1, <3>1 DEF Sees, IsReplay
        <3>4. \A i \in 1..n : battle.commits[i].op # newest
            BY <3>2, <3>3 DEF OnceOK, Uncommitted
        <3>5. \A i \in 1..n + 1 :
                 /\ i \in 1..n \/ i = n + 1
                 /\ i \in 1..n => battle'.commits[i].op = battle.commits[i].op
                 /\ i = n + 1 => battle'.commits[i].op = newest
            BY <2>1, <3>1
        <3>6. \A i \in 1..n + 1 : battle'.commits[i].op <= newest
            BY <3>2, <3>5 DEF OnceOK
        <3>7. \A i, j \in 1..n + 1 : battle'.commits[i].op = battle'.commits[j].op => i = j
            BY <3>4, <3>5 DEF OnceOK, OperationOnce
        <3> QED
            BY <1>1, <1>2, <2>1, <3>1, <3>6, <3>7 DEF OnceOK, OperationOnce
    <2> QED
        BY <2>1, <2>2, <2>3, <2>4
<1> QED
    BY <1>4, <1>5 DEF CoreAction

LEMMA OnceEnvironment ==
    ASSUME AdvanceInv, OnceOK, Environment PROVE OnceOK'
<1>1. UNCHANGED <<newest, key, route>>
    BY DEF Environment, ReplayResponse, IdempotencyRowExpires, LeaseExpires, DeleteBattle,
           Finished, vars, routeVars
<1>2. UNCHANGED battle \/ battle' = [battle EXCEPT !.status = "deleted"]
    BY DEF Environment, ReplayResponse, IdempotencyRowExpires, LeaseExpires, DeleteBattle,
           Finished, vars
<1>3. battle'.commits = battle.commits /\ battle'.done = battle.done /\ battle'.op = battle.op
    BY <1>2, Domains DEF BattleRow, AdvanceInv
<1> QED
    BY <1>1, <1>3, EnvironmentFence DEF OnceOK, OperationOnce, Uncommitted

-----------------------------------------------------------------------------
(* Theorems.                                                                 *)

\* The rows and the locals of the requests are well formed.
THEOREM AdvanceTypes == Spec => []TypeOK
<1>1. AdvanceInv => TypeOK
    BY DEF AdvanceInv
<1> QED
    BY <1>1, AdvanceInvariant, PTL

\* A key whose row is completed was carried out, or the battle had ended, whatever
\* is retried, taken over, lost or left behind (routes.ts, the advance route).
THEOREM DoneMeansDone == Spec => []CompletedKeyCommitted
<1>1. AdvanceInv => CompletedKeyCommitted
    BY DEF AdvanceInv, BattleOK
<1> QED
    BY <1>1, AdvanceInvariant, PTL

\* A bound battle is counted once in each side's record when it is finished, and not
\* before (settleBattleRatingInTransaction, called by the world commits).
THEOREM RatingsFollowBattle == Spec => []RatedOnce
<1>1. AdvanceInv => RatedOnce
    BY DEF AdvanceInv, BattleOK
<1> QED
    BY <1>1, AdvanceInvariant, PTL

\* The sidecar row and the canonical battle advance and end together (the world
\* commits and the stops of schemas 5 to 7).
THEOREM SidecarAgrees == Spec => []SidecarFollowsBattle
<1>1. AdvanceInv => SidecarFollowsBattle
    BY DEF AdvanceInv, BattleOK
<1> QED
    BY <1>1, AdvanceInvariant, PTL

\* Between clients that do not overlap, no operation is committed twice, with any
\* number of requests, retries, crashes, lost leases and takeovers: the battle page
\* sends the next key only when the last is answered (BattlePage.tsx, advanceKeyRef).
THEOREM OneCommitPerOperation ==
    ASSUME "overlap" \notin Faults
    PROVE  Spec => []OperationOnce
<1>1. OnceOK => OperationOnce
    BY DEF OnceOK
<1>2. AdvanceInv /\ OnceOK /\ [Next]_vars => OnceOK'
    <2> SUFFICES ASSUME AdvanceInv, OnceOK, [Next]_vars PROVE OnceOK'
        OBVIOUS
    <2>1. CASE UNCHANGED vars
        BY <2>1
        DEF OnceOK, OperationOnce, Uncommitted, Fenced, vars, routeVars, coreVars
    <2> QED
        BY <2>1, Steps, OnceRoute, OnceCore, OnceEnvironment
<1> QED
    BY <1>1, <1>2, AdvanceInvariant, OnceInit, PTL DEF Spec

\* A battle that has ended stays ended: an advancement left behind by a lost lease
\* never plays on a battle its successor stopped or finished.
LEMMA EndedStep ==
    AdvanceInv /\ [Next]_vars =>
        [battle.status # "active" => battle'.status \in {battle.status, "deleted"}]_vars
<1> SUFFICES ASSUME AdvanceInv, [Next]_vars, battle.status # "active"
             PROVE  battle'.status \in {battle.status, "deleted"} \/ UNCHANGED vars
    OBVIOUS
<1> USE DEF AdvanceInv
<1>1. ASSUME NEW r \in Requests, RouteAction(r) PROVE UNCHANGED battle
    BY <1>1, RouteFrame
<1>2. ASSUME NEW r \in Requests, CoreAction(r) PROVE UNCHANGED battle
    BY <1>2, ReaderOwnLocal, WriterGrows DEF CoreAction, LocalsOK
<1>3. CASE Environment
    BY <1>3, Domains
    DEF Environment, ReplayResponse, IdempotencyRowExpires, LeaseExpires, DeleteBattle,
        Finished, vars, BattleRow
<1> QED
    BY <1>1, <1>2, <1>3, Steps

THEOREM EndedIsFinal == Spec => EndedStaysEnded
<1>1. AdvanceInv /\ [Next]_vars =>
         [battle.status # "active" => battle'.status \in {battle.status, "deleted"}]_vars
    BY EndedStep
<1> QED
    BY <1>1, AdvanceInvariant, PTL DEF Spec, EndedStaysEnded

\* What a step makes of the decisions a turn has saved.
Kept == IF battle'.revision = battle.revision THEN battle'.decided
        ELSE battle'.commits[Len(battle'.commits)].decided

DecisionsKept ==
    /\ Len(battle.decided) <= Len(Kept)
    /\ \A i \in 1..Len(battle.decided) : Kept[i] = battle.decided[i]

LEMMA DecisionsStep == AdvanceInv /\ [Next]_vars => DecisionsKept
<1> SUFFICES ASSUME AdvanceInv, [Next]_vars PROVE DecisionsKept
    OBVIOUS
<1> USE DEF AdvanceInv
<1>0. Len(battle.decided) \in Nat /\ battle.revision \in Nat
    BY Domains, LenProperties DEF BattleRow
<1>1. ASSUME battle'.revision = battle.revision, battle'.decided = battle.decided
      PROVE  DecisionsKept
    BY <1>0, <1>1 DEF DecisionsKept, Kept
<1>2. ASSUME NEW r \in Requests, RouteAction(r) PROVE DecisionsKept
    BY <1>1, <1>2, RouteFrame
<1>3. ASSUME NEW r \in Requests, CoreReads(r) \/ SettleLegacyRating(r) PROVE DecisionsKept
    BY <1>1, <1>3, ReaderOwnLocal DEF LocalsOK
<1>4. ASSUME NEW r \in Requests, CoreWrites(r) PROVE DecisionsKept
    <2>1. SavesCheckpoint(r) \/ Commits(r) \/ Stops(r)
        BY <1>4, CoreWritesFrame
    <2>2. ASSUME SavesCheckpoint(r) PROVE DecisionsKept
        <3>1. /\ battle'.revision = battle.revision
              /\ Len(battle'.decided) = Len(battle.decided) + 1
              /\ \A i \in 1..Len(battle.decided) : battle'.decided[i] = battle.decided[i]
            BY <1>4, <2>2, CheckpointEffect
        <3> QED
            BY <1>0, <3>1 DEF DecisionsKept, Kept
    <2>3. ASSUME Commits(r) PROVE DecisionsKept
        <3>1. /\ outcome[r].receipts \in 1..2 /\ Len(battle.commits) \in Nat
              /\ battle'.revision = battle.revision + outcome[r].receipts
              /\ Len(battle'.commits) = Len(battle.commits) + 1
              /\ battle'.commits[Len(battle.commits) + 1].decided = battle.decided
            BY <1>4, <2>3, CommitEffect
        <3>2. Kept = battle.decided
            BY <1>0, <3>1 DEF Kept
        <3> QED
            BY <1>0, <3>2 DEF DecisionsKept
    <2>4. ASSUME Stops(r) PROVE DecisionsKept
        BY <1>1, <2>4, Domains DEF Stops, BattleRow
    <2> QED
        BY <2>1, <2>2, <2>3, <2>4
<1>5. CASE Environment
    <2>1. UNCHANGED battle \/ battle' = [battle EXCEPT !.status = "deleted"]
        BY <1>5
        DEF Environment, ReplayResponse, IdempotencyRowExpires, LeaseExpires, DeleteBattle,
            Finished, vars
    <2> QED
        BY <1>1, <2>1, Domains DEF BattleRow
<1>6. CASE UNCHANGED vars
    BY <1>1, <1>6 DEF vars
<1> QED
    BY <1>2, <1>3, <1>4, <1>5, <1>6, Steps DEF CoreAction

\* What a turn's checkpoints have decided is never decided again: until the commit
\* the saved decisions only grow, and the commit is made from all of them.  The fence
\* is what makes it so: every checkpoint of a turn is saved at one revision.
THEOREM CheckpointsStand == Spec => DecisionsStand
<1>1. AdvanceInv /\ [Next]_vars => [DecisionsKept]_vars
    BY DecisionsStep
<1>2. DecisionsStand <=> [][DecisionsKept]_vars
    BY DEF DecisionsStand, DecisionsKept, Kept
<1> QED
    BY <1>1, <1>2, AdvanceInvariant, PTL DEF Spec
=============================================================================
