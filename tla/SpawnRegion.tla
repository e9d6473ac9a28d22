---------------------------- MODULE SpawnRegion ----------------------------
(***************************************************************************)
(* pose_graph_label_region and pose_graph_label_region_ex: the labellers    *)
(* that start a fresh thread for every chunk of a round but the last,       *)
(* run the last one on the calling thread and join before the next round.   *)
(* A thread that cannot be created ends the call: the caller's own chunk    *)
(* is skipped and the threads already launched are joined.                  *)
(***************************************************************************)
EXTENDS ChunkPlan

VARIABLES
  cpc,                               \* where the calling thread is
  call, block, n, args, rc,          \* its locals
  launched,                          \* threads created in this round
  tpc,                               \* the threads: "none", "label", "done"
  region

vars == <<cpc, call, block, n, args, rc, launched, tpc, region>>

Init ==
  /\ cpc = "idle"
  /\ call = NoCall /\ block = 0 /\ n = 0 /\ rc = 0 /\ launched = 0
  /\ args = [i \in Threads |-> Unused]
  /\ tpc = [i \in Threads |-> "none"]
  /\ region = [b \in RegionBlocks |-> Old]

----------------------------------------------------------------------------
\* Argument checks; pose_graph_label_region also allocates its scratch
\* buffers here (allocOK: it may fail), which _ex gets from its caller.
BeginCall(c, allocOK) ==
  /\ cpc = "idle"
  /\ call' = c /\ block' = 0 /\ n' = 0
  /\ rc' = IF BadArgs(c) \/ ~allocOK THEN -1 ELSE 0
  /\ cpc' = IF rc' = 0 THEN "fill" ELSE "return"
  /\ region' = [b \in RegionBlocks |-> Old]
  /\ UNCHANGED <<args, launched, tpc>>

FillRound ==
  /\ cpc = "fill"
  /\ n' = RoundSize(call, block)
  /\ args' = [i \in Threads |->
                IF i < n' THEN ChunkArg(call, block, i) ELSE args[i]]
  /\ block' = NextBlock(call, block)
  /\ launched' = 0
  /\ cpc' = "launch"
  /\ UNCHANGED <<call, rc, tpc, region>>

LaunchThread ==
  /\ cpc = "launch" /\ launched < n - 1
  /\ tpc' = [tpc EXCEPT ![launched] = "label"]
  /\ launched' = launched + 1
  /\ UNCHANGED <<cpc, call, block, n, args, rc, region>>

\* Mutation of LaunchFails: the threads already running are not joined.
MutLaunchFails ==
  /\ cpc = "launch" /\ launched < n - 1
  /\ rc' = -1
  /\ cpc' = "return"
  /\ UNCHANGED <<call, block, n, args, launched, tpc, region>>

\* Mutation of LaunchFails: the caller runs its own chunk all the same.
MutSkippedChunk ==
  /\ cpc = "launch" /\ launched < n - 1
  /\ rc' = -1
  /\ cpc' = "label"
  /\ UNCHANGED <<call, block, n, args, launched, tpc, region>>

LaunchFails ==
  /\ cpc = "launch" /\ launched < n - 1
  /\ rc' = -1
  /\ cpc' = "join"
  /\ UNCHANGED <<call, block, n, args, launched, tpc, region>>

LaunchDone ==
  /\ cpc = "launch" /\ launched = n - 1
  /\ cpc' = "label"
  /\ UNCHANGED <<call, block, n, args, rc, launched, tpc, region>>

\* chunk_thread_fn: do_label labels the chunk or refuses it; no sink here.
RunChunk(i) ==
  IF CanLabel(args[i].m)
  THEN region' = WriteChunk(region, args[i]) /\ UNCHANGED args
  ELSE args' = [args EXCEPT ![i].rc = -1] /\ UNCHANGED region

ThreadLabel(i) ==
  /\ tpc[i] = "label"
  /\ RunChunk(i)
  /\ tpc' = [tpc EXCEPT ![i] = "done"]
  /\ UNCHANGED <<cpc, call, block, n, rc, launched>>

CallerLabel ==
  /\ cpc = "label"
  /\ RunChunk(n - 1)
  /\ cpc' = "join"
  /\ UNCHANGED <<call, block, n, rc, launched, tpc>>

\* The pthread_join loop over the threads that were launched.
JoinRound ==
  /\ cpc = "join"
  /\ \A i \in 0 .. launched - 1 : tpc[i] = "done"
  /\ tpc' = [i \in Threads |-> IF tpc[i] = "done" THEN "none" ELSE tpc[i]]
  /\ cpc' = "collect"
  /\ UNCHANGED <<call, block, n, args, rc, launched, region>>

FirstError ==
  LET bad == {i \in Threads : i < n /\ args[i].rc # 0}
  IN  IF bad = {} THEN 0 ELSE args[Min(bad)].rc

\* Mutation of CollectRound: the chunks' results hide a failed creation.
MutCollectRound ==
  /\ cpc = "collect"
  /\ rc' = FirstError
  /\ cpc' = IF rc' = 0 /\ HasChunk(call, block) THEN "fill" ELSE "return"
  /\ UNCHANGED <<call, block, n, args, launched, tpc, region>>

CollectRound ==
  /\ cpc = "collect"
  /\ rc' = IF rc = 0 THEN FirstError ELSE rc
  /\ cpc' = IF rc' = 0 /\ HasChunk(call, block) THEN "fill" ELSE "return"
  /\ UNCHANGED <<call, block, n, args, launched, tpc, region>>

\* The scratch buffers are freed and the frame is gone.
Return ==
  /\ cpc = "return"
  /\ cpc' = "idle"
  /\ call' = NoCall /\ block' = 0 /\ n' = 0 /\ rc' = 0 /\ launched' = 0
  /\ args' = [i \in Threads |-> Unused]
  /\ UNCHANGED <<tpc, region>>

RegionCalls == {c \in Calls : c.op = "region"}

CallStep ==
  \/ FillRound \/ LaunchThread \/ LaunchFails \/ LaunchDone
  \/ CallerLabel \/ JoinRound \/ CollectRound \/ Return

Next ==
  \/ \E c \in RegionCalls, allocOK \in BOOLEAN : BeginCall(c, allocOK)
  \/ CallStep
  \/ \E i \in Threads : ThreadLabel(i)

Spec == Init /\ [][Next]_vars

\* Every thread keeps running.  A thread creation need not fail.
FairSpec ==
  /\ Spec
  /\ WF_vars(CallStep)
  /\ \A i \in Threads : WF_vars(ThreadLabel(i))

----------------------------------------------------------------------------
(* Properties.                                                              *)

\* No thread outlives its round: when the frame with args[] is refilled or
\* gone and the scratch buffers freed, nothing still runs on them, also when
\* a thread could not be created half way through a round.
NoStrayThread ==
  cpc \in {"idle", "fill", "collect", "return"} =>
    \A i \in Threads : tpc[i] = "none"

\* Was chunk i of the round run?  By its thread if that was launched, the last
\* one by the caller; but the caller skips it when a creation has failed.
Ran(i) == i < launched \/ launched = n - 1

\* Once the joins are over, a creation that failed has left the round's chunks
\* whole: a chunk that was launched and not refused has every label, the ones
\* the failure kept from running hold what they held before, as does whatever
\* comes after the round; and all rounds before it are complete.
PartialRoundIsClean ==
  cpc \in {"collect", "return"} =>
    \A b \in RegionBlocks :
      LET i == b \div ChunkBlocks(call) - args[0].first \div ChunkBlocks(call)
      IN  region[b] =
            IF b < block /\ (b >= args[0].first => Ran(i) /\ args[i].rc = 0)
            THEN Expected(call, b) ELSE Old

ChunkFailed == \E i \in Threads : i < n /\ args[i].rc # 0

AsFailed == call # NoCall /\ (BadArgs(call) \/ rc # 0 \/ ChunkFailed)
AsResult == IF cpc # "return" THEN "none" ELSE IF rc = 0 THEN "ok" ELSE "error"

Promise == INSTANCE RegionLabel WITH
  disk <- {}, failed <- AsFailed, result <- AsResult

\* The spawning labellers keep the same promise as the pooled ones.
ImplementsRegionLabel == Promise!Spec

\* Every call returns.
CallReturns == (call # NoCall) ~> (call = NoCall)
============================================================================
