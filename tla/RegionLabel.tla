---------------------------- MODULE RegionLabel ----------------------------
(***************************************************************************)
(* What a labelling call promises its client, whoever does the work: while  *)
(* the call runs its chunks appear one at a time, in any order, each whole  *)
(* and right; the call ends well only if every chunk is there, and badly    *)
(* only if something went wrong; outside a call nothing is written.         *)
(* ChunkPool, SpawnRegion and GpuRun are shown to implement it.             *)
(***************************************************************************)
EXTENDS ChunkPlan

VARIABLES
  call,      \* the call in progress, or NoCall
  region,    \* the region's blocks
  disk,      \* the extents committed during this call
  failed,    \* has a part of this call failed?
  result     \* "none" while the call runs, then "ok" or "error"

vars == <<call, region, disk, failed, result>>

Init ==
  /\ call = NoCall
  /\ region = [b \in RegionBlocks |-> Old]
  /\ disk = {}
  /\ failed = FALSE
  /\ result = "none"

\* Is every block labelled and every extent committed?
Complete(c, reg, dsk) ==
  /\ \A b \in CoveredBlocks(c) : reg[b] = Expected(c, b)
  /\ dsk = ExpectedExtents(c)

\* A call with wrong arguments is over at once, and so is one with no chunk.
Begin(c) ==
  /\ call = NoCall
  /\ call' = c
  /\ region' = [b \in RegionBlocks |-> Old]
  /\ disk' = {}
  /\ \/ failed' = BadArgs(c)
     \/ failed' = TRUE
  /\ result' = IF failed' THEN "error"
               ELSE IF CoveredBlocks(c) = {} /\ ExpectedExtents(c) = {}
               THEN "ok" ELSE "none"

Running == call # NoCall /\ result = "none"

\* The k-th chunk of the region gets its labels.
LabelChunk(k) ==
  /\ Running
  /\ region' = [b \in RegionBlocks |->
                  IF b \in CoveredBlocks(call) /\ b \div ChunkBlocks(call) = k
                  THEN Expected(call, b) ELSE region[b]]
  /\ UNCHANGED <<call, disk, failed, result>>

\* A super-chunk reaches the device.
CommitChunk(e) ==
  /\ Running
  /\ disk' = disk \cup {e}
  /\ UNCHANGED <<call, region, failed, result>>

Fail ==
  /\ Running
  /\ failed' = TRUE
  /\ UNCHANGED <<call, region, disk, result>>

Finish ==
  /\ Running
  /\ \/ failed /\ result' = "error"
     \/ ~failed /\ Complete(call, region, disk) /\ result' = "ok"
  /\ UNCHANGED <<call, region, disk, failed>>

Return ==
  /\ call # NoCall /\ result # "none"
  /\ call' = NoCall /\ failed' = FALSE /\ result' = "none"
  /\ UNCHANGED <<region, disk>>

Next ==
  \/ \E c \in Calls : Begin(c)
  \/ \E b \in RegionBlocks : LabelChunk(b)
  \/ \E e \in ExpectedExtents(call) : CommitChunk(e)
  \/ Fail \/ Finish \/ Return

Spec == Init /\ [][Next]_vars
============================================================================
