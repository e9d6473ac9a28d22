----------------------------- MODULE MCGpuRun -----------------------------
(* Buffers with no, one and several super-chunks, with and without a tail.  *)
EXTENDS GpuRun

MCCalls == [cb : {2}, len : {1, 2, 9, 10}, rbo : {0, 4}]
============================================================================
