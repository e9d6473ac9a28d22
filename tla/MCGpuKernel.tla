---------------------------- MODULE MCGpuKernel ----------------------------
(* The kernels on the topology of LabelGraph.                               *)
EXTENDS GpuKernel

G == INSTANCE LabelGraph

MCEdges(m) == G!GraphOf(m)
============================================================================
