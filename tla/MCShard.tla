------------------------------ MODULE MCShard ------------------------------
(* A shard of a window of one frame and a main cache of three, one of which is *)
(* reserved for the metadata page: NewWTinylfu(1, 3, true) gives capacities    *)
(* of one to window, probation and protected.  ShardWrites has a probation     *)
(* segment of two, so that the shard goes on when one frame is left marked.    *)
EXTENDS Shard, TLC

Symmetry == Permutations(Frames) \cup Permutations(Pages \ OnDisk) \cup Permutations(OnDisk)
                \cup Permutations(Procs)
=============================================================================
