-------------------------- MODULE MCSnapshotWrite ---------------------------
(* Instances of SnapshotWrite: batches of up to MaxBatch products.           *)
EXTENDS SnapshotWrite, SequencesExt

CONSTANT MaxBatch

GivenAny == [c \in Calls |-> BoundedSeq(Item, MaxBatch)]
=============================================================================
