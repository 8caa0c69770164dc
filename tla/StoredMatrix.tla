---------------------------- MODULE StoredMatrix ----------------------------
(***************************************************************************)
(* The adjacency matrix (AdjMatrix) of n nodes in a storage.               *)
(***************************************************************************)
EXTENDS Storages

Matrix(storage, n) ==
    INSTANCE AdjMatrix WITH N <- n, Word <- storage.word,
                            Capacity <- RowCapacity(storage, n)
=============================================================================
