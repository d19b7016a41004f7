--------------------------- MODULE MCStorageService ---------------------------
(* An instance of StorageService small enough for TLC.                     *)
EXTENDS StorageService, MCObjectStorage

\* The settings are interchangeable too: nothing of the service reads them.
ServiceSymmetry == Symmetry \cup Permutations(Settings)
=============================================================================
