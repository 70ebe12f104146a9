--------------------------- MODULE MCManifestStore --------------------------
(* Two callers racing on one manifest store, with crashes and I/O errors. *)
EXTENDS ManifestStore, TLC
Symmetry == Permutations(Callers)
=============================================================================
