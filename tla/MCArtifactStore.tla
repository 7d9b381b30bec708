-------------------------- MODULE MCArtifactStore ---------------------------
(* Constants for model-checking ArtifactStore. *)
EXTENDS ArtifactStore

V3(length, gzip) == [proto |-> "v3", length |-> length, parts |-> length,
                     gzip |-> gzip, overwrite |-> FALSE]

V4(length, parts, overwrite) ==
  [proto |-> "v4", length |-> length, parts |-> parts, gzip |-> FALSE,
   overwrite |-> overwrite]

\* v3 in up to three chunks; v4 in one block, of different lengths.
PlainKinds == {V3(n, FALSE) : n \in 2..3}
                \cup {V4(n, 1, o) : n \in {1, 3}, o \in BOOLEAN}

\* A v4 artifact in two blocks, and a compressed v3 item in three chunks.
LargeKinds == {V4(2, 2, FALSE), V3(3, TRUE)}
=============================================================================
