--------------------------- MODULE MCRowPipeline ----------------------------
(* Instances of RowPipeline for TLC. *)
EXTENDS RowPipeline

Part(z, begin, end) == [z |-> z, begin |-> begin, end |-> end]

\* A share that begins inside a plane of three rows and is continued in the
\* next, an empty one, and whole planes of one and of three rows.
MCSegments ==
  <<Part(2, 2, 4), Part(3, 1, 2), Part(2, 1, 1), Part(3, 2, 4),
    Part(1, 1, 4), Part(2, 1, 2)>>

=============================================================================
