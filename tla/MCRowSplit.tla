----------------------------- MODULE MCRowSplit -----------------------------
(* Instances of RowSplit for TLC. *)
EXTENDS RowSplit

\* The sizes up to a bound that the division is made for.
MCSupported == {s \in (1 .. 6) \X (1 .. 6) : Supported(s[1], s[2])}

\* Sizes parse_args lets through, some the division is not made for.
MCAny == (2 .. 4) \X (3 .. 5)

=============================================================================
