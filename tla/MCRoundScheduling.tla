------------------------- MODULE MCRoundScheduling -------------------------
(***************************************************************************)
(* Instances of RoundScheduling for TLC.                                   *)
(***************************************************************************)
EXTENDS RoundScheduling, TLC

\* The identities of documents are interchangeable.
DocsAlike == Permutations(Docs)

=============================================================================
