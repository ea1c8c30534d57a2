------------------------------- MODULE MCIndexer -------------------------------
(***************************************************************************)
(* Small instances of Indexer for TLC.                                     *)
(***************************************************************************)
EXTENDS Indexer

CONSTANTS good, broken   \* a decodable file with a capture time, and another

\* Any two files.
TwoPhotos == [{1, 2} -> {good, broken}]
=============================================================================
