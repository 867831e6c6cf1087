--------------------------- MODULE MCExtraction ---------------------------
(***************************************************************************)
(* Extraction for TLC: an address suffix of 2 characters stands for the  *)
(* code's 39 (the pattern treats every suffix position alike), and logs of *)
(* up to 4 nodes, enough for a dict whose first entry's subtree holds a    *)
(* match and whose second entry is a matching string.                      *)
(***************************************************************************)
EXTENDS Extraction

=============================================================================
