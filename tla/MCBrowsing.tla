----------------------------- MODULE MCBrowsing -----------------------------
(* Browsing with ints of five bits and a table of a few rows.              *)
EXTENDS Browsing

=============================================================================
