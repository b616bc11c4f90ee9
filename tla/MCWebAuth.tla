----------------------------- MODULE MCWebAuth -----------------------------
(* WebAuth for TLC: the constants are given by the MCWebAuth_*.cfg files.    *)
EXTENDS WebAuth, TLC

(* Requests are interchangeable, and so are the session ids.                *)
Symmetry == Permutations(Procs) \cup Permutations(Sids)

=============================================================================
