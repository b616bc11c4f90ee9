------------------------------ MODULE MCNtpAcl ------------------------------
(* Instances of NtpAcl for TLC: subnet "wide" contains subnet "narrow".       *)
EXTENDS NtpAcl, TLC

MCCidrs == {"wide", "narrow"}
MCClients == {1, 2}
MCMembers == "wide" :> {1, 2} @@ "narrow" :> {2}

Symmetry == Permutations(Procs)
=============================================================================
