--------------------------- MODULE MCBrowserClient ---------------------------
(* Vault calls while identities come and go, or history calls while answers  *)
(* are lost, others append and the page switches hubs.                       *)
EXTENDS BrowserClient, TLC

Load(v, h, o, l, t) == [vault |-> v, history |-> h, others |-> o, lost |-> l, turns |-> t]
MCWorkloads == {Load(2, 0, 0, 1, 4), Load(0, 3, 1, 1, 2)}
Symmetry == Permutations(Identities) \cup Permutations(Hubs) \cup Permutations(Calls)
=============================================================================
