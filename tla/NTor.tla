-------------------------------- MODULE NTor --------------------------------
(***************************************************************************)
(* What ExtendTo and NewCircuitTo take from a relay's consensus entry, and *)
(* the ntor handshake.  Keys are symbols: a public key is named like its   *)
(* private key, a Diffie-Hellman secret is the set of the two keys, and a  *)
(* hash is what was hashed, so that an auth value fits exactly the secret  *)
(* it was computed from, and so do the keys derived from it.               *)
(*                                                                         *)
(* An entry has what is used of a RouterStatus: NodeID, NTorOnionKey, the  *)
(* relay that listens at its address and port, and IdEd25519.              *)
(***************************************************************************)
CONSTANTS None \* nil, or an empty string

OnionKey(r)        == <<"onion", r>>
ClientKey(n)       == <<"client", n>>
RelayKey(r, x)     == <<"relay", r, x>>

ECDH(a, b) == {a, b}

\* newNTorHandshake, with the n-th key pair of the client.
NewNTorHandshake(entry, n) ==
    IF entry.key = None THEN None
    ELSE [NodeID |-> entry.node, KeyID |-> entry.key, PublicKey |-> ClientKey(n)]

\* linkSpecsFor
LinkSpecsFor(entry) ==
    IF entry.addr = None \/ entry.ed = None THEN None
    ELSE [addr |-> entry.addr, node |-> entry.node, ed |-> entry.ed]

\* secretInput; the hashes made of it differ when it does.
SecretInput(X, Y, B, ID) ==
    [YX |-> ECDH(Y, X), BX |-> ECDH(B, X), ID |-> ID, B |-> B, X |-> X, Y |-> Y]

\* A plausible bug: the auth value of the answer is not compared.
DeriveUnverified(hs, answer) ==
    SecretInput(hs.PublicKey, answer.PublicKey, hs.KeyID, hs.NodeID)

\* Client_NTorHandshake.Derive: the keys, or None for an auth that does not fit.
Derive(hs, answer) ==
    LET secret == SecretInput(hs.PublicKey, answer.PublicKey, hs.KeyID, hs.NodeID)
    IN  IF answer.Auth = secret THEN secret ELSE None

\* External: a relay takes a handshake that names it and its key; its answer.
Accepts(r, hs) == hs.NodeID = r /\ hs.KeyID = OnionKey(r)
Answer(r, hs) ==
    LET Y == RelayKey(r, hs.PublicKey)
    IN  [PublicKey |-> Y, Auth |-> SecretInput(hs.PublicKey, Y, OnionKey(r), r)]
=============================================================================
