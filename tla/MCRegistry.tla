----------------------------- MODULE MCRegistry -----------------------------
(* Two accounts, one token of "a"; "b" is a validator that resigns.         *)
EXTENDS Registry

T(type, sender, nonce, arg, to, amount) ==
    [type |-> type, sender |-> sender, nonce |-> nonce, arg |-> arg,
     to |-> to, amount |-> amount]

Id == <<"a", "S", 0>>

TxDef ==
    {T("ISSUE_TOKEN", "a", 0, "S", None, 3),
     T("MINT_TOKEN", "a", 1, Id, "a", 2),
     T("MINT_TOKEN", "a", 2, Id, "b", 2),
     T("TRANSFER_TOKEN", "a", 2, Id, "b", 1),
     T("NOTARIZE", "b", 0, "d", None, 0),
     T("REGISTER_KEY", "b", 0, "k", None, 0),
     T("REGISTER_VALIDATOR", "b", 1, None, None, 5),
     T("REVOKE_KEY", "b", 2, "validator", None, 0),
     T("TRANSFER_TOKEN", "b", 2, Id, "a", 1)}

=============================================================================
