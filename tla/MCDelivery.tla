------------------------------ MODULE MCDelivery ------------------------------
(***************************************************************************)
(* Small instances of DigestTransport: the values of its constants.        *)
(***************************************************************************)
EXTENDS DeliveryInvariant, TLC

CONSTANTS j1, j2, src, d1, d2, open, shut, fact, c1, c2, w1, w2

Email == d1 :> "email"
Telegram == d1 :> "telegram"
EmailAndTelegram == d1 :> "email" @@ d2 :> "telegram"
OldEmail == {<<j1, "email">>}

ProcessSymmetry == Permutations(Couriers) \cup Permutations(Senders)
=============================================================================
