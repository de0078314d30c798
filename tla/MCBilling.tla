------------------------------ MODULE MCBilling ------------------------------
(* Small instances of Billing.  The invited friend of a sponsor owns the     *)
(* invoices; the sponsor owns none.                                         *)
EXTENDS Billing, TLC

CONSTANTS friend, sponsor, i1, i2, t1, t2

MCUsers    == {friend, sponsor}
MCProcs    == {t1, t2}
Symmetry   == Permutations(MCProcs)
MCReferrer == [u \in MCUsers |-> IF u = friend THEN sponsor ELSE None]

OneInvoice  == {i1}
TwoInvoices == {i1, i2}
OnlyCactus  == {i2}
OwnedByFriend == [i \in Invoices |-> friend]

CactusOnly     == [i \in Invoices |-> "CACTUS"]
ManualOnly     == [i \in Invoices |-> "MANUAL"]
CryptoOnly     == [i \in Invoices |-> "CRYPTOMUS"]
PayAndCactus   == [i \in Invoices |-> IF i = i1 THEN "CRYPTOPAY" ELSE "CACTUS"]
=============================================================================
