---------------------------- MODULE MCTlsClient -----------------------------
(* The sketch's connection, which checks no certificate, one with all      *)
(* there is to set up, one with a shared key, and one with a certificate   *)
(* whose key was left out.                                                 *)
EXTENDS TlsClient

Plain == [auth |-> "none", cert |-> FALSE, key |-> FALSE, starttls |-> FALSE]
Full == [auth |-> "ca", cert |-> TRUE, key |-> TRUE, starttls |-> TRUE]
Shared == [auth |-> "psk", cert |-> FALSE, key |-> FALSE, starttls |-> FALSE]
Half == [auth |-> "none", cert |-> TRUE, key |-> FALSE, starttls |-> FALSE]

SettingsUsed == {Plain, Full, Shared, Half}

=============================================================================
