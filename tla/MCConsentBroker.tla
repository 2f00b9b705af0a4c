-------------------------- MODULE MCConsentBroker --------------------------
(* A bounded instance of ConsentBroker: its constants are model values.    *)
EXTENDS ConsentBroker, TLC
=============================================================================
