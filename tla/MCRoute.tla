-------------------------------- MODULE MCRoute --------------------------------
(* Two providers, of which the route takes one after the other.                *)
EXTENDS ProviderRoute

MCProvider == {"a", "b"}
MCRoute == <<"a", "b">>
================================================================================
