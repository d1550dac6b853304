------------------------------- MODULE MC_Client -------------------------------
(* Instances of Client: three rows on pages of one, three composers.          *)
EXTENDS Client
===============================================================================
