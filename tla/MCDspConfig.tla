---- MODULE MCDspConfig ----
(* Two documents and one the parser refuses; a second rate one of them does not fit. *)
EXTENDS DspConfig

CONSTANTS A, B, Bad, cd, low
MCUnfits == {{}, {<<B, low>>}}
MCChains == 1..6
====
