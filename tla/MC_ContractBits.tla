--------------------------- MODULE MC_ContractBits ---------------------------
(* Two readout groups, 8-bit contracts standing for 64 bits and a 4-bit    *)
(* int standing for 32 bits; every table whose entries are one of four     *)
(* masks covering low, high, mixed and all contributor ids.                *)
EXTENDS ContractBits

MCConfigured == [0..1 -> {15, 240, 165, 255}]
====
