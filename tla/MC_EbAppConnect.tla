-------------------------- MODULE MC_EbAppConnect --------------------------
(* Contributor sets {0} and {0,1}, so that a connect() may shrink or grow   *)
(* the tables; a guessed region of 3 and announced needs of 2 or 4 (with    *)
(* no transition space), so that configure() both keeps and regrows a      *)
(* region; the contract tables of MC_ContractBits.                         *)
EXTENDS EbAppConnect

MCMasks == {{0}, {0, 1}}
MCConfigured == [0..1 -> {15, 240, 165, 255}]
====
