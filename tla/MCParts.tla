------------------------------ MODULE MCParts ------------------------------
(***************************************************************************)
(* Four parts that share no state, each checked by itself: the mapper, the *)
(* numbering of the phone's frames, the configuration record and pairing.  *)
(* A behaviour is one of one part, chosen at the start; the variables of   *)
(* the others stay as they begin, so that nothing is lost and no product   *)
(* of their states is explored.                                            *)
(***************************************************************************)
EXTENDS MCMapper, MobileLink, PersistentConfig, MCPairing

CONSTANTS default, other
MCMappings == {default, other}

VARIABLE part   \* the part that runs

partVars == <<part, machineVars, linkVars, storeVars, pairingVars>>

PartsInit ==
  /\ part \in {"mapper", "link", "store", "pairing"}
  /\ MachineInit /\ LinkInit /\ StoreInit /\ PairingInit

MapperRuns ==
  /\ part = "mapper" /\ MachineNext
  /\ UNCHANGED <<part, linkVars, storeVars, pairingVars>>

LinkRuns ==
  /\ part = "link" /\ LinkNext
  /\ UNCHANGED <<part, machineVars, storeVars, pairingVars>>

StoreRuns ==
  /\ part = "store" /\ StoreNext
  /\ UNCHANGED <<part, machineVars, linkVars, pairingVars>>

PairingRuns ==
  /\ part = "pairing" /\ PairingNext
  /\ UNCHANGED <<part, machineVars, linkVars, storeVars>>

PartsNext == MapperRuns \/ LinkRuns \/ StoreRuns \/ PairingRuns

PartsSpec == PartsInit /\ [][PartsNext]_partVars
============================================================================
