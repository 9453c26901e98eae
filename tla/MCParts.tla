------------------------------ MODULE MCParts ------------------------------
(***************************************************************************)
(* The parts of the program that keep a state of their own and need nothing *)
(* of each other, in one run.  One of them moves, the others rest in a state *)
(* with little in it.  A permutation of the constants below is a symmetry   *)
(* of every part.                                                          *)
(***************************************************************************)
EXTENDS UsageCollect, TokenFile, Lockout, GlobalApply, Migrate, AcmeForm, TLC

CONSTANTS Agents, Objects, Labels

VARIABLE part   \* the part that moves
-----------------------------------------------------------------------------
UsageAtRest == rule = [k \in Keys |-> NoRule] /\ owner = [k \in Keys |-> Nobody]
TokensAtRest == file = [content |-> [rows |-> {}, good |-> TRUE], stamp |-> 1]
GlobalAtRest == api = [n \in Nodes |-> [i \in Items |-> Null]] /\ refuses = [n \in Nodes |-> FALSE]
MigrateAtRest == hand = 0
AcmeAtRest == acmeValue = EmptyValue
PartsInit ==
    /\ part \in {"usage", "tokens", "lockout", "global", "migrate", "acme"}
    /\ IF part = "usage" THEN Init ELSE UsageAtRest /\ Init
    /\ IF part = "tokens" THEN TokenInit ELSE TokensAtRest /\ TokenInit
    /\ LockInit
    /\ IF part = "global" THEN GlobalInit ELSE GlobalAtRest /\ GlobalInit
    /\ IF part = "migrate" THEN MigrateInit ELSE MigrateAtRest /\ MigrateInit
    /\ IF part = "acme" THEN AcmeInit ELSE AcmeAtRest /\ AcmeInit

\* The others rest.
OthersRest ==
    /\ part # "usage" => UNCHANGED vars
    /\ part # "tokens" => UNCHANGED tokenVars
    /\ part # "lockout" => UNCHANGED lockVars
    /\ part # "global" => UNCHANGED globalVars
    /\ part # "migrate" => UNCHANGED migrateVars
    /\ part # "acme" => UNCHANGED acmeVars

PartsNext ==
    /\ UNCHANGED part
    /\ OthersRest
    /\ \/ part = "usage" /\ Next
       \/ part = "tokens" /\ TokenNext
       \/ part = "lockout" /\ LockNext
       \/ part = "global" /\ GlobalNext
       \/ part = "migrate" /\ MigrateNext
       \/ part = "acme" /\ AcmeNext

PartsSpec == PartsInit /\ [][PartsNext]_<<part, vars, tokenVars, lockVars, globalVars, migrateVars, acmeVars>>

Symmetry == Permutations(Agents) \union Permutations(Objects) \union Permutations(Labels)
=============================================================================
