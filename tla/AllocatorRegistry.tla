------------------------- MODULE AllocatorRegistry -------------------------
(***************************************************************************)
(* AllocatorRegistry (allocator_registry.hpp): strategies by id, behind a  *)
(* shared mutex.                                                           *)
(*                                                                         *)
(* Every method that changes the table holds the lock exclusively, so each *)
(* is one action.  A moved-in strategy belongs to the registry, and is     *)
(* destroyed where its unique_ptr is: by unregister() and clear(), and by  *)
(* a registration that does not insert it.                                 *)
(***************************************************************************)
EXTENDS Integers, FiniteSets, Functions

CONSTANTS Strategy,      \* strategy objects
          SelfAssigned,  \* SelfAssigned[s]: the id s was constructed with, or 0
          RequestedIds   \* ids asked for in register_allocator_at()

RegistryAssumptions ==
  /\ SelfAssigned \in [Strategy -> Nat]
  /\ RequestedIds \subseteq Nat

VARIABLES table,       \* id_to_strategy_
          ids,         \* ids_: the last id the generator gave
          state,       \* state[s]: "new", "alive" or "destroyed"
          own_id,      \* own_id[s]: id() of the strategy
          returned     \* returned[s]: the id register_allocator() returned for s

rvars == <<table, ids, state, own_id, returned>>

RegistryInit ==
  /\ table = [x \in {} |-> x] /\ ids = 0
  /\ state = [s \in Strategy |-> "new"]
  /\ own_id = SelfAssigned
  /\ returned = [s \in Strategy |-> 0]

(* Mutant of Emplace: the new strategy replaces the one under id.          *)
EmplaceReplacing(s, id) ==
  /\ table' = [x \in DOMAIN table \cup {id} |-> IF x = id THEN s ELSE table[x]]
  /\ state' = [t \in Strategy |->
                 IF t = s THEN "alive"
                 ELSE IF id \in DOMAIN table /\ table[id] = t THEN "destroyed" ELSE state[t]]

(* emplace() of s under id: inserted, or destroyed when the id is taken.   *)
Emplace(s, id) ==
  /\ table' = IF id \in DOMAIN table THEN table
              ELSE [x \in DOMAIN table \cup {id} |-> IF x = id THEN s ELSE table[x]]
  /\ state' = [state EXCEPT ![s] = IF id \in DOMAIN table THEN "destroyed" ELSE "alive"]

(* Mutant of RegisterAllocator: the strategy is not told its id.           *)
RegisterAllocatorUntold(s) ==
  LET id == IF own_id[s] = 0 THEN ids + 1 ELSE own_id[s]
  IN /\ state[s] = "new"
     /\ ids' = IF own_id[s] = 0 THEN id ELSE ids
     /\ Emplace(s, id)
     /\ returned' = [returned EXCEPT ![s] = id]
     /\ UNCHANGED own_id

(* register_allocator(): the strategy's own id, or the next fresh one.     *)
RegisterAllocator(s) ==
  LET id == IF own_id[s] = 0 THEN ids + 1 ELSE own_id[s]
  IN /\ state[s] = "new"
     /\ ids' = IF own_id[s] = 0 THEN id ELSE ids
     /\ own_id' = [own_id EXCEPT ![s] = id]
     /\ Emplace(s, id)
     /\ returned' = [returned EXCEPT ![s] = id]

(* register_allocator_at(): the caller's id.                               *)
RegisterAllocatorAt(s, id) ==
  /\ state[s] = "new"
  /\ id # 0 /\ id \notin DOMAIN table
  /\ own_id' = [own_id EXCEPT ![s] = id]
  /\ Emplace(s, id)
  /\ UNCHANGED <<ids, returned>>

(* ... refused for id 0 or an id in use; the strategy dies with the call.  *)
RegisterAllocatorRefused(s, id) ==
  /\ state[s] = "new"
  /\ id = 0 \/ id \in DOMAIN table
  /\ state' = [state EXCEPT ![s] = "destroyed"]
  /\ UNCHANGED <<table, ids, own_id, returned>>

(* unregister() and clear() destroy the strategies they take out.          *)
TakeOut(gone) ==
  /\ state' = [s \in Strategy |->
                 IF \E id \in gone : table[id] = s THEN "destroyed" ELSE state[s]]
  /\ table' = Restrict(table, DOMAIN table \ gone)
  /\ UNCHANGED <<ids, own_id, returned>>

Unregister(id) == id \in DOMAIN table /\ TakeOut({id})

ClearRegistry == DOMAIN table # {} /\ TakeOut(DOMAIN table)

RegistryNext ==
  \/ \E s \in Strategy : RegisterAllocator(s)
  \/ \E s \in Strategy, id \in RequestedIds :
       RegisterAllocatorAt(s, id) \/ RegisterAllocatorRefused(s, id)
  \/ \E id \in DOMAIN table : Unregister(id)
  \/ ClearRegistry

RegistrySpec == RegistryInit /\ [][RegistryNext]_rvars

-----------------------------------------------------------------------------
(* Properties.                                                             *)

(* Type invariant, the first part of OwnsWhatLives.                        *)
RegistryTypeOK ==
  /\ DOMAIN table \subseteq Nat \ {0} /\ Range(table) \subseteq Strategy
  /\ ids \in Nat
  /\ state \in [Strategy -> {"new", "alive", "destroyed"}]
  /\ own_id \in [Strategy -> Nat] /\ returned \in [Strategy -> Nat]

(* The registry owns exactly the strategies that are alive, each under one *)
(* id, the one the strategy itself reports: nothing leaks, and the table   *)
(* never leads to a destroyed strategy.                                    *)
OwnsWhatLives ==
  /\ RegistryTypeOK
  /\ Range(table) = {s \in Strategy : state[s] = "alive"}
  /\ \A id \in DOMAIN table : own_id[table[id]] = id

(* find() and for_each() let callers keep raw pointers: a strategy that    *)
(* was registered dies only in a step that takes its id out of the table,  *)
(* never in the registration of another one, whatever ids collide.         *)
DiesOnlyUnregistered ==
  [][\A s \in Strategy :
       state[s] = "alive" /\ state'[s] = "destroyed"
         => \E id \in DOMAIN table \ DOMAIN table' : table[id] = s]_rvars

(* register_allocator() "Returns the assigned id" (the header's comment):  *)
(* while that id is registered it leads to the strategy it was returned    *)
(* for, to no other.                                                       *)
ReturnedIdLeadsHome ==
  \A s \in Strategy :
    returned[s] \in DOMAIN table => table[returned[s]] = s
=============================================================================
