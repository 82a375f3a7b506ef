----------------------------- MODULE Inventory -----------------------------
(***************************************************************************)
(* Who may change which entries of the server's environments:              *)
(*                                                                         *)
(*   - the discovery writes and takes out entries with ids of its own kind *)
(*     only, and knows each id before it has an entry by it;               *)
(*   - it forgets an id only when it has no entry left under it, so that   *)
(*     no entry of its own stays for ever;                                 *)
(*   - administrators may write and take out everything, but what they     *)
(*     write is not the discovery's.                                       *)
(***************************************************************************)
CONSTANTS Ids,          \* the ids of environments
          OwnIds        \* those of the discovery's kind

VARIABLES mine,         \* the ids of entries that the discovery wrote
          known,        \* the ids that the discovery remembers
          others        \* the entries under all the other ids

inventoryVars == <<mine, known, others>>

InventoryInit == mine = {} /\ known = {}

Register(id) == /\ mine' = mine \cup {id} /\ known' = known \cup {id}
                /\ UNCHANGED others

Drop(id) == /\ id \in known
            /\ mine' = mine \ {id}
            /\ UNCHANGED <<known, others>>

Forget == /\ known' \subseteq known /\ mine \subseteq known'
          /\ UNCHANGED <<mine, others>>

(* An entry is written or taken out by someone else.                       *)
Administer == /\ \E id \in Ids :
                   /\ mine \ {id} \subseteq mine'
                   /\ \A i \in Ids \ OwnIds : i # id => others'[i] = others[i]
              /\ mine' \subseteq mine
              /\ UNCHANGED known

(* A new server, which has only what its configuration says.               *)
Restart == mine' = {} /\ known' = {}

InventoryNext == \/ \E id \in OwnIds : Register(id) \/ Drop(id)
                 \/ Forget \/ Administer \/ Restart

InventorySpec == InventoryInit /\ [][InventoryNext]_inventoryVars
=============================================================================
