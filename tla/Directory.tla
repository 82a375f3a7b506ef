----------------------------- MODULE Directory -----------------------------
(***************************************************************************)
(* What the hub's registry promises those who look a cluster up in it:     *)
(*                                                                         *)
(*   - an entry is made once for each connection, when it is open, and     *)
(*     closes the connection it replaces;                                  *)
(*   - a connection that has an entry loses it only when it is closed, so  *)
(*     nobody takes out, or replaces, what is not his;                     *)
(*   - an open connection has an entry, or has just come and has had none. *)
(***************************************************************************)
CONSTANTS Clusters, Conns, None

VARIABLES tunnels,      \* tunnels[c]: the connection of a cluster, or None
          open          \* open[k]: k has not been closed

directoryVars == <<tunnels, open>>

Entered(k) == \E c \in Clusters : tunnels[c] = k

DirectoryInit == /\ tunnels = [c \in Clusters |-> None]
                 /\ open = [k \in Conns |-> FALSE]

Come(k) == /\ ~open[k] /\ ~Entered(k)
           /\ open' = [open EXCEPT ![k] = TRUE]
           /\ UNCHANGED tunnels

Enter(c, k) == /\ open[k] /\ ~Entered(k)
               /\ tunnels' = [tunnels EXCEPT ![c] = k]
               /\ open' = [j \in Conns |-> open[j] /\ j # tunnels[c]]

Close(c) == /\ tunnels[c] # None /\ open[tunnels[c]]
            /\ open' = [open EXCEPT ![tunnels[c]] = FALSE]
            /\ UNCHANGED tunnels

Remove(c) == /\ tunnels[c] # None /\ ~open[tunnels[c]]
             /\ tunnels' = [tunnels EXCEPT ![c] = None]
             /\ UNCHANGED open

(* A new registry: all entries and connections are gone.                   *)
Reset == /\ tunnels' = [c \in Clusters |-> None]
         /\ open' = [k \in Conns |-> FALSE]

DirectoryNext == \/ \E k \in Conns : Come(k)
                 \/ \E c \in Clusters : Close(c) \/ Remove(c) \/ \E k \in Conns : Enter(c, k)
                 \/ Reset

DirectorySpec == DirectoryInit /\ [][DirectoryNext]_directoryVars
=============================================================================
