---------------------------- MODULE PrivateSlots ----------------------------
(***************************************************************************)
(* What SpecBlockKVPool promises the requests that use it, with no slot    *)
(* numbers recycled, no growth and no free list in sight: each client has  *)
(* a private memory, and nothing another client does can change it.        *)
(*                                                                         *)
(* mem[c] is a function from the cells client c owns to what they hold in  *)
(* each layer; data is abstracted to the client it was computed for.  A    *)
(* cell that is handed out may hold anything (alloc does not clear it),    *)
(* but from then on it changes only to its owner's data, and no cell is    *)
(* ever owned twice.                                                       *)
(***************************************************************************)
CONSTANTS
  Clients,  \* the requests
  Layers    \* the layers of a cell

VARIABLE mem

Nothing == [s \in {} |-> s]

Init == mem = [c \in Clients |-> Nothing]

\* Client c gains cells that nobody owned; what it held it still holds.
Acquire(c) ==
  /\ DOMAIN mem' = Clients
  /\ \A d \in Clients \ {c} : mem'[d] = mem[d]
  /\ DOMAIN mem[c] \subseteq DOMAIN mem'[c]
  /\ \A s \in DOMAIN mem[c] : mem'[c][s] = mem[c][s]
  /\ \A d \in Clients :
       (DOMAIN mem'[c] \ DOMAIN mem[c]) \cap DOMAIN mem[d] = {}

\* Client c gives cells back; the ones it keeps are untouched.
Release(c) ==
  /\ DOMAIN mem' = Clients
  /\ \A d \in Clients \ {c} : mem'[d] = mem[d]
  /\ DOMAIN mem'[c] \subseteq DOMAIN mem[c]
  /\ \A s \in DOMAIN mem'[c] : mem'[c][s] = mem[c][s]

\* Clients write cells they own, in one batched store: every layer of every cell
\* keeps what it held or now holds its owner's data.
Write ==
  /\ DOMAIN mem' = Clients
  /\ \A c \in Clients :
       /\ DOMAIN mem'[c] = DOMAIN mem[c]
       /\ \A s \in DOMAIN mem[c], l \in Layers :
            mem'[c][s][l] \in {mem[c][s][l], c}

\* Everything is dropped at once.
Clear == mem' = [c \in Clients |-> Nothing]

Next ==
  \/ \E c \in Clients : Acquire(c) \/ Release(c)
  \/ Write
  \/ Clear

Spec == Init /\ [][Next]_mem
=============================================================================
