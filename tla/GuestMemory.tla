---------------------------- MODULE GuestMemory -----------------------------
(***************************************************************************)
(* What the hypervisor promises about memory: once a guest starts, it has  *)
(* a memory of its own that holds its image, zeros everywhere else, and    *)
(* afterwards exactly what the guest's own accesses have written.          *)
(***************************************************************************)
CONSTANTS
  Guests,
  Ram,        \* page addresses a guest may use
  Data,       \* contents of a page
  None,       \* no access
  Stage1,     \* Stage1[g]: guest g's own translation
  Image       \* Image[g][a]: what guest g's page a holds when it starts

VARIABLES
  started,    \* whether the guest has been loaded
  access,     \* the address the guest's current instruction accesses
  mem         \* mem[g][a]: content of guest g's page a

vars == <<started, access, mem>>

Init ==
  /\ started = [g \in Guests |-> FALSE]
  /\ access = [g \in Guests |-> None]
  /\ mem = Image

Start(g) ==
  /\ started[g] = FALSE
  /\ started' = [started EXCEPT ![g] = TRUE]
  /\ UNCHANGED <<access, mem>>

Begin(g) ==
  /\ started[g] = TRUE /\ access[g] = None
  /\ \E a \in Ram : access' = [access EXCEPT ![g] = a]
  /\ UNCHANGED <<started, mem>>

\* An access is done in one step, and changes at most the page accessed.
Finish(g) ==
  /\ access[g] # None
  /\ \E x \in Data : mem' = [mem EXCEPT ![g][Stage1[g][access[g]]] = x]
  /\ access' = [access EXCEPT ![g] = None]
  /\ UNCHANGED started

Next == \E g \in Guests : Start(g) \/ Begin(g) \/ Finish(g)

Spec == Init /\ [][Next]_vars
=============================================================================
