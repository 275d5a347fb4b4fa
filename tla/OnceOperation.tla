--------------------------- MODULE OnceOperation ----------------------------
(***************************************************************************)
(* What an idempotency key promises its clients (the docstring of          *)
(* services/journey.py: one stable resource identity before a business     *)
(* write): the key is bound to one resource, the resource is made at most  *)
(* once, and nobody is told of a resource that was not made.  Nothing is   *)
(* said of calls, retries, clocks or the ledger's states.                  *)
(***************************************************************************)
CONSTANTS Resources, NoResource

VARIABLES bound,     \* the resource the key stands for
          made,      \* it exists
          told       \* some client has been told that it was created

onceVars == <<bound, made, told>>

Init == bound = NoResource /\ made = FALSE /\ told = FALSE

Bind ==
    /\ bound = NoResource
    /\ bound' \in Resources
    /\ UNCHANGED <<made, told>>

Make ==
    /\ bound # NoResource /\ ~made
    /\ made' = TRUE
    /\ UNCHANGED <<bound, told>>

Tell ==
    /\ made
    /\ told' = TRUE
    /\ UNCHANGED <<bound, made>>

(* The clients that were told are gone.                                    *)
Forget ==
    /\ told' = FALSE
    /\ UNCHANGED <<bound, made>>

Next == Bind \/ Make \/ Tell \/ Forget

Spec == Init /\ [][Next]_onceVars
=============================================================================
