------------------------------- MODULE Arena -------------------------------
(***************************************************************************)
(* What every store of this program promises its callers: an append        *)
(* returns a handle through which exactly the offered elements are read,   *)
(* then and for as long as the store lives, whatever else is appended.     *)
(***************************************************************************)
EXTENDS Naturals, Sequences

CONSTANTS Id,          \* the appends that may be made
          Offered(_)   \* the sequences of elements an append may be offered

VARIABLE stored   \* for each append that returned, what its handle reads

Init == stored = [id \in {} |-> << >>]

Store(id) ==
    /\ id \notin DOMAIN stored
    /\ \E items \in Offered(id) :
          stored' = [d \in DOMAIN stored \cup {id} |-> IF d = id THEN items ELSE stored[d]]

Next == \E id \in Id : Store(id)

Spec == Init /\ [][Next]_stored
=============================================================================
