-------------------------- MODULE DynamicOwnership --------------------------
(***************************************************************************)
(* The wrapper type DynamicOwnership of src/helper_types.rs: a value whose *)
(* owner is tracked, and which may be read only while the wrapper itself   *)
(* owns it, the memory being uninitialised otherwise.  One wrapper per     *)
(* element of Cells; init() panics on a wrapper that is not new.           *)
(***************************************************************************)
CONSTANT Cells

VARIABLE owner   \* Owner: nobody's yet, this wrapper's, or someone else's

Owners == {"Nobody", "This", "Foreign"}

\* new()
Init == owner = [c \in Cells |-> "Nobody"]

\* is_owned(): what get(), get_mut() and take() ask before they read.
IsOwned(c) == owner[c] = "This"

\* init(), past its assertion
InitValue(c) ==
  /\ owner[c] = "Nobody"
  /\ owner' = [owner EXCEPT ![c] = "This"]

\* take() that succeeds: the value leaves, taken_by() stays behind.
Take(c) ==
  /\ IsOwned(c)
  /\ owner' = [owner EXCEPT ![c] = "Foreign"]

Next == \E c \in Cells : InitValue(c) \/ Take(c)

Spec == Init /\ [][Next]_owner
=============================================================================
