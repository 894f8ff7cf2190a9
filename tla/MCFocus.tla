------------------------------- MODULE MCFocus -------------------------------
(***************************************************************************)
(* Components that are checked side by side: a behaviour is a behaviour of *)
(* one of them, and the others stand still in an initial state.  They      *)
(* share no variable, so this checks what a run of each would, and the     *)
(* numbers of states add up.                                               *)
(***************************************************************************)
VARIABLE focus   \* the component that runs

On(component) == focus = component
=============================================================================
