------------------------------ MODULE MCDesks ------------------------------
(***************************************************************************)
(* The components that lock the row of a user, side by side: a behaviour   *)
(* is a behaviour of one of them, and the other stands still in its        *)
(* initial state.                                                          *)
(***************************************************************************)
EXTENDS SupportTickets, Wallets

CONSTANTS d1, d2, u1, u2

OneUser == {u1}
\* Two users who may invite each other.
TwoPeople == {u1, u2}
\* Two handlers, requests or jobs at once.
TwoDesks == {d1, d2}

VARIABLE focus   \* the component that runs

On(component) == focus = component

desksVars == <<focus, ticketsVars, walletVars>>

DesksInit == focus \in {"tickets", "wallets"} /\ TicketsInit /\ WalletInit

DesksNext ==
  /\ UNCHANGED focus
  /\ \/ On("tickets") /\ TicketsNext /\ UNCHANGED walletVars
     \/ On("wallets") /\ WalletNext /\ UNCHANGED ticketsVars

\* The fairness of each module, for the component that runs.
DesksFair ==
  \A d \in TwoDesks :
    SF_desksVars(/\ UNCHANGED focus
                 /\ \/ On("tickets") /\ Continue(d) /\ UNCHANGED walletVars
                    \/ On("wallets") /\ Proceed(d) /\ UNCHANGED ticketsVars)

DesksSpec == DesksInit /\ [][DesksNext]_desksVars /\ DesksFair

\* The type invariants of the two components.
DesksTypeOK == TicketsTypeOK /\ WalletTypeOK

\* Whoever waits for whose row, in whatever order, every transaction of either
\* component ends.
DesksEnd == HandlersEnd /\ DealsEnd
=============================================================================
