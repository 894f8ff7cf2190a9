------------------------------- MODULE MCBooks -------------------------------
(***************************************************************************)
(* The records of the users and the settings of the console, nine          *)
(* components side by side.                                                *)
(***************************************************************************)
EXTENDS MCRecords, MCSettings

booksVars == <<focus, recordVars, consoleVars>>

BooksInit == (RecordsInit /\ ConsoleInit) \/ (SettingsInit /\ RowsInit)

BooksNext ==
  \/ RecordsNext /\ UNCHANGED consoleVars
  \/ SettingsNext /\ UNCHANGED recordVars

BooksSpec == BooksInit /\ [][BooksNext]_booksVars
=============================================================================
