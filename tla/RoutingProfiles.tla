--------------------------- MODULE RoutingProfiles ---------------------------
(***************************************************************************)
(* The routing profiles and the pages that change them, each a transaction *)
(* that locks the rows it names one by one, in the order of the form.  A   *)
(* page that names a default then reads which others are the default, and  *)
(* locks those only as it writes them.  What it wrote shows when it        *)
(* commits; if two wait for each other one is rolled back.                 *)
(***************************************************************************)
EXTENDS Integers, Sequences, FiniteSets, SequencesExt, FiniteSetsExt

CONSTANTS Profiles,     \* ids, in the order of sort_order
          Marks,        \* match_tags
          Editors,      \* pages at once
          MaxForms      \* bound

ASSUME ProfilesAssumption == Profiles \subseteq Nat
ASSUME RoutingBoundsAssumption == MaxForms \in Nat

VARIABLES profiles,  \* routing_profiles: [there, enabled, default, marks]
          editor,    \* a page: the form, the rows yet to lock, those it has locked and
                     \* what it makes of them, the defaults it found and cleared, and
                     \* (history) whether another default was made since it looked
          spoiled,   \* history: the pages that left routing without a profile to fall back on
          doubled,   \* history: a page named a default, not knowing of another
          forms

routingVars == <<profiles, editor, spoiled, doubled, forms>>

Unmade == [there |-> FALSE, enabled |-> FALSE, default |-> FALSE, marks |-> {}]
NoForm == [enabled |-> FALSE, default |-> FALSE, marks |-> {}]
NoRows == [i \in {} |-> Unmade]
Opened(op, form, todo) == [op |-> op, form |-> form, todo |-> todo, rows |-> NoRows,
                           read |-> FALSE, due |-> {}, cleared |-> {}, passed |-> FALSE]
AtEase == Opened("none", NoForm, <<>>)

First == Min(Profiles)

RoutingInit ==
  /\ profiles = [i \in Profiles |-> IF i = First
                   THEN [there |-> TRUE, enabled |-> TRUE, default |-> TRUE, marks |-> {}]
                   ELSE Unmade]
  /\ editor = [c \in Editors |-> AtEase]
  /\ spoiled = {} /\ doubled = FALSE
  /\ forms = 0

-----------------------------------------------------------------------------
(* The choice of a profile, select_for_tags.                               *)

EnabledRows(rows) == {i \in Profiles : rows[i].there /\ rows[i].enabled}
DefaultRows(rows) == {i \in Profiles : rows[i].there /\ rows[i].default}

\* list_enabled and get_default; the empty set is no profile.
Choice(rows, marks) ==
  LET fitting == {i \in EnabledRows(rows) : rows[i].marks # {} /\ rows[i].marks \subseteq marks}
      fallback == {i \in DefaultRows(rows) : \A j \in DefaultRows(rows) : i <= j}
  IN IF fitting # {} THEN {Min(fitting)} ELSE fallback \cap EnabledRows(rows)

-----------------------------------------------------------------------------
(* The pages.                                                              *)

HeldBy(page) == DOMAIN page.rows \cup page.cleared
Locked(i) == \E c \in Editors : i \in HeldBy(editor[c])
NamesDefault(page) == page.op = "set_default" \/ (page.op = "save" /\ page.form.default)

OpenForm(c, op, form, todo) ==
  /\ editor[c] = AtEase
  /\ forms < MaxForms /\ forms' = forms + 1
  /\ editor' = [editor EXCEPT ![c] = Opened(op, form, todo)]
  /\ UNCHANGED <<profiles, spoiled, doubled>>

Leave(c) == editor' = [editor EXCEPT ![c] = AtEase]

\* update or upsert of a row, by its id or its code; set_default changes one column.
Saved(row, page) ==
  IF page.op = "set_default" THEN [row EXCEPT !.default = TRUE]
  ELSE [there |-> TRUE, enabled |-> page.form.enabled, default |-> page.form.default,
        marks |-> page.form.marks]

\* bulk_toggle leaves the default on.
Toggled(row, page) ==
  IF ~page.form.enabled /\ row.default THEN row ELSE [row EXCEPT !.enabled = page.form.enabled]

\* Deletion is refused for the default; a mutant asks before it takes the lock.
AskedBefore(row, page) == ~page.form.default
MayErase(row, page) == ~row.default

\* A copy finds its code taken, or a page the row gone or the default.
Declined(row, page) ==
  \/ page.op = "copy" /\ row.there
  \/ page.op \in {"set_default", "delete"} /\ ~row.there
  \/ page.op = "delete" /\ ~MayErase(row, page)

\* The row among those the page holds.
AndRow(rows, i, new) == [j \in {i} \cup DOMAIN rows |-> IF j = i THEN new ELSE rows[j]]

\* The next row of the form is locked, read and changed.
TakeRow(c) ==
  LET page == editor[c]
      i == Head(page.todo)
      row == profiles[i]
      with(new) == editor' = [editor EXCEPT ![c].todo = Tail(@), ![c].rows = AndRow(@, i, new)]
  IN /\ page.todo # <<>>
     /\ ~Locked(i)
     /\ \/ page.op = "toggle" /\ row.there /\ with(Toggled(row, page))
        \/ page.op = "toggle" /\ ~row.there /\ editor' = [editor EXCEPT ![c].todo = Tail(@)]
        \/ page.op = "save" /\ with(Saved(row, page))
        \/ page.op = "set_default" /\ row.there /\ with(Saved(row, page))
        \/ page.op = "copy" /\ ~row.there /\ with(Saved(row, page))
        \/ page.op = "delete" /\ row.there /\ MayErase(row, page) /\ with(Unmade)
        \/ Declined(row, page) /\ Leave(c)
     /\ UNCHANGED <<profiles, spoiled, doubled, forms>>

\* clear_default finds the other rows that are the default; a mutant only those
\* that are on.
OthersOn(rows, mine) == {i \in DefaultRows(rows) : rows[i].enabled} \ mine
Others(rows, mine) == DefaultRows(rows) \ mine

FindDefaults(c) ==
  LET page == editor[c]
  IN /\ NamesDefault(page) /\ page.todo = <<>> /\ ~page.read
     /\ editor' = [editor EXCEPT ![c].read = TRUE, ![c].due = Others(profiles, DOMAIN page.rows)]
     /\ UNCHANGED <<profiles, spoiled, doubled, forms>>

\* One of them is written, unless it was deleted.
ClearRow(c) ==
  /\ \E i \in editor[c].due :
       /\ ~Locked(i)
       /\ \/ profiles[i].there /\ editor' = [editor EXCEPT ![c].due = @ \ {i}, ![c].cleared = @ \cup {i}]
          \/ ~profiles[i].there /\ Leave(c)
  /\ UNCHANGED <<profiles, spoiled, doubled, forms>>

Finished(page) ==
  page.op # "none" /\ page.todo = <<>> /\ (NamesDefault(page) => page.read /\ page.due = {})

\* The other page has looked for defaults already, and will not find this one.
Passed(page, by) == IF page.read /\ NamesDefault(by) THEN [page EXCEPT !.passed = TRUE] ELSE page

CommitForm(c) ==
  LET page == editor[c]
      after == [i \in Profiles |-> IF i \in DOMAIN page.rows THEN page.rows[i]
                                   ELSE IF i \in page.cleared THEN [profiles[i] EXCEPT !.default = FALSE]
                                   ELSE profiles[i]]
  IN /\ Finished(page)
     /\ profiles' = after
     /\ spoiled' = IF Choice(profiles, {}) # {} /\ Choice(after, {}) = {} THEN spoiled \cup {page.op} ELSE spoiled
     /\ doubled' = (doubled \/ page.passed)
     /\ editor' = [d \in Editors |-> IF d = c THEN AtEase ELSE Passed(editor[d], page)]
     /\ UNCHANGED forms

\* The rows a page waits for, and the database ends one of two that wait for each
\* other.
WaitsFor(page) == IF page.todo # <<>> THEN {Head(page.todo)} ELSE page.due
Victimised(c) ==
  /\ \E d \in Editors \ {c} : /\ WaitsFor(editor[c]) \cap HeldBy(editor[d]) # {}
                              /\ WaitsFor(editor[d]) \cap HeldBy(editor[c]) # {}
  /\ Leave(c)
  /\ UNCHANGED <<profiles, spoiled, doubled, forms>>

Form(e, d, m) == [enabled |-> e, default |-> d, marks |-> m]
Orders == {o \in UNION {[1..n -> Profiles] : n \in 1..2} : IsInjective(o)}

RoutingNext ==
  \E c \in Editors :
    \/ \E i \in Profiles :
         \/ \E e, d \in BOOLEAN, m \in SUBSET Marks : OpenForm(c, "save", Form(e, d, m), <<i>>)
         \/ OpenForm(c, "set_default", NoForm, <<i>>)
         \/ OpenForm(c, "delete", Form(FALSE, profiles[i].default, {}), <<i>>)
         \/ \E j \in Profiles : profiles[j].there /\ OpenForm(c, "copy", Form(FALSE, FALSE, profiles[j].marks), <<i>>)
    \/ \E e \in BOOLEAN, o \in Orders : OpenForm(c, "toggle", Form(e, FALSE, {}), o)
    \/ TakeRow(c) \/ FindDefaults(c) \/ ClearRow(c) \/ CommitForm(c) \/ Victimised(c)

RoutingSpec == RoutingInit /\ [][RoutingNext]_routingVars

-----------------------------------------------------------------------------
\* Rows and pages are well-formed, and no row is locked twice.
RoutingTypeOK ==
  /\ \A i \in Profiles : profiles[i].marks \subseteq Marks /\ (profiles[i].default => profiles[i].there)
  /\ \A c, d \in Editors : c # d => HeldBy(editor[c]) \cap HeldBy(editor[d]) = {}
  /\ forms \in 0..MaxForms

\* At most one profile is the default, until two pages that name one cross: nothing
\* makes a page wait that looks for defaults while another has yet to commit its own.
\* And only a form that says so leaves routing without a profile to fall back on: neither
\* bulk switches, "it must stay on, otherwise routing falls apart", nor deletions, which
\* are refused for the default, nor copies do, however all of them overlap
\* (routes.py, admin_routing_profiles_update).
RoutingHasDefault ==
  /\ doubled \/ Cardinality(DefaultRows(profiles)) <= 1
  /\ spoiled \subseteq {"save", "set_default"}
=============================================================================
