----------------------------- MODULE WebAdmins -----------------------------
(***************************************************************************)
(* The accounts of the web console and the pages that change them.  A      *)
(* request signs in, in one transaction, and in another reads the account, *)
(* counts the active superadmins and writes; nothing is locked.  A user of *)
(* the environment is let in as a superadmin beside the accounts.  The     *)
(* roles that are not superadmin are one.                                  *)
(***************************************************************************)
EXTENDS Integers, FiniteSets

CONSTANTS Logins, EnvName,   \* user names, and that of the environment
          Words, EnvWord,   \* passwords
          Clerks,           \* requests at once
          NoAccount,
          MaxRequests       \* bound

ASSUME EnvAssumption == EnvName \in Logins /\ EnvWord \in Words /\ IsFiniteSet(Logins)
ASSUME MaxRequestsAssumption == MaxRequests \in Nat

VARIABLES accounts,  \* web_admin_users
          request,   \* [at, who, op, name, role, active, word, copy]
          requests,
          overtaken, \* ghost: requests since whose check a superadmin was lost
          raced      \* ghost: one of those took a superadmin away

adminVars == <<accounts, request, requests, overtaken, raced>>
race == <<overtaken, raced>>

Roles == {"superadmin", "support"}
Accounts == [role : Roles, active : BOOLEAN, word : Words]
ASSUME NoAccountAssumption == NoAccount \notin Accounts
AtRest == [at |-> "rest", who |-> EnvName, op |-> "none", name |-> EnvName, role |-> "support",
           active |-> FALSE, word |-> EnvWord, copy |-> NoAccount]

Exists(n) == accounts[n] # NoAccount
IsSuper(n) == Exists(n) /\ accounts[n].role = "superadmin" /\ accounts[n].active

\* count_active_by_role(superadmin); a mutant counts the inactive too.
SupersOrInactive == {n \in Logins : Exists(n) /\ accounts[n].role = "superadmin"}
Supers == {n \in Logins : IsSuper(n)}

\* bootstrap_web_admin_from_env.
Bootstrapped(was) ==
  IF was[EnvName] = NoAccount
     /\ ~\E n \in Logins : was[n] # NoAccount /\ was[n].role = "superadmin" /\ was[n].active
    THEN [was EXCEPT ![EnvName] = [role |-> "superadmin", active |-> TRUE, word |-> EnvWord]]
    ELSE was

AdminsInit ==
  /\ accounts = Bootstrapped([n \in Logins |-> NoAccount])
  /\ request = [c \in Clerks |-> AtRest]
  /\ requests = 0
  /\ overtaken = {} /\ raced = FALSE

\* authenticate_web_admin and require_superadmin: an active account with that
\* password decides, and otherwise the environment.
MaySignIn(n, w) ==
  IF Exists(n) /\ accounts[n].active /\ accounts[n].word = w
    THEN accounts[n].role = "superadmin"
    ELSE n = EnvName /\ w = EnvWord

SignIn(c, n, w, r) ==
  /\ request[c] = AtRest /\ requests < MaxRequests
  /\ MaySignIn(n, w)
  /\ request' = [request EXCEPT ![c] = [r EXCEPT !.at = "signed", !.who = n]]
  /\ requests' = requests + 1
  /\ UNCHANGED <<accounts, race>>

Retire(c) == request' = [request EXCEPT ![c] = AtRest]
Go(c) == request' = [request EXCEPT ![c].at = "checked", ![c].copy = accounts[request[c].name]]

-----------------------------------------------------------------------------
(* The reads and the checks of each page.                                  *)

MayCreate(r) == ~Exists(r.name)

\* Neither oneself nor the last active superadmin may be demoted or switched off.
MayUpdate(r) ==
  /\ Exists(r.name)
  /\ r.name = r.who => r.active /\ r.role = "superadmin"
  /\ accounts[r.name].role = "superadmin" /\ ~(r.active /\ r.role = "superadmin")
       => Supers \ (IF accounts[r.name].active THEN {r.name} ELSE {}) # {}

MayChangeWord(r) == Exists(r.name)

MayDelete(r) ==
  /\ Exists(r.name)
  /\ r.name # r.who
  /\ IsSuper(r.name) => Cardinality(Supers) > 1

May(r) ==
  CASE r.op = "create" -> MayCreate(r)
    [] r.op = "update" -> MayUpdate(r)
    [] r.op = "password" -> MayChangeWord(r)
    [] r.op = "delete" -> MayDelete(r)

Check(c) ==
  /\ request[c].at = "signed"
  /\ IF May(request[c]) THEN Go(c) ELSE Retire(c)
  /\ UNCHANGED <<accounts, requests, race>>

-----------------------------------------------------------------------------
(* The writes: only the columns that differ from the copy are written; a   *)
(* row that is gone, or a name that is taken, makes the request fail.      *)

Changed(new, copied, now) == IF new = copied THEN now ELSE new

Written(r) ==
  LET now == accounts[r.name]
  IN CASE r.op = "create" -> [role |-> r.role, active |-> r.active, word |-> r.word]
       [] r.op = "update" -> [now EXCEPT !.role = Changed(r.role, r.copy.role, @),
                                         !.active = Changed(r.active, r.copy.active, @)]
       [] r.op = "password" -> [now EXCEPT !.word = r.word]

Fails(r) == IF r.op = "create" THEN Exists(r.name) ELSE ~Exists(r.name)

\* A superadmin is gone: whoever has checked and not written yet counted one too many.
Overtakes(c) == overtaken' = (overtaken \cup {d \in Clerks : request[d].at = "checked"}) \ {c}
KeepsTrack(c) ==
  \/ /\ Supers \subseteq Supers'
     /\ overtaken' = overtaken \ {c}
     /\ UNCHANGED raced
  \/ /\ ~(Supers \subseteq Supers')
     /\ Overtakes(c)
     /\ raced' = (raced \/ c \in overtaken)

Write(c) ==
  /\ request[c].at = "checked"
  /\ accounts' =
       CASE request[c].op = "delete" -> [accounts EXCEPT ![request[c].name] = NoAccount]
         [] request[c].op # "delete" /\ Fails(request[c]) -> accounts
         [] OTHER -> [accounts EXCEPT ![request[c].name] = Written(request[c])]
  /\ KeepsTrack(c)
  /\ Retire(c)
  /\ UNCHANGED requests

\* The process starts anew.
Restart ==
  /\ accounts' = Bootstrapped(accounts)
  /\ request' = [c \in Clerks |-> AtRest]
  /\ overtaken' = {}
  /\ UNCHANGED <<requests, raced>>

Forms ==
  [at : {"form"}, who : {EnvName}, op : {"create", "update"}, name : Logins, role : Roles,
   active : BOOLEAN, word : {EnvWord}, copy : {NoAccount}]
  \cup [at : {"form"}, who : {EnvName}, op : {"password", "delete"}, name : Logins, role : {"support"},
        active : {FALSE}, word : Words, copy : {NoAccount}]

AdminsNext ==
  \/ \E c \in Clerks :
       \/ \E n \in Logins, w \in Words, r \in Forms : SignIn(c, n, w, r)
       \/ Check(c)
       \/ Write(c)
  \/ Restart

AdminsSpec == AdminsInit /\ [][AdminsNext]_adminVars

-----------------------------------------------------------------------------
\* Accounts and requests are well-formed.
AdminsTypeOK ==
  /\ accounts \in [Logins -> Accounts \cup {NoAccount}]
  /\ \A c \in Clerks : request[c].at \in {"rest", "signed", "checked"} /\ request[c].name \in Logins
                         /\ request[c].copy \in Accounts \cup {NoAccount}
  /\ requests \in 0..MaxRequests
  /\ \A c \in overtaken : c \in Clerks /\ request[c].at = "checked"
  /\ raced \in BOOLEAN

\* What the comment in admin_web_admins_update says, and the answer of
\* admin_web_admins_delete: an active superadmin remains.
SuperadminRemains == \E n \in Logins : IsSuper(n)

\* Demotions, deletions, changes of password and restarts leave an active superadmin,
\* unless one of two requests that both had counted took the other's superadmin away:
\* every other overlap is harmless, and the columns a form leaves alone are kept.
LostOnlyInARace == raced \/ SuperadminRemains
=============================================================================
