---------------------------- MODULE GuardsProofs ----------------------------
(***************************************************************************)
(* The accounts of the console, the drafts of answers and the limits of    *)
(* both entrances, for every value of their constants; and the types of    *)
(* everything that the duties are checked with.                            *)
(***************************************************************************)
EXTENDS MCDuties, DutiesProofs, OutboxProofs, FiniteSetTheorems, SequenceTheorems, TLAPS

-----------------------------------------------------------------------------
(***************************************************************************)
(* The accounts.  A page checks in one statement and writes in another, so *)
(* what it checked need not hold any more.  What it needs still holds:     *)
(* either its write can take no superadmin away, whatever the row has      *)
(* become, or there is a superadmin it does not touch; and only the loss of*)
(* a superadmin in between, which the ghost notes, can end that.           *)
(***************************************************************************)

Operations == {"none", "create", "update", "password", "delete"}
Requests ==
  [at : {"rest", "signed", "checked"}, who : Logins, op : Operations, name : Logins,
   role : Roles, active : BOOLEAN, word : Words, copy : Accounts \cup {NoAccount}]

AdminTypes ==
  /\ accounts \in [Logins -> Accounts \cup {NoAccount}]
  /\ request \in [Clerks -> Requests]

\* A form that was sent names an operation.
FormsNamed == \A c \in Clerks : request[c].at # "rest" => request[c].op # "none"

RaceTypes == raced \in BOOLEAN /\ \A c \in overtaken : c \in Clerks /\ request[c].at = "checked"

AdminShapes == AdminTypes /\ FormsNamed /\ RaceTypes /\ requests \in 0..MaxRequests

\* Requests that take no superadmin away, whatever the row is when they write.
Harmless(r) ==
  \/ r.op \in {"create", "password"}
  \/ r.op = "update" /\ r.active /\ r.role = "superadmin"

AnotherThan(n) == \E m \in Logins : m # n /\ IsSuper(m)

Spared ==
  \A c \in Clerks :
    request[c].at = "checked" /\ c \notin overtaken /\ ~raced =>
      Harmless(request[c]) \/ AnotherThan(request[c].name)

AdminsInv == AdminShapes /\ LostOnlyInARace /\ Spared

-----------------------------------------------------------------------------
\* Of more than one superadmin there is another.
LEMMA AnotherSuper ==
  ASSUME Cardinality(Supers) > 1, NEW n \in Supers
  PROVE  \E m \in Supers : m # n
  <1>1. IsFiniteSet(Supers)
    BY EnvAssumption, FS_Subset DEF Supers
  <1>2. Supers # {n}
    BY <1>1, FS_Singleton
  <1>3. QED BY <1>2

LEMMA AtRestIsRequest == AtRest \in Requests
  BY EnvAssumption DEF AtRest, Requests, Roles, Operations

\* The bootstrap gives an empty table a superadmin, and leaves one that has a
\* superadmin alone.
LEMMA AdminsStart == AdminsInit => AdminsInv
  <1> SUFFICES ASSUME AdminsInit PROVE AdminsInv
    OBVIOUS
  <1>1. accounts = [[n \in Logins |-> NoAccount] EXCEPT
                      ![EnvName] = [role |-> "superadmin", active |-> TRUE, word |-> EnvWord]]
    BY EnvAssumption DEF AdminsInit, Bootstrapped
  <1>2. [role |-> "superadmin", active |-> TRUE, word |-> EnvWord] \in Accounts
    BY EnvAssumption DEF Accounts, Roles
  <1>3. AdminTypes
    BY <1>1, <1>2, EnvAssumption, AtRestIsRequest DEF AdminTypes, AdminsInit
  <1>4. \A c \in Clerks : request[c].at = "rest"
    BY DEF AdminsInit, AtRest
  <1>5. IsSuper(EnvName)
    BY <1>1, <1>2, EnvAssumption, NoAccountAssumption DEF IsSuper, Exists
  <1>6. AdminShapes
    <2>1. RaceTypes
      BY DEF AdminsInit, RaceTypes
    <2>2. requests \in 0..MaxRequests
      BY MaxRequestsAssumption DEF AdminsInit
    <2> QED
      BY <1>3, <1>4, <2>1, <2>2 DEF AdminShapes, FormsNamed
  <1>7. QED
    BY <1>4, <1>5, <1>6, EnvAssumption DEF AdminsInv, LostOnlyInARace, Spared, SuperadminRemains

LEMMA AdminShapesStart == AdminsInit => AdminShapes
  BY AdminsStart DEF AdminsInv

-----------------------------------------------------------------------------
LEMMA WriteTyped ==
  ASSUME AdminTypes, NEW c \in Clerks, Write(c), request[c].op # "none"
  PROVE  AdminTypes'
  <1> DEFINE r == request[c]
  <1>1. r \in Requests /\ r.op # "none"
    BY DEF AdminTypes
  <1>2. accounts \in [Logins -> Accounts \cup {NoAccount}]
    BY DEF AdminTypes
  <1>3. r.op # "delete" /\ ~Fails(r) => Written(r) \in Accounts
    <2>1. r.op = "create" => Written(r) \in Accounts
      BY <1>1 DEF Written, Accounts, Requests
    <2>2. r.op \in {"update", "password"} /\ ~Fails(r) => accounts[r.name] \in Accounts
      BY <1>1, <1>2 DEF Fails, Exists, Requests
    <2>3. r.op = "password" /\ ~Fails(r) => Written(r) \in Accounts
      BY <2>2, <1>1 DEF Written, Accounts, Requests
    <2>4. r.op = "update" /\ ~Fails(r) => Written(r) \in Accounts
      BY <2>2, <1>1 DEF Written, Changed, Accounts, Requests
    <2>5. QED BY <2>1, <2>3, <2>4, <1>1 DEF Requests, Operations
  <1>4. accounts' \in [Logins -> Accounts \cup {NoAccount}]
    BY <1>1, <1>2, <1>3 DEF Write
  <1>5. request' \in [Clerks -> Requests]
    BY AtRestIsRequest DEF AdminTypes, Write, Retire
  <1>6. QED BY <1>4, <1>5 DEF AdminTypes

\* Whoever is overtaken has checked and not written yet.
LEMMA RaceTypesSteps ==
  ASSUME AdminTypes, RaceTypes, [AdminsNext]_adminVars
  PROVE  RaceTypes'
<1>1. request \in [Clerks -> Requests] /\ raced \in BOOLEAN
  BY DEF AdminTypes, RaceTypes
<1>2. ASSUME NEW c \in Clerks, request[c].at # "checked", UNCHANGED race, NEW new,
             request' = [request EXCEPT ![c] = new]
      PROVE  RaceTypes'
  BY <1>1, <1>2 DEF RaceTypes, race
<1>3. ASSUME NEW c \in Clerks, NEW n \in Logins, NEW w \in Words, NEW r \in Forms, SignIn(c, n, w, r)
      PROVE  RaceTypes'
  <2>1. request[c].at # "checked" /\ UNCHANGED race
        /\ request' = [request EXCEPT ![c] = [r EXCEPT !.at = "signed", !.who = n]]
    BY <1>3 DEF SignIn, AtRest, race
  <2> QED
    BY <2>1, <1>2
<1>4. ASSUME NEW c \in Clerks, Check(c)
      PROVE  RaceTypes'
  <2>1. request[c].at = "signed" /\ UNCHANGED race
        /\ \A d \in Clerks \ {c} : request'[d] = request[d]
    BY <1>1, <1>4 DEF Check, Go, Retire, race
  <2> QED
    BY <1>1, <2>1 DEF RaceTypes, race
<1>5. ASSUME NEW c \in Clerks, Write(c)
      PROVE  RaceTypes'
  <2>1. request' = [request EXCEPT ![c] = AtRest]
    BY <1>5 DEF Write, Retire
  <2>2. raced' \in BOOLEAN
    BY <1>1, <1>5 DEF Write, KeepsTrack
  <2>3. ASSUME NEW d \in overtaken'
        PROVE  d \in Clerks /\ d # c /\ request[d].at = "checked"
    <3>1. d \in (overtaken \cup {e \in Clerks : request[e].at = "checked"}) \ {c}
      BY <1>5, <2>3 DEF Write, KeepsTrack, Overtakes
    <3> QED
      BY <3>1 DEF RaceTypes
  <2> QED
    BY <1>1, <2>1, <2>2, <2>3 DEF RaceTypes
<1>6. CASE Restart
  BY <1>1, <1>6 DEF Restart, RaceTypes
<1>7. CASE UNCHANGED adminVars
  BY <1>1, <1>7 DEF adminVars, RaceTypes
<1> QED
  BY <1>3, <1>4, <1>5, <1>6, <1>7 DEF AdminsNext

LEMMA AdminShapesSteps ==
  ASSUME AdminShapes, [AdminsNext]_adminVars
  PROVE  AdminShapes'
<1>1. /\ accounts \in [Logins -> Accounts \cup {NoAccount}] /\ request \in [Clerks -> Requests]
      /\ \A c \in Clerks : request[c].at # "rest" => request[c].op # "none"
      /\ requests \in 0..MaxRequests
  BY DEF AdminShapes, AdminTypes, FormsNamed
<1>0. RaceTypes'
  BY RaceTypesSteps DEF AdminShapes
<1>2. AtRest \in Requests /\ AtRest.at = "rest"
  BY AtRestIsRequest DEF AtRest
<1>3. ASSUME NEW c \in Clerks, NEW n \in Logins, NEW w \in Words, NEW r \in Forms, SignIn(c, n, w, r)
      PROVE AdminShapes'
  <2>1. [r EXCEPT !.at = "signed", !.who = n] \in Requests
        /\ [r EXCEPT !.at = "signed", !.who = n].op # "none"
    BY EnvAssumption DEF Forms, Requests, Roles, Operations
  <2>2. /\ request' = [request EXCEPT ![c] = [r EXCEPT !.at = "signed", !.who = n]]
        /\ requests' = requests + 1 /\ requests < MaxRequests /\ accounts' = accounts
    BY <1>3 DEF SignIn
  <2> QED
    BY <1>0, <1>1, <2>1, <2>2, MaxRequestsAssumption DEF AdminShapes, AdminTypes, FormsNamed
<1>4. ASSUME NEW c \in Clerks, Check(c)
      PROVE AdminShapes'
  <2>1. /\ accounts' = accounts /\ requests' = requests
        /\ request[c].at = "signed" /\ request[c].op # "none" /\ request[c] \in Requests
    BY <1>1, <1>4 DEF Check
  <2>2. PICK new \in Requests : request' = [request EXCEPT ![c] = new]
                                /\ (new.at # "rest" => new.op # "none")
    <3>1. CASE May(request[c])
      <4> DEFINE gone == [request[c] EXCEPT !.at = "checked", !.copy = accounts[request[c].name]]
      <4>1. request' = [request EXCEPT ![c] = gone]
        BY <1>1, <1>4, <2>1, <3>1 DEF Check, Go, Requests
      <4>2. gone \in Requests /\ gone.op = request[c].op
        BY <1>1, <2>1 DEF Requests
      <4> QED
        BY <4>1, <4>2, <2>1
    <3>2. CASE ~May(request[c])
      BY <1>2, <1>4, <3>2 DEF Check, Retire
    <3> QED
      BY <3>1, <3>2
  <2> QED
    BY <1>0, <1>1, <2>1, <2>2 DEF AdminShapes, AdminTypes, FormsNamed
<1>5. ASSUME NEW c \in Clerks, Write(c)
      PROVE AdminShapes'
  <2>1. AdminTypes'
    BY <1>1, <1>5, WriteTyped DEF AdminTypes, Write
  <2>2. request' = [request EXCEPT ![c] = AtRest] /\ requests' = requests
    BY <1>5 DEF Write, Retire
  <2> QED
    BY <1>0, <1>1, <1>2, <2>1, <2>2 DEF AdminShapes, FormsNamed
<1>6. CASE Restart
  <2>1. [role |-> "superadmin", active |-> TRUE, word |-> EnvWord] \in Accounts
    BY EnvAssumption DEF Accounts, Roles
  <2>2. accounts' \in [Logins -> Accounts \cup {NoAccount}]
    BY <1>1, <1>6, <2>1, EnvAssumption DEF Restart, Bootstrapped
  <2>3. request' = [c \in Clerks |-> AtRest] /\ requests' = requests
    BY <1>6 DEF Restart
  <2> QED
    BY <1>0, <1>1, <1>2, <2>2, <2>3 DEF AdminShapes, AdminTypes, FormsNamed
<1>7. CASE UNCHANGED adminVars
  BY <1>0, <1>1, <1>7 DEF adminVars, AdminShapes, AdminTypes, FormsNamed
<1> QED
  BY <1>3, <1>4, <1>5, <1>6, <1>7 DEF AdminsNext

LEMMA AdminShapesTypes == AdminShapes => AdminsTypeOK
  BY DEF AdminShapes, AdminTypes, RaceTypes, Requests, AdminsTypeOK

-----------------------------------------------------------------------------
\* A write touches one account.
LEMMA OthersUntouched ==
  ASSUME AdminTypes, NEW c \in Clerks, Write(c), NEW m \in Logins, m # request[c].name
  PROVE  accounts'[m] = accounts[m]
  BY DEF AdminTypes, Write, Requests

\* A harmless write leaves every superadmin one.
LEMMA HarmlessKeeps ==
  ASSUME AdminTypes, NEW c \in Clerks, Write(c), Harmless(request[c]), NEW m \in Logins, IsSuper(m)
  PROVE  IsSuper(m)'
  <1> DEFINE r == request[c]
  <1>1. r \in Requests /\ accounts \in [Logins -> Accounts \cup {NoAccount}]
    BY DEF AdminTypes
  <1>2. accounts[m] \in Accounts
    BY <1>1 DEF IsSuper, Exists
  <1>3. CASE m # r.name
    BY <1>3, OthersUntouched DEF IsSuper, Exists
  <1>4. CASE m = r.name /\ r.op = "create"
    BY <1>4, <1>1 DEF Write, Fails, Harmless, IsSuper, Exists
  <1>5. CASE m = r.name /\ r.op = "password"
    <2>1. accounts'[m] = [accounts[m] EXCEPT !.word = r.word]
      BY <1>1, <1>2, <1>5 DEF Write, Fails, Written, IsSuper, Exists
    <2>2. accounts'[m] \in Accounts /\ accounts'[m].role = accounts[m].role
          /\ accounts'[m].active = accounts[m].active
      BY <2>1, <1>1, <1>2 DEF Accounts, Requests
    <2>3. QED BY <2>2, NoAccountAssumption DEF IsSuper, Exists
  <1>6. CASE m = r.name /\ r.op = "update"
    <2>1. r.active /\ r.role = "superadmin"
      BY <1>6 DEF Harmless
    <2>2. accounts'[m] = [accounts[m] EXCEPT !.role = Changed(r.role, r.copy.role, @),
                                             !.active = Changed(r.active, r.copy.active, @)]
      BY <1>1, <1>2, <1>6 DEF Write, Fails, Written, IsSuper, Exists
    <2>3. accounts'[m] \in Accounts /\ accounts'[m].role = "superadmin" /\ accounts'[m].active
      BY <2>1, <2>2, <1>1, <1>2 DEF Changed, Accounts, Requests, IsSuper
    <2>4. QED BY <2>3, NoAccountAssumption DEF IsSuper, Exists
  <1>7. QED BY <1>3, <1>4, <1>5, <1>6 DEF Harmless

\* Whoever was not overtaken leaves a superadmin.
LEMMA WriteLeavesOne ==
  ASSUME AdminsInv, NEW c \in Clerks, Write(c)
  PROVE  LostOnlyInARace'
  <1>1. AdminTypes /\ raced \in BOOLEAN
    BY DEF AdminsInv, AdminShapes, RaceTypes
  <1>2. CASE raced
    BY <1>2, <1>1 DEF Write, KeepsTrack, LostOnlyInARace
  <1>3. CASE ~raced
    <2>1. PICK s \in Logins : IsSuper(s)
      BY <1>3 DEF AdminsInv, LostOnlyInARace, SuperadminRemains
    <2>2. CASE Supers \subseteq Supers'
      BY <2>1, <2>2 DEF Supers, LostOnlyInARace, SuperadminRemains
    <2>3. CASE ~(Supers \subseteq Supers') /\ c \in overtaken
      BY <2>3 DEF Write, KeepsTrack, LostOnlyInARace
    <2>4. CASE c \notin overtaken
      <3>1. Harmless(request[c]) \/ AnotherThan(request[c].name)
        BY <1>3, <2>4 DEF AdminsInv, Spared, Write
      <3>2. CASE Harmless(request[c])
        BY <3>2, <1>1, <2>1, HarmlessKeeps DEF LostOnlyInARace, SuperadminRemains
      <3>3. CASE AnotherThan(request[c].name)
        <4>1. PICK m \in Logins : m # request[c].name /\ IsSuper(m)
          BY <3>3 DEF AnotherThan
        <4>2. accounts'[m] = accounts[m]
          BY <4>1, <1>1, OthersUntouched
        <4>3. QED BY <4>1, <4>2 DEF LostOnlyInARace, SuperadminRemains, IsSuper, Exists
      <3>4. QED BY <3>1, <3>2, <3>3
    <2>5. QED BY <2>2, <2>3, <2>4
  <1>4. QED BY <1>1, <1>2, <1>3

\* A write that takes no superadmin away disturbs no check, and one that does
\* overtakes every check.
LEMMA WriteSpares ==
  ASSUME AdminsInv, NEW c \in Clerks, Write(c)
  PROVE  Spared'
  <1>1. request' = [request EXCEPT ![c] = AtRest] /\ request \in [Clerks -> Requests]
        /\ raced \in BOOLEAN
    BY DEF Write, Retire, AdminsInv, AdminShapes, AdminTypes, RaceTypes
  <1>2. SUFFICES ASSUME NEW d \in Clerks, request'[d].at = "checked", d \notin overtaken', ~raced'
                 PROVE  Harmless(request'[d]) \/ AnotherThan(request[d].name)'
    BY <1>1 DEF Spared, Harmless, AnotherThan
  <1>3. d # c /\ request'[d] = request[d]
    BY <1>1, <1>2 DEF AtRest
  <1>4. Supers \subseteq Supers' /\ d \notin overtaken /\ ~raced
    BY <1>1, <1>2, <1>3 DEF Write, KeepsTrack, Overtakes
  <1>5. Harmless(request[d]) \/ AnotherThan(request[d].name)
    BY <1>2, <1>3, <1>4 DEF AdminsInv, Spared
  <1>6. CASE AnotherThan(request[d].name)
    <2>1. PICK m \in Logins : m # request[d].name /\ IsSuper(m)
      BY <1>6 DEF AnotherThan
    <2>2. IsSuper(m)'
      BY <1>4, <2>1 DEF Supers
    <2>3. QED BY <2>1, <2>2, <1>3 DEF AnotherThan
  <1>7. QED BY <1>3, <1>5, <1>6

\* What the pages check is what they need.
LEMMA CheckSpares ==
  ASSUME SuperadminRemains, NEW r \in Requests, r.op # "none", May(r)
  PROVE  Harmless(r) \/ AnotherThan(r.name)
  <1>1. PICK s \in Logins : IsSuper(s)
    BY DEF SuperadminRemains
  <1>2. CASE r.op = "update" /\ ~(r.active /\ r.role = "superadmin")
    <2>1. MayUpdate(r)
      BY <1>2 DEF May
    <2>2. CASE accounts[r.name].role = "superadmin"
      <3>1. PICK m \in Supers : accounts[r.name].active => m # r.name
        BY <1>2, <2>1, <2>2 DEF MayUpdate
      <3>2. m # r.name
        BY <3>1 DEF Supers, IsSuper
      <3>3. QED BY <3>1, <3>2 DEF Supers, AnotherThan
    <2>3. CASE accounts[r.name].role # "superadmin"
      BY <1>1, <2>3 DEF AnotherThan, IsSuper
    <2>4. QED BY <2>2, <2>3
  <1>3. CASE r.op = "delete"
    <2>1. MayDelete(r)
      BY <1>3 DEF May
    <2>2. CASE IsSuper(r.name)
      <3>1. r.name \in Supers /\ Cardinality(Supers) > 1
        BY <2>1, <2>2 DEF MayDelete, Supers, Requests
      <3>2. PICK m \in Supers : m # r.name
        BY <3>1, AnotherSuper
      <3>3. QED BY <3>2 DEF Supers, AnotherThan
    <2>3. CASE ~IsSuper(r.name)
      BY <1>1, <2>3 DEF AnotherThan
    <2>4. QED BY <2>2, <2>3
  <1>4. QED BY <1>2, <1>3 DEF Harmless, Requests, Operations

-----------------------------------------------------------------------------
\* A step that keeps the accounts and the ghosts keeps what other requests need.
LEMMA RequestMoves ==
  ASSUME AdminsInv, NEW c \in Clerks, NEW new \in Requests,
         request' = [request EXCEPT ![c] = new], UNCHANGED <<accounts, overtaken, raced>>,
         new.at = "checked" /\ ~raced => Harmless(new) \/ AnotherThan(new.name)
  PROVE  LostOnlyInARace' /\ Spared'
  <1>1. request \in [Clerks -> Requests] /\ \A n \in Logins : IsSuper(n)' = IsSuper(n)
    BY DEF AdminsInv, AdminShapes, AdminTypes, IsSuper, Exists
  <1>2. LostOnlyInARace'
    BY <1>1 DEF AdminsInv, LostOnlyInARace, SuperadminRemains
  <1>3. ASSUME NEW d \in Clerks, request'[d].at = "checked", d \notin overtaken', ~raced'
        PROVE  Harmless(request'[d]) \/ (\E m \in Logins : m # request'[d].name /\ IsSuper(m)')
    <2>1. CASE d = c
      BY <1>1, <1>3, <2>1 DEF AnotherThan
    <2>2. CASE d # c
      BY <1>1, <1>3, <2>2 DEF AdminsInv, Spared, AnotherThan
    <2>3. QED BY <2>1, <2>2
  <1>4. Spared'
    BY <1>3 DEF Spared, Harmless, AnotherThan
  <1>5. QED BY <1>2, <1>4

LEMMA SignInSpares ==
  ASSUME AdminsInv, NEW c \in Clerks, NEW n \in Logins, NEW w \in Words,
         NEW r \in Forms, SignIn(c, n, w, r)
  PROVE  LostOnlyInARace' /\ Spared'
  <1>1. PICK new \in Requests : new = [r EXCEPT !.at = "signed", !.who = n]
    BY EnvAssumption DEF Forms, Requests, Roles, Operations
  <1>2. new.at = "signed"
    BY <1>1 DEF Forms
  <1>3. request' = [request EXCEPT ![c] = new] /\ UNCHANGED <<accounts, overtaken, raced>>
    BY <1>1 DEF SignIn, race
  <1>4. QED BY <1>2, <1>3, RequestMoves

LEMMA CheckInv ==
  ASSUME AdminsInv, NEW c \in Clerks, Check(c)
  PROVE  LostOnlyInARace' /\ Spared'
  <1>1. /\ UNCHANGED <<accounts, overtaken, raced>> /\ request[c].at = "signed" /\ request[c] \in Requests
        /\ request[c].name \in Logins
        /\ request[c].op # "none" /\ request \in [Clerks -> Requests]
        /\ accounts \in [Logins -> Accounts \cup {NoAccount}]
    BY DEF Check, race, AdminsInv, AdminShapes, AdminTypes, FormsNamed, Requests
  <1>2. CASE May(request[c])
    <2> DEFINE checked == [request[c] EXCEPT !.at = "checked", !.copy = accounts[request[c].name]]
    <2>0. /\ checked \in Requests /\ checked.op = request[c].op /\ checked.name = request[c].name
          /\ checked.role = request[c].role /\ checked.active = request[c].active
      BY <1>1 DEF Requests
    <2>1. PICK new \in Requests :
            /\ new = checked
            /\ new.op = request[c].op /\ new.name = request[c].name /\ new.role = request[c].role
            /\ new.active = request[c].active
      BY <2>0
    <2>2. request' = [request EXCEPT ![c] = new]
      BY <1>1, <1>2, <2>1 DEF Check, Go, Requests
    <2>3. ~raced => Harmless(request[c]) \/ AnotherThan(request[c].name)
      BY <1>1, <1>2, CheckSpares DEF AdminsInv, LostOnlyInARace
    <2>4. ~raced => Harmless(new) \/ AnotherThan(new.name)
      BY <2>1, <2>3 DEF Harmless
    <2>5. QED BY <1>1, <2>2, <2>4, RequestMoves
  <1>3. CASE ~May(request[c])
    <2>1. request' = [request EXCEPT ![c] = AtRest]
      BY <1>3 DEF Check, Retire
    <2>2. AtRest \in Requests /\ AtRest.at # "checked"
      BY AtRestIsRequest DEF AtRest
    <2>3. QED BY <1>1, <2>1, <2>2, RequestMoves
  <1>4. QED BY <1>2, <1>3

LEMMA RestartInv ==
  ASSUME AdminsInv, Restart
  PROVE  LostOnlyInARace' /\ Spared'
  <1>1. \A c \in Clerks : request'[c].at = "rest"
    BY DEF Restart, AtRest
  <1>2. CASE raced
    BY <1>1, <1>2 DEF Restart, LostOnlyInARace, Spared
  <1>3. CASE ~raced
    <2>1. PICK s \in Logins : IsSuper(s)
      BY <1>3 DEF AdminsInv, LostOnlyInARace, SuperadminRemains
    <2>2. accounts' = accounts
      BY <2>1 DEF Restart, Bootstrapped, IsSuper, Exists
    <2>3. QED BY <1>1, <2>1, <2>2 DEF LostOnlyInARace, SuperadminRemains, IsSuper, Exists, Spared
  <1>4. QED BY <1>2, <1>3

LEMMA AdminsStep ==
  ASSUME AdminsInv, [AdminsNext]_adminVars
  PROVE  AdminsInv'
  <1>5. AdminShapes'
    BY AdminShapesSteps DEF AdminsInv
  <1> SUFFICES LostOnlyInARace' /\ Spared'
    BY <1>5 DEF AdminsInv
  <1>1. ASSUME NEW c \in Clerks, NEW n \in Logins, NEW w \in Words, NEW r \in Forms,
               SignIn(c, n, w, r)
        PROVE  LostOnlyInARace' /\ Spared'
    BY <1>1, SignInSpares
  <1>2. ASSUME NEW c \in Clerks, Check(c) \/ Write(c)
        PROVE  LostOnlyInARace' /\ Spared'
    BY <1>2, CheckInv, WriteLeavesOne, WriteSpares
  <1>3. CASE Restart
    BY <1>3, RestartInv
  <1>4. CASE UNCHANGED adminVars
    BY <1>4 DEF adminVars, AdminsInv, LostOnlyInARace, SuperadminRemains, Spared, AnotherThan, Harmless,
                IsSuper, Exists
  <1>6. QED BY <1>1, <1>2, <1>3, <1>4 DEF AdminsNext

-----------------------------------------------------------------------------
\* However requests overlap, the console keeps an active superadmin until one of two
\* that had both counted takes the other's away (routes.py, admin_web_admins_update and
\* admin_web_admins_delete), for any accounts, passwords, pages and restarts.
THEOREM SuperadminLostOnlyInARace == AdminsSpec => []LostOnlyInARace
  <1>1. AdminsInv /\ [AdminsNext]_adminVars => AdminsInv'
    BY AdminsStep
  <1>2. AdminsInv => LostOnlyInARace
    BY DEF AdminsInv
  <1>3. QED BY AdminsStart, <1>1, <1>2, PTL DEF AdminsSpec

-----------------------------------------------------------------------------
(***************************************************************************)
(* The usage of the language models and of the examples, for any number of *)
(* configurations, canned responses and requests.                          *)
(*                                                                         *)
(* A request carries a copy of the count it will write, and the copy may   *)
(* be old by then, even larger than the count in the row once an older     *)
(* copy was saved over it.  So the bound is kept for every copy on its way *)
(* as well as for the row: a count, or the copy of it, together with the   *)
(* answers still to be counted and those lost for good, is never more than *)
(* the answers given.  Where no two requests had read the count at once,   *)
(* there is one copy and it is the count.                                  *)
(***************************************************************************)

IsCounting(r, x) == r.by = x /\ r.at \in {"loaded", "flushed"}
IsPending(r, x) == r.by = x /\ r.at \in {"answered", "loaded", "flushed"}
Carries(r, k) == k \in r.codes /\ r.at \in {"flushed", "closing"}
IsCiting(r, k) == k \in r.codes /\ r.at \in {"answered", "loaded", "skipped", "flushed", "closing"}
Citing(k) == {d \in Drafters : IsCiting(draft[d], k)}

ModelRows == [is : {"none", "on", "off", "gone"}, key : Secrets, calls : Nat,
              test : {"never", "ok", "error"}]
CannedRows == [is : {"none", "on", "off"}, tags : SUBSET Topics, uses : Nat]
Drafts ==
  [at : {"idle", "waiting", "answered", "loaded", "skipped", "flushed", "closing"},
   by : Models, codes : SUBSET Codes, calls : Nat, uses : [Codes -> Nat]]

DraftTypes ==
  /\ models \in [Models -> ModelRows] /\ canned \in [Codes -> CannedRows]
  /\ draft \in [Drafters -> Drafts]
  /\ secret \in Secrets
  /\ answered \in [Models -> Nat] /\ unsaved \in [Models -> Nat] /\ crossed \subseteq Models
  /\ cited \in [Codes -> Nat]

CallsSound(x) ==
  /\ models[x].calls + Cardinality(Pending(x)) + unsaved[x] <= answered[x]
  /\ \A d \in Drafters : IsCounting(draft[d], x) =>
       draft[d].calls + Cardinality(Pending(x)) + unsaved[x] <= answered[x]
  /\ models[x].is # "gone" /\ x \notin crossed =>
       /\ models[x].calls + Cardinality(Pending(x)) + unsaved[x] = answered[x]
       /\ \A d \in Drafters : IsCounting(draft[d], x) =>
            /\ draft[d].calls = models[x].calls
            /\ \A e \in Drafters : IsCounting(draft[e], x) => e = d

UsesSound(k) ==
  /\ canned[k].uses + Cardinality(Citing(k)) <= cited[k]
  /\ \A d \in Drafters : Carries(draft[d], k) =>
       draft[d].uses[k] + Cardinality(Citing(k)) <= cited[k]

DraftsInv ==
  /\ DraftTypes
  /\ \A x \in Models : CallsSound(x)
  /\ \A k \in Codes : UsesSound(k)

-----------------------------------------------------------------------------
(* How the sets of requests move with one of them.                         *)

LEMMA CountsAreNumbers ==
  /\ \A x : IsFiniteSet(Pending(x)) /\ Cardinality(Pending(x)) \in Nat
  /\ \A k : IsFiniteSet(Citing(k)) /\ Cardinality(Citing(k)) \in Nat
<1>1. (\A x : Pending(x) \subseteq Drafters) /\ (\A k : Citing(k) \subseteq Drafters)
  BY DEF Pending, Citing
<1>2. \A s : s \subseteq Drafters => IsFiniteSet(s) /\ Cardinality(s) \in Nat
  BY RequestsAssumption, FS_Subset, FS_CardinalityType
<1> QED BY <1>1, <1>2

\* A set that may gain or lose one element.
LEMMA OneMoves ==
  ASSUME NEW d, NEW s, NEW t, IsFiniteSet(s), IsFiniteSet(t),
         \A e : e # d => (e \in s <=> e \in t)
  PROVE /\ d \in s <=> d \in t => Cardinality(s) = Cardinality(t)
        /\ d \in s /\ d \notin t => Cardinality(s) = Cardinality(t) + 1
        /\ d \notin s /\ d \in t => Cardinality(t) = Cardinality(s) + 1
<1>1. CASE d \in s <=> d \in t
  <2>1. s = t
    BY <1>1
  <2> QED BY <1>1, <2>1
<1>2. CASE d \in s /\ d \notin t
  <2>1. s = t \cup {d}
    BY <1>2
  <2> QED BY <1>2, <2>1, FS_AddElement
<1>3. CASE d \notin s /\ d \in t
  <2>1. t = s \cup {d}
    BY <1>3
  <2> QED BY <1>3, <2>1, FS_AddElement
<1> QED BY <1>1, <1>2, <1>3

LEMMA DraftMoves ==
  ASSUME DraftTypes, NEW d \in Drafters, NEW new \in Drafts,
         draft' = [draft EXCEPT ![d] = new]
  PROVE /\ \A x :
            LET was == Cardinality(Pending(x))
                is == Cardinality(Pending(x)')
            IN /\ is \in Nat
               /\ (IsPending(draft[d], x) <=> IsPending(new, x)) => is = was
               /\ IsPending(draft[d], x) /\ ~IsPending(new, x) => was = is + 1
               /\ ~IsPending(draft[d], x) /\ IsPending(new, x) => is = was + 1
        /\ \A k :
            LET was == Cardinality(Citing(k))
                is == Cardinality(Citing(k)')
            IN /\ is \in Nat
               /\ (IsCiting(draft[d], k) <=> IsCiting(new, k)) => is = was
               /\ IsCiting(draft[d], k) /\ ~IsCiting(new, k) => was = is + 1
               /\ ~IsCiting(draft[d], k) /\ IsCiting(new, k) => is = was + 1
<1>1. \A e \in Drafters : draft'[e] = IF e = d THEN new ELSE draft[e]
  BY DEF DraftTypes
<1>2. ASSUME NEW x
      PROVE /\ \A e : e # d => (e \in Pending(x) <=> e \in Pending(x)')
            /\ d \in Pending(x) <=> IsPending(draft[d], x)
            /\ d \in Pending(x)' <=> IsPending(new, x)
            /\ IsFiniteSet(Pending(x)') /\ Cardinality(Pending(x)') \in Nat
  <2>1. Pending(x)' \subseteq Drafters
    BY DEF Pending
  <2>2. IsFiniteSet(Pending(x)') /\ Cardinality(Pending(x)') \in Nat
    BY <2>1, RequestsAssumption, FS_Subset, FS_CardinalityType
  <2> QED BY <1>1, <2>2 DEF Pending, IsPending
<1>3. ASSUME NEW k
      PROVE /\ \A e : e # d => (e \in Citing(k) <=> e \in Citing(k)')
            /\ d \in Citing(k) <=> IsCiting(draft[d], k)
            /\ d \in Citing(k)' <=> IsCiting(new, k)
            /\ IsFiniteSet(Citing(k)') /\ Cardinality(Citing(k)') \in Nat
  <2>1. Citing(k)' \subseteq Drafters
    BY DEF Citing
  <2>2. IsFiniteSet(Citing(k)') /\ Cardinality(Citing(k)') \in Nat
    BY <2>1, RequestsAssumption, FS_Subset, FS_CardinalityType
  <2> QED BY <1>1, <2>2 DEF Citing, IsCiting
<1>4. ASSUME NEW x
      PROVE LET was == Cardinality(Pending(x))
                is == Cardinality(Pending(x)')
            IN /\ is \in Nat
               /\ (IsPending(draft[d], x) <=> IsPending(new, x)) => is = was
               /\ IsPending(draft[d], x) /\ ~IsPending(new, x) => was = is + 1
               /\ ~IsPending(draft[d], x) /\ IsPending(new, x) => is = was + 1
  BY <1>2, CountsAreNumbers, OneMoves
<1>5. ASSUME NEW k
      PROVE LET was == Cardinality(Citing(k))
                is == Cardinality(Citing(k)')
            IN /\ is \in Nat
               /\ (IsCiting(draft[d], k) <=> IsCiting(new, k)) => is = was
               /\ IsCiting(draft[d], k) /\ ~IsCiting(new, k) => was = is + 1
               /\ ~IsCiting(draft[d], k) /\ IsCiting(new, k) => is = was + 1
  BY <1>3, CountsAreNumbers, OneMoves
<1> QED BY <1>4, <1>5

\* A request that does not read or write the count of a configuration.
LEMMA CallsKept ==
  ASSUME DraftsInv, NEW d \in Drafters, NEW new \in Drafts,
         draft' = [draft EXCEPT ![d] = new],
         NEW x \in Models, ~IsPending(draft[d], x), ~IsPending(new, x),
         models'[x] = models[x], unsaved'[x] = unsaved[x], answered'[x] = answered[x],
         x \in crossed' <=> x \in crossed
  PROVE CallsSound(x)'
<1>1. Cardinality(Pending(x)') = Cardinality(Pending(x))
  BY DraftMoves DEF DraftsInv
<1>2. \A e \in Drafters : draft'[e] = IF e = d THEN new ELSE draft[e]
  BY DEF DraftsInv, DraftTypes
<1>3. \A e \in Drafters : IsCounting(draft'[e], x) <=> IsCounting(draft[e], x)
  BY <1>2 DEF IsPending, IsCounting
<1>4. \A e \in Drafters : IsCounting(draft[e], x) => draft'[e] = draft[e]
  BY <1>2 DEF IsPending, IsCounting
<1> QED BY <1>1, <1>3, <1>4 DEF DraftsInv, CallsSound

\* A request that cites no more, and read what it carries in the row.
LEMMA UsesKept ==
  ASSUME DraftsInv, NEW d \in Drafters, NEW new \in Drafts,
         draft' = [draft EXCEPT ![d] = new],
         NEW k \in Codes, canned'[k] = canned[k], cited'[k] = cited[k],
         IsCiting(new, k) => IsCiting(draft[d], k),
         Carries(new, k) => new.uses[k] = canned[k].uses
  PROVE UsesSound(k)'
<1> DEFINE was == Cardinality(Citing(k))
           is == Cardinality(Citing(k)')
<1>1. is \in Nat /\ was \in Nat /\ (is = was \/ was = is + 1)
  BY DraftMoves, CountsAreNumbers DEF DraftsInv
<1>2. \A e \in Drafters : draft'[e] = IF e = d THEN new ELSE draft[e]
  BY DEF DraftsInv, DraftTypes
<1>3. /\ canned[k].uses \in Nat /\ cited[k] \in Nat
      /\ \A e \in Drafters : draft[e].uses[k] \in Nat
  BY DEF DraftsInv, DraftTypes, CannedRows, Drafts
<1>4. /\ canned[k].uses + was <= cited[k]
      /\ \A e \in Drafters : Carries(draft[e], k) => draft[e].uses[k] + was <= cited[k]
  BY DEF DraftsInv, UsesSound
<1> HIDE DEF is, was
<1>5. canned[k].uses + is <= cited[k]
  BY <1>1, <1>3, <1>4
<1>6. ASSUME NEW e \in Drafters, Carries(draft'[e], k)
      PROVE draft'[e].uses[k] + is <= cited[k]
  <2>1. CASE e = d
    BY <2>1, <1>2, <1>5, <1>6
  <2>2. CASE e # d
    <3>1. draft[e].uses[k] + was <= cited[k]
      BY <2>2, <1>2, <1>4, <1>6
    <3> QED BY <3>1, <2>2, <1>1, <1>2, <1>3
  <2> QED BY <2>1, <2>2
<1> QED BY <1>5, <1>6 DEF UsesSound, is

-----------------------------------------------------------------------------
(* The steps.                                                              *)

LEMMA AnyModelIsOne == AnyModel \in Models
  BY RequestsAssumption DEF AnyModel

LEMMA IdleIsDraft == Idle \in Drafts
  BY AnyModelIsOne DEF Idle, Drafts

LEMMA DraftsStart == AiInit => DraftsInv
<1> SUFFICES ASSUME AiInit PROVE DraftsInv
  OBVIOUS
<1>1. secret \in Secrets
  BY RequestsAssumption DEF AiInit
<1>2. draft \in [Drafters -> Drafts] /\ \A d \in Drafters : draft[d] = Idle
  BY IdleIsDraft DEF AiInit
<1>3. \A r \in {"on", "none"} :
        [is |-> r, key |-> secret, calls |-> 0, test |-> "never"] \in ModelRows
  BY <1>1 DEF ModelRows
<1>4. models \in [Models -> ModelRows] /\ \A x \in Models : models[x].calls = 0
  BY <1>3 DEF AiInit
<1>5. [is |-> "on", tags |-> Topics, uses |-> 0] \in CannedRows
  BY DEF CannedRows
<1>6. canned \in [Codes -> CannedRows] /\ \A k \in Codes : canned[k].uses = 0
  BY <1>5 DEF AiInit
<1>7. DraftTypes
  BY <1>1, <1>2, <1>4, <1>6 DEF AiInit, DraftTypes
<1>8. ASSUME NEW x \in Models
      PROVE CallsSound(x)
  <2>1. Pending(x) = {} /\ \A d \in Drafters : ~IsCounting(draft[d], x)
    BY <1>2 DEF Pending, IsCounting, Idle
  <2>2. Cardinality(Pending(x)) = 0
    BY <2>1, FS_EmptySet
  <2>3. answered[x] = 0 /\ unsaved[x] = 0
    BY DEF AiInit
  <2> QED BY <1>4, <2>1, <2>2, <2>3 DEF CallsSound
<1>9. ASSUME NEW k \in Codes
      PROVE UsesSound(k)
  <2>1. Citing(k) = {} /\ \A d \in Drafters : ~Carries(draft[d], k)
    BY <1>2 DEF Citing, IsCiting, Carries, Idle
  <2>2. Cardinality(Citing(k)) = 0
    BY <2>1, FS_EmptySet
  <2>3. cited[k] = 0
    BY DEF AiInit
  <2> QED BY <1>6, <2>1, <2>2, <2>3 DEF UsesSound
<1> QED BY <1>7, <1>8, <1>9 DEF DraftsInv

\* A page of the console leaves the counts alone, and nothing comes back that was
\* deleted.
LEMMA ModelPages ==
  ASSUME DraftsInv, OnModels, models' \in [Models -> ModelRows],
         \A x \in Models : /\ models'[x].calls = models[x].calls
                           /\ models[x].is = "gone" => models'[x].is = "gone"
  PROVE DraftsInv'
<1> USE DEF DraftsInv, OnModels
<1>1. DraftTypes'
  BY DEF DraftTypes
<1>2. ASSUME NEW x \in Models
      PROVE CallsSound(x)'
  <2>1. Pending(x)' = Pending(x) /\ CallsSound(x)
    BY DEF Pending
  <2> QED BY <2>1 DEF CallsSound
<1>3. ASSUME NEW k \in Codes
      PROVE UsesSound(k)'
  <2>1. Citing(k)' = Citing(k) /\ UsesSound(k)
    BY DEF Citing
  <2> QED BY <2>1 DEF UsesSound
<1> QED BY <1>1, <1>2, <1>3

LEMMA CannedPages ==
  ASSUME DraftsInv, OnCanned, canned' \in [Codes -> CannedRows],
         \A k \in Codes : canned'[k].uses \in {0, canned[k].uses}
  PROVE DraftsInv'
<1> USE DEF DraftsInv, OnCanned
<1>1. DraftTypes'
  BY DEF DraftTypes
<1>2. ASSUME NEW x \in Models
      PROVE CallsSound(x)'
  <2>1. Pending(x)' = Pending(x) /\ CallsSound(x)
    BY DEF Pending
  <2> QED BY <2>1 DEF CallsSound
<1>3. ASSUME NEW k \in Codes
      PROVE UsesSound(k)'
  <2>1. Citing(k)' = Citing(k) /\ UsesSound(k)
    BY DEF Citing
  <2>2. canned[k].uses \in Nat /\ cited[k] \in Nat /\ Cardinality(Citing(k)) \in Nat
    BY CountsAreNumbers DEF DraftTypes, CannedRows
  <2> QED BY <2>1, <2>2 DEF UsesSound
<1> QED BY <1>1, <1>2, <1>3

LEMMA PagesStep ==
  ASSUME DraftsInv,
         \/ \E x \in Models :
              \/ \E b \in BOOLEAN : CreateModel(x, b) \/ TestModel(x, b)
              \/ ReplaceKey(x) \/ Activate(x) \/ DeleteModel(x)
         \/ \E k \in Codes :
              \/ \E tags \in SUBSET Topics :
                   CreateCanned(k, tags) \/ (\E is \in {"on", "off"} : UpdateCanned(k, is, tags))
              \/ DeleteCanned(k)
  PROVE DraftsInv'
<1>1. DraftTypes
  BY DEF DraftsInv
<1>2. ASSUME NEW made \in [Models -> ModelRows], NEW x \in Models
      PROVE /\ OnlyActive(x, made) \in [Models -> ModelRows]
            /\ NoneActive(made) \in [Models -> ModelRows]
            /\ \A y \in Models :
                 /\ OnlyActive(x, made)[y].calls = made[y].calls
                 /\ NoneActive(made)[y].calls = made[y].calls
                 /\ y # x /\ made[y].is = "gone" => OnlyActive(x, made)[y].is = "gone"
                 /\ made[y].is = "gone" => NoneActive(made)[y].is = "gone"
  <2>1. \A y \in Models : OnlyActive(x, made)[y] \in ModelRows /\ NoneActive(made)[y] \in ModelRows
    BY DEF OnlyActive, NoneActive, ModelRows
  <2> QED BY <2>1 DEF OnlyActive, NoneActive, ModelRows
<1>3. ASSUME NEW x \in Models, NEW b \in BOOLEAN, CreateModel(x, b)
      PROVE DraftsInv'
  <2> DEFINE made == [models EXCEPT ![x].is = "off", ![x].key = secret]
  <2>1. /\ made \in [Models -> ModelRows] /\ made[x].is = "off"
        /\ \A y \in Models : made[y].calls = models[y].calls /\ (y # x => made[y] = models[y])
    BY <1>1 DEF DraftTypes, ModelRows
  <2>2. models[x].is = "none" /\ models' = IF b THEN OnlyActive(x, made) ELSE made
    BY <1>3 DEF CreateModel
  <2> HIDE DEF made
  <2>3. models' \in [Models -> ModelRows]
    BY <1>2, <2>1, <2>2
  <2>4. \A y \in Models : /\ models'[y].calls = models[y].calls
                          /\ models[y].is = "gone" => models'[y].is = "gone"
    BY <1>2, <2>1, <2>2
  <2> QED BY <1>3, <2>3, <2>4, ModelPages DEF CreateModel
<1>4. ASSUME NEW x \in Models, NEW b \in BOOLEAN, TestModel(x, b)
      PROVE DraftsInv'
  BY <1>1, <1>4, ModelPages DEF TestModel, Tested, DraftTypes, ModelRows, There
<1>5. ASSUME NEW x \in Models, ReplaceKey(x) \/ DeleteModel(x)
      PROVE DraftsInv'
  BY <1>1, <1>5, ModelPages DEF ReplaceKey, DeleteModel, DraftTypes, ModelRows, There
<1>6. ASSUME NEW x \in Models, Activate(x)
      PROVE DraftsInv'
  <2>1. models' \in [Models -> ModelRows]
    BY <1>1, <1>2, <1>6 DEF Activate, DraftTypes
  <2>2. \A y \in Models : /\ models'[y].calls = models[y].calls
                          /\ models[y].is = "gone" => models'[y].is = "gone"
    BY <1>1, <1>2, <1>6 DEF Activate, DraftTypes, There
  <2> QED BY <1>6, <2>1, <2>2, ModelPages DEF Activate
<1>7. ASSUME NEW k \in Codes, NEW tags \in SUBSET Topics, CreateCanned(k, tags)
      PROVE DraftsInv'
  BY <1>1, <1>7, CannedPages DEF CreateCanned, DraftTypes, CannedRows
<1>8. ASSUME NEW k \in Codes, NEW tags \in SUBSET Topics, NEW is \in {"on", "off"},
             UpdateCanned(k, is, tags)
      PROVE DraftsInv'
  BY <1>1, <1>8, CannedPages DEF UpdateCanned, DraftTypes, CannedRows
<1>9. ASSUME NEW k \in Codes, DeleteCanned(k)
      PROVE DraftsInv'
  BY <1>1, <1>9, CannedPages DEF DeleteCanned, DraftTypes, CannedRows
<1> QED BY <1>3, <1>4, <1>5, <1>6, <1>7, <1>8, <1>9

LEMMA AskStep ==
  ASSUME DraftsInv, NEW d \in Drafters, NEW tags \in SUBSET Topics, Ask(d, tags)
  PROVE DraftsInv'
<1>1. DraftTypes
  BY DEF DraftsInv
<1>2. PICK x \in Models, few \in FewShots(tags) :
        draft' = [draft EXCEPT ![d].at = "waiting", ![d].by = x, ![d].codes = few]
  BY DEF Ask
<1>3. few \in SUBSET Codes
  BY DEF FewShots
<1>4. PICK old \in Drafts : draft[d] = old
  BY <1>1 DEF DraftTypes
<1> DEFINE new == [old EXCEPT !.at = "waiting", !.by = x, !.codes = few]
<1>5. new \in Drafts /\ new.at = "waiting" /\ draft' = [draft EXCEPT ![d] = new]
  BY <1>1, <1>2, <1>3, <1>4 DEF DraftTypes, Drafts
<1> HIDE DEF new
<1>6. draft[d].at = "idle"
  BY DEF Ask, Idle
<1>7. UNCHANGED <<models, canned, secret, answered, unsaved, crossed, cited, pages>>
  BY DEF Ask
<1>8. DraftTypes'
  BY <1>1, <1>5, <1>7 DEF DraftTypes
<1>9. ASSUME NEW y \in Models
      PROVE CallsSound(y)'
  BY <1>5, <1>6, <1>7, CallsKept DEF IsPending
<1>10. ASSUME NEW k \in Codes
       PROVE UsesSound(k)'
  BY <1>5, <1>6, <1>7, UsesKept DEF IsCiting, Carries
<1> QED BY <1>8, <1>9, <1>10 DEF DraftsInv

LEMMA FailStep ==
  ASSUME DraftsInv, NEW d \in Drafters, ProviderFails(d)
  PROVE DraftsInv'
<1>1. DraftTypes
  BY DEF DraftsInv
<1>2. draft' = [draft EXCEPT ![d] = Idle] /\ draft[d].at = "waiting" /\ Idle.at = "idle"
  BY DEF ProviderFails, Idle
<1>3. UNCHANGED <<models, canned, secret, answered, unsaved, crossed, cited, pages>>
  BY DEF ProviderFails
<1>4. DraftTypes'
  BY <1>1, <1>2, <1>3, IdleIsDraft DEF DraftTypes
<1>5. ASSUME NEW y \in Models
      PROVE CallsSound(y)'
  BY <1>2, <1>3, IdleIsDraft, CallsKept DEF IsPending
<1>6. ASSUME NEW k \in Codes
      PROVE UsesSound(k)'
  BY <1>2, <1>3, IdleIsDraft, UsesKept DEF IsCiting, Carries
<1> QED BY <1>4, <1>5, <1>6 DEF DraftsInv

\* One more answer is given and one more is to be counted.
LEMMA AnswerStep ==
  ASSUME DraftsInv, NEW d \in Drafters, ProviderAnswers(d)
  PROVE DraftsInv'
<1>1. DraftTypes
  BY DEF DraftsInv
<1>2. PICK old \in Drafts : draft[d] = old
  BY <1>1 DEF DraftTypes
<1> DEFINE new == [old EXCEPT !.at = "answered"]
           x == old.by
<1>3. new \in Drafts /\ draft' = [draft EXCEPT ![d] = new] /\ old.at = "waiting"
  BY <1>1, <1>2 DEF ProviderAnswers, DraftTypes, Drafts
<1>4. new.at = "answered" /\ new.by = x /\ new.codes = old.codes /\ x \in Models
  BY <1>2 DEF Drafts
<1> HIDE DEF new, x
<1>5. /\ answered' = [answered EXCEPT ![x] = @ + 1]
      /\ cited' = [k \in Codes |-> cited[k] + (IF k \in old.codes THEN 1 ELSE 0)]
      /\ UNCHANGED <<models, canned, secret, unsaved, crossed, pages>>
  BY <1>2 DEF ProviderAnswers, x
<1>6. answered' \in [Models -> Nat] /\ answered'[x] = answered[x] + 1
      /\ \A y \in Models \ {x} : answered'[y] = answered[y]
  BY <1>1, <1>4, <1>5 DEF DraftTypes
<1>7. cited' \in [Codes -> Nat]
  BY <1>1, <1>5 DEF DraftTypes
<1>8. DraftTypes'
  BY <1>1, <1>3, <1>5, <1>6, <1>7 DEF DraftTypes
<1>9. ASSUME NEW y \in Models, y # x
      PROVE CallsSound(y)'
  <2>1. ~IsPending(draft[d], y) /\ ~IsPending(new, y)
    BY <1>2, <1>4, <1>9 DEF IsPending, x
  <2> QED BY <2>1, <1>3, <1>5, <1>6, <1>9, CallsKept
<1>10. CallsSound(x)'
  <2>1. ~IsPending(draft[d], x) /\ IsPending(new, x)
    BY <1>2, <1>3, <1>4 DEF IsPending
  <2>2. Cardinality(Pending(x)') = Cardinality(Pending(x)) + 1
    BY <1>1, <1>3, <2>1, DraftMoves
  <2>3. \A e \in Drafters : draft'[e] = IF e = d THEN new ELSE draft[e]
    BY <1>1, <1>3 DEF DraftTypes
  <2>4. \A e \in Drafters : IsCounting(draft'[e], x) <=> IsCounting(draft[e], x)
    BY <1>2, <1>3, <1>4, <2>3 DEF IsCounting
  <2>5. \A e \in Drafters : IsCounting(draft[e], x) => draft'[e] = draft[e]
    BY <1>2, <1>3, <2>3 DEF IsCounting
  <2>6. /\ models[x].calls \in Nat /\ unsaved[x] \in Nat /\ answered[x] \in Nat
        /\ \A e \in Drafters : draft[e].calls \in Nat
        /\ Cardinality(Pending(x)) \in Nat
    BY <1>1, <1>4, CountsAreNumbers DEF DraftTypes, ModelRows, Drafts
  <2>7. CallsSound(x)
    BY <1>4 DEF DraftsInv
  <2>8. (models[x].calls + Cardinality(Pending(x)) + unsaved[x] <= answered[x])'
    BY <2>2, <2>6, <2>7, <1>5, <1>6 DEF CallsSound
  <2>9. ASSUME NEW e \in Drafters, IsCounting(draft'[e], x)
        PROVE draft'[e].calls + Cardinality(Pending(x)') + unsaved'[x] <= answered'[x]
    BY <2>2, <2>4, <2>5, <2>6, <2>7, <2>9, <1>5, <1>6 DEF CallsSound
  <2>10. (models[x].is # "gone" /\ x \notin crossed =>
           models[x].calls + Cardinality(Pending(x)) + unsaved[x] = answered[x])'
    BY <2>2, <2>6, <2>7, <1>5, <1>6 DEF CallsSound
  <2>11. (models[x].is # "gone" /\ x \notin crossed =>
           \A e \in Drafters : IsCounting(draft[e], x) =>
            /\ draft[e].calls = models[x].calls
            /\ \A c \in Drafters : IsCounting(draft[c], x) => c = e)'
    BY <2>4, <2>5, <2>7, <1>5 DEF CallsSound
  <2> QED BY <2>8, <2>9, <2>10, <2>11 DEF CallsSound
<1>11. ASSUME NEW k \in Codes
       PROVE UsesSound(k)'
  <2>1. CASE k \notin old.codes
    <3>1. ~IsCiting(new, k) /\ ~Carries(new, k)
      BY <2>1, <1>4 DEF IsCiting, Carries
    <3>2. cited'[k] = cited[k]
      BY <2>1, <1>1, <1>5 DEF DraftTypes
    <3> QED BY <3>1, <3>2, <1>3, <1>5, UsesKept
  <2>2. CASE k \in old.codes
    <3>1. ~IsCiting(draft[d], k) /\ IsCiting(new, k) /\ ~Carries(new, k)
      BY <2>2, <1>2, <1>3, <1>4 DEF IsCiting, Carries
    <3>2. Cardinality(Citing(k)') = Cardinality(Citing(k)) + 1
      BY <1>1, <1>3, <3>1, DraftMoves
    <3>3. cited'[k] = cited[k] + 1
      BY <2>2, <1>5
    <3>4. \A e \in Drafters : draft'[e] = IF e = d THEN new ELSE draft[e]
      BY <1>1, <1>3 DEF DraftTypes
    <3>5. /\ canned[k].uses \in Nat /\ cited[k] \in Nat /\ Cardinality(Citing(k)) \in Nat
          /\ \A e \in Drafters : draft[e].uses[k] \in Nat
      BY <1>1, CountsAreNumbers DEF DraftTypes, CannedRows, Drafts
    <3>6. UsesSound(k)
      BY DEF DraftsInv
    <3>7. (canned[k].uses + Cardinality(Citing(k)) <= cited[k])'
      BY <3>2, <3>3, <3>5, <3>6, <1>5 DEF UsesSound
    <3>8. ASSUME NEW e \in Drafters, Carries(draft'[e], k)
          PROVE draft'[e].uses[k] + Cardinality(Citing(k)') <= cited'[k]
      <4>1. draft'[e] = draft[e]
        BY <3>1, <3>4, <3>8
      <4> QED BY <4>1, <3>2, <3>3, <3>5, <3>6, <3>8 DEF UsesSound
    <3> QED BY <3>7, <3>8 DEF UsesSound
  <2> QED BY <2>1, <2>2
<1> QED BY <1>8, <1>9, <1>10, <1>11 DEF DraftsInv

\* A request that goes on with the copy it has.
LEMMA CallsCarried ==
  ASSUME DraftsInv, NEW d \in Drafters, NEW new \in Drafts,
         draft' = [draft EXCEPT ![d] = new],
         NEW x \in Models, IsCounting(draft[d], x), IsCounting(new, x),
         new.calls = draft[d].calls,
         UNCHANGED <<models, unsaved, answered, crossed>>
  PROVE CallsSound(x)'
<1>1. Cardinality(Pending(x)') = Cardinality(Pending(x))
  BY DraftMoves DEF DraftsInv, IsCounting, IsPending
<1>2. \A e \in Drafters : draft'[e] = IF e = d THEN new ELSE draft[e]
  BY DEF DraftsInv, DraftTypes
<1>3. \A e \in Drafters : /\ IsCounting(draft'[e], x) <=> IsCounting(draft[e], x)
                          /\ draft'[e].calls = draft[e].calls
  BY <1>2
<1> QED BY <1>1, <1>3 DEF DraftsInv, CallsSound

\* A request whose answer will never be counted.
LEMMA CallsLost ==
  ASSUME DraftsInv, NEW d \in Drafters, NEW new \in Drafts,
         draft' = [draft EXCEPT ![d] = new],
         NEW x \in Models, IsPending(draft[d], x), ~IsPending(new, x),
         unsaved' = [unsaved EXCEPT ![x] = @ + 1],
         UNCHANGED <<models, answered, crossed>>
  PROVE CallsSound(x)'
<1>1. Cardinality(Pending(x)) = Cardinality(Pending(x)') + 1 /\ Cardinality(Pending(x)') \in Nat
  BY DraftMoves DEF DraftsInv
<1>2. unsaved'[x] = unsaved[x] + 1
  BY DEF DraftsInv, DraftTypes
<1>3. \A e \in Drafters : draft'[e] = IF e = d THEN new ELSE draft[e]
  BY DEF DraftsInv, DraftTypes
<1>4. \A e \in Drafters :
        IsCounting(draft'[e], x) => draft'[e] = draft[e] /\ IsCounting(draft[e], x)
  BY <1>3 DEF IsPending, IsCounting
<1>5. /\ models[x].calls \in Nat /\ unsaved[x] \in Nat /\ answered[x] \in Nat
      /\ \A e \in Drafters : draft[e].calls \in Nat
  BY DEF DraftsInv, DraftTypes, ModelRows, Drafts
<1>6. CallsSound(x)
  BY DEF DraftsInv
<1>7. /\ (models[x].calls + Cardinality(Pending(x)) + unsaved[x] <= answered[x])'
      /\ (models[x].is # "gone" /\ x \notin crossed =>
            models[x].calls + Cardinality(Pending(x)) + unsaved[x] = answered[x])'
  BY <1>1, <1>2, <1>5, <1>6 DEF CallsSound
<1>8. ASSUME NEW e \in Drafters, IsCounting(draft'[e], x)
      PROVE draft'[e].calls + Cardinality(Pending(x)') + unsaved'[x] <= answered'[x]
  BY <1>1, <1>2, <1>4, <1>5, <1>6, <1>8 DEF CallsSound
<1>9. (models[x].is # "gone" /\ x \notin crossed =>
        \A e \in Drafters : IsCounting(draft[e], x) =>
          /\ draft[e].calls = models[x].calls
          /\ \A c \in Drafters : IsCounting(draft[c], x) => c = e)'
  BY <1>4, <1>6 DEF CallsSound
<1> QED BY <1>7, <1>8, <1>9 DEF CallsSound

LEMMA LoadStep ==
  ASSUME DraftsInv, NEW d \in Drafters, Load(d)
  PROVE DraftsInv'
<1>1. DraftTypes
  BY DEF DraftsInv
<1>2. PICK old \in Drafts : draft[d] = old
  BY <1>1 DEF DraftTypes
<1> DEFINE x == old.by
<1>3. x \in Models /\ old.at = "answered" /\ IsPending(old, x)
  BY <1>2 DEF Drafts, Load, IsPending
<1>4. UNCHANGED <<models, canned, secret, answered, cited, pages>>
  BY DEF Load
<1>5. CASE There(x)
  <2> DEFINE new == [old EXCEPT !.at = "loaded", !.calls = models[x].calls]
  <2>1. models[x].calls \in Nat /\ models[x].is # "gone"
    BY <1>1, <1>3, <1>5 DEF DraftTypes, ModelRows, There
  <2>2. new \in Drafts /\ draft' = [draft EXCEPT ![d] = new]
    BY <1>1, <1>2, <1>5, <2>1 DEF Load, DraftTypes, Drafts
  <2>3. new.at = "loaded" /\ new.by = x /\ new.codes = old.codes /\ new.calls = models[x].calls
    BY <1>2 DEF Drafts
  <2>4. /\ crossed' = IF \E e \in Drafters \ {d} : IsCounting(draft[e], x)
                      THEN crossed \cup {x} ELSE crossed
        /\ unsaved' = unsaved
    BY <1>2, <1>5 DEF Load, IsCounting
  <2> HIDE DEF new, x
  <2>5. DraftTypes'
    BY <1>1, <1>3, <1>4, <2>2, <2>4 DEF DraftTypes
  <2>6. ASSUME NEW y \in Models, y # x
        PROVE CallsSound(y)'
    <3>1. ~IsPending(draft[d], y) /\ ~IsPending(new, y)
      BY <1>2, <2>3, <2>6 DEF IsPending, x
    <3>2. y \in crossed' <=> y \in crossed
      BY <2>4, <2>6
    <3> QED BY <3>1, <3>2, <1>4, <2>2, <2>4, CallsKept
  <2>7. CallsSound(x)'
    <3>1. Cardinality(Pending(x)') = Cardinality(Pending(x))
      BY <1>1, <1>2, <1>3, <2>2, <2>3, DraftMoves DEF IsPending
    <3>2. \A e \in Drafters : draft'[e] = IF e = d THEN new ELSE draft[e]
      BY <1>1, <2>2 DEF DraftTypes
    <3>3. CallsSound(x)
      BY <1>3 DEF DraftsInv
    <3>4. ASSUME NEW e \in Drafters, IsCounting(draft'[e], x)
          PROVE draft'[e].calls + Cardinality(Pending(x)) + unsaved[x] <= answered[x]
      <4>1. CASE e = d
        BY <4>1, <3>2, <3>3, <2>3 DEF CallsSound
      <4>2. CASE e # d
        BY <4>2, <3>2, <3>3, <3>4 DEF CallsSound
      <4> QED BY <4>1, <4>2
    <3>5. ASSUME x \notin crossed'
          PROVE \A e \in Drafters : IsCounting(draft'[e], x) =>
                  draft'[e].calls = models[x].calls
                  /\ \A c \in Drafters : IsCounting(draft'[c], x) => c = e
      <4>1. x \notin crossed /\ \A e \in Drafters \ {d} : ~IsCounting(draft[e], x)
        BY <3>5, <2>4
      <4>2. \A e \in Drafters : IsCounting(draft'[e], x) => e = d
        BY <4>1, <3>2
      <4> QED BY <4>2, <3>2, <2>3
    <3>6. x \notin crossed' => x \notin crossed
      BY <2>4
    <3> QED BY <3>1, <3>3, <3>4, <3>5, <3>6, <2>1, <2>4, <1>4 DEF CallsSound
  <2>8. ASSUME NEW k \in Codes
        PROVE UsesSound(k)'
    <3>1. (IsCiting(new, k) => IsCiting(draft[d], k)) /\ ~Carries(new, k)
      BY <1>2, <1>3, <2>3 DEF IsCiting, Carries
    <3> QED BY <3>1, <2>2, <1>4, UsesKept
  <2> QED BY <2>5, <2>6, <2>7, <2>8 DEF DraftsInv
<1>6. CASE ~There(x)
  <2> DEFINE new == [old EXCEPT !.at = "skipped"]
  <2>1. new \in Drafts /\ draft' = [draft EXCEPT ![d] = new]
    BY <1>1, <1>2, <1>6 DEF Load, DraftTypes, Drafts
  <2>2. new.at = "skipped" /\ new.by = x /\ new.codes = old.codes
    BY <1>2 DEF Drafts
  <2>3. unsaved' = [unsaved EXCEPT ![x] = @ + 1] /\ crossed' = crossed
    BY <1>2, <1>6 DEF Load
  <2> HIDE DEF new, x
  <2>4. DraftTypes'
    BY <1>1, <1>3, <1>4, <2>1, <2>3 DEF DraftTypes
  <2>5. ASSUME NEW y \in Models, y # x
        PROVE CallsSound(y)'
    <3>1. ~IsPending(draft[d], y) /\ ~IsPending(new, y)
      BY <1>2, <2>2, <2>5 DEF IsPending, x
    <3>2. unsaved'[y] = unsaved[y]
      BY <1>1, <2>3, <2>5 DEF DraftTypes
    <3> QED BY <3>1, <3>2, <1>4, <2>1, <2>3, CallsKept
  <2>6. CallsSound(x)'
    <3>1. ~IsPending(new, x)
      BY <2>2 DEF IsPending
    <3> QED BY <3>1, <1>2, <1>3, <1>4, <2>1, <2>3, CallsLost
  <2>7. ASSUME NEW k \in Codes
        PROVE UsesSound(k)'
    <3>1. (IsCiting(new, k) => IsCiting(draft[d], k)) /\ ~Carries(new, k)
      BY <1>2, <1>3, <2>2 DEF IsCiting, Carries
    <3> QED BY <3>1, <2>1, <1>4, UsesKept
  <2> QED BY <2>4, <2>5, <2>6, <2>7 DEF DraftsInv
<1> QED BY <1>5, <1>6

LEMMA FlushStep ==
  ASSUME DraftsInv, NEW d \in Drafters, Flush(d)
  PROVE DraftsInv'
<1>1. DraftTypes
  BY DEF DraftsInv
<1>2. PICK old \in Drafts : draft[d] = old
  BY <1>1 DEF DraftTypes
<1> DEFINE x == old.by
           uses == [k \in Codes |-> canned[k].uses]
<1>3. x \in Models /\ old.at \in {"loaded", "skipped"} /\ old.codes \in SUBSET Codes
  BY <1>2 DEF Drafts, Flush
<1>4. UNCHANGED <<models, canned, secret, answered, crossed, cited, pages>>
  BY DEF Flush
<1>5. uses \in [Codes -> Nat] /\ \A k \in Codes : uses[k] = canned[k].uses
  BY <1>1 DEF DraftTypes, CannedRows
<1>6. CASE old.at = "loaded" /\ ~There(x)
  <2>1. draft' = [draft EXCEPT ![d] = Idle] /\ unsaved' = [unsaved EXCEPT ![x] = @ + 1]
    BY <1>2, <1>6 DEF Flush
  <2>2. Idle.at = "idle" /\ Idle.codes = {}
    BY DEF Idle
  <2> HIDE DEF x, uses
  <2>3. DraftTypes'
    BY <1>1, <1>3, <1>4, <2>1, IdleIsDraft DEF DraftTypes
  <2>4. ASSUME NEW y \in Models, y # x
        PROVE CallsSound(y)'
    <3>1. ~IsPending(draft[d], y) /\ ~IsPending(Idle, y)
      BY <1>2, <2>2, <2>4 DEF IsPending, x
    <3>2. unsaved'[y] = unsaved[y]
      BY <1>1, <2>1, <2>4 DEF DraftTypes
    <3> QED BY <3>1, <3>2, <1>4, <2>1, IdleIsDraft, CallsKept
  <2>5. CallsSound(x)'
    <3>1. ~IsPending(Idle, x) /\ IsPending(draft[d], x)
      BY <1>2, <1>6, <2>2 DEF IsPending, x
    <3> QED BY <3>1, <1>3, <1>4, <2>1, IdleIsDraft, CallsLost
  <2>6. ASSUME NEW k \in Codes
        PROVE UsesSound(k)'
    <3>1. ~IsCiting(Idle, k) /\ ~Carries(Idle, k)
      BY <2>2 DEF IsCiting, Carries
    <3> QED BY <3>1, <2>1, <1>4, IdleIsDraft, UsesKept
  <2> QED BY <2>3, <2>4, <2>5, <2>6 DEF DraftsInv
<1>7. CASE ~(old.at = "loaded" /\ ~There(x))
  <2> DEFINE left == {k \in old.codes : canned[k].is # "none"}
             now == IF old.at = "loaded" THEN "flushed" ELSE "closing"
             new == [old EXCEPT !.uses = uses, !.at = now, !.codes = left]
  <2>1. draft' = [draft EXCEPT ![d] = new] /\ unsaved' = unsaved
    BY <1>1, <1>2, <1>7 DEF Flush, DraftTypes
  <2>2. left \subseteq old.codes /\ now \in {"flushed", "closing"}
        /\ (old.at = "loaded" <=> now = "flushed")
    BY <1>3
  <2> HIDE DEF uses, left, now
  <2>3. new \in Drafts
    BY <1>3, <1>5, <2>2 DEF Drafts
  <2>4. /\ new.at = now /\ new.by = x /\ new.codes = left /\ new.calls = old.calls
        /\ new.uses = uses
    BY <1>2 DEF Drafts
  <2> HIDE DEF new, x
  <2>5. DraftTypes'
    BY <1>1, <1>4, <2>1, <2>3 DEF DraftTypes
  <2>6. ASSUME NEW y \in Models, y # x
        PROVE CallsSound(y)'
    <3>1. ~IsPending(draft[d], y) /\ ~IsPending(new, y)
      BY <1>2, <2>4, <2>6 DEF IsPending, x
    <3> QED BY <3>1, <1>4, <2>1, <2>3, CallsKept
  <2>7. CallsSound(x)'
    <3>1. CASE old.at = "loaded"
      <4>1. IsCounting(draft[d], x) /\ IsCounting(new, x)
        BY <1>2, <2>2, <2>4, <3>1 DEF IsCounting, x
      <4> QED BY <4>1, <1>2, <1>3, <1>4, <2>1, <2>3, <2>4, CallsCarried
    <3>2. CASE old.at = "skipped"
      <4>1. ~IsPending(draft[d], x) /\ ~IsPending(new, x)
        BY <1>2, <2>2, <2>4, <3>2 DEF IsPending
      <4> QED BY <4>1, <1>3, <1>4, <2>1, <2>3, CallsKept
    <3> QED BY <3>1, <3>2, <1>3
  <2>8. ASSUME NEW k \in Codes
        PROVE UsesSound(k)'
    <3>1. IsCiting(new, k) => IsCiting(draft[d], k)
      BY <1>2, <1>3, <2>2, <2>4 DEF IsCiting
    <3> QED BY <3>1, <2>1, <2>3, <2>4, <1>4, <1>5, UsesKept
  <2> QED BY <2>5, <2>6, <2>7, <2>8 DEF DraftsInv
<1> QED BY <1>6, <1>7

\* The copies are written: one answer less is to be counted, and the row takes what
\* the request carried.
LEMMA SaveStep ==
  ASSUME DraftsInv, NEW d \in Drafters, Save(d)
  PROVE DraftsInv'
<1>1. DraftTypes
  BY DEF DraftsInv
<1>2. PICK old \in Drafts : draft[d] = old
  BY <1>1 DEF DraftTypes
<1> DEFINE x == old.by
           intact == \A k \in old.codes : canned[k].is # "none"
           counting == old.at = "flushed"
<1>3. /\ x \in Models /\ old.at \in {"flushed", "closing"} /\ old.codes \in SUBSET Codes
      /\ old.calls \in Nat /\ old.uses \in [Codes -> Nat]
  BY <1>2 DEF Drafts, Save
<1>4. /\ UNCHANGED <<secret, answered, crossed, cited, pages>>
      /\ draft' = [draft EXCEPT ![d] = Idle]
      /\ models' = IF counting /\ intact THEN [models EXCEPT ![x].calls = old.calls + 1] ELSE models
      /\ canned' = IF intact THEN [k \in Codes |-> IF k \in old.codes
                                   THEN [canned[k] EXCEPT !.uses = old.uses[k] + 1]
                                   ELSE canned[k]]
                   ELSE canned
      /\ unsaved' = IF counting /\ ~intact THEN [unsaved EXCEPT ![x] = @ + 1] ELSE unsaved
  BY <1>2 DEF Save
<1>5. Idle.at = "idle" /\ Idle.codes = {}
  BY DEF Idle
<1>6. \A e \in Drafters : draft'[e] = IF e = d THEN Idle ELSE draft[e]
  BY <1>1, <1>4 DEF DraftTypes
<1>7. IsPending(old, x) <=> counting
  BY <1>3 DEF IsPending
<1>8. (IsCounting(old, x) <=> counting) /\ \A y : ~IsPending(Idle, y) /\ ~IsCounting(Idle, y)
  BY <1>3, <1>5 DEF IsPending, IsCounting
<1>9. \A y : y # x => ~IsPending(old, y)
  BY DEF IsPending
<1> HIDE DEF x, intact, counting
<1>10. models' \in [Models -> ModelRows]
       /\ \A y \in Models \ {x} : models'[y] = models[y]
  <2>1. PICK row \in ModelRows : models[x] = row
    BY <1>1, <1>3 DEF DraftTypes
  <2>2. [row EXCEPT !.calls = old.calls + 1] \in ModelRows
    BY <1>3, <2>1 DEF ModelRows
  <2>3. models' = models \/ models' = [models EXCEPT ![x] = [row EXCEPT !.calls = old.calls + 1]]
    BY <1>4, <2>1
  <2>4. models \in [Models -> ModelRows]
    BY <1>1 DEF DraftTypes
  <2> QED
    BY <1>3, <2>2, <2>3, <2>4
<1>11. /\ canned' \in [Codes -> CannedRows]
       /\ \A k \in Codes : k \notin old.codes \/ ~intact => canned'[k] = canned[k]
       /\ \A k \in Codes : k \in old.codes /\ intact => canned'[k].uses = old.uses[k] + 1
  <2>1. ASSUME NEW k \in Codes
        PROVE [canned[k] EXCEPT !.uses = old.uses[k] + 1] \in CannedRows
              /\ [canned[k] EXCEPT !.uses = old.uses[k] + 1].uses = old.uses[k] + 1
    BY <1>1, <1>3 DEF DraftTypes, CannedRows
  <2> QED BY <1>1, <1>4, <2>1 DEF DraftTypes
<1>12. unsaved' \in [Models -> Nat] /\ \A y \in Models \ {x} : unsaved'[y] = unsaved[y]
  BY <1>1, <1>3, <1>4 DEF DraftTypes
<1>13. DraftTypes'
  BY <1>1, <1>4, <1>10, <1>11, <1>12, IdleIsDraft DEF DraftTypes
<1>14. ASSUME NEW y \in Models, y # x
       PROVE CallsSound(y)'
  BY <1>2, <1>4, <1>8, <1>9, <1>10, <1>12, <1>14, IdleIsDraft, CallsKept
<1>15. CallsSound(x)'
  <2>1. CASE ~counting
    BY <2>1, <1>2, <1>3, <1>4, <1>7, <1>8, IdleIsDraft, CallsKept
  <2>2. CASE counting /\ ~intact
    BY <2>2, <1>2, <1>3, <1>4, <1>7, <1>8, IdleIsDraft, CallsLost
  <2>3. CASE counting /\ intact
    <3>1. Cardinality(Pending(x)) = Cardinality(Pending(x)') + 1 /\ Cardinality(Pending(x)') \in Nat
      BY <2>3, <1>1, <1>2, <1>4, <1>7, <1>8, IdleIsDraft, DraftMoves
    <3>2. models'[x].calls = old.calls + 1 /\ models'[x].is = models[x].is /\ unsaved' = unsaved
      BY <2>3, <1>1, <1>3, <1>4 DEF DraftTypes, ModelRows
    <3>3. CallsSound(x)
      BY <1>3 DEF DraftsInv
    <3>4. /\ models[x].calls \in Nat /\ unsaved[x] \in Nat /\ answered[x] \in Nat
          /\ \A e \in Drafters : draft[e].calls \in Nat
      BY <1>1, <1>3 DEF DraftTypes, ModelRows, Drafts
    <3>5. old.calls + Cardinality(Pending(x)) + unsaved[x] <= answered[x]
      BY <3>3, <1>2, <1>8, <2>3 DEF CallsSound
    <3>6. \A e \in Drafters : IsCounting(draft'[e], x) =>
            e # d /\ draft'[e] = draft[e] /\ IsCounting(draft[e], x)
      BY <1>6, <1>8
    <3>7. ASSUME NEW e \in Drafters, IsCounting(draft'[e], x)
          PROVE draft'[e].calls + Cardinality(Pending(x)') + unsaved'[x] <= answered'[x]
      BY <3>1, <3>2, <3>3, <3>4, <3>6, <3>7, <1>4 DEF CallsSound
    <3>8. ASSUME models'[x].is # "gone", x \notin crossed'
          PROVE /\ models'[x].calls + Cardinality(Pending(x)') + unsaved'[x] = answered'[x]
                /\ \A e \in Drafters : ~IsCounting(draft'[e], x)
      <4>1. models[x].is # "gone" /\ x \notin crossed
        BY <3>2, <3>8, <1>4
      <4>2. old.calls = models[x].calls /\ \A e \in Drafters : IsCounting(draft[e], x) => e = d
        BY <4>1, <3>3, <1>2, <1>8, <2>3 DEF CallsSound
      <4> QED BY <4>1, <4>2, <3>1, <3>2, <3>3, <3>4, <3>6, <1>4 DEF CallsSound
    <3>9. (models[x].calls + Cardinality(Pending(x)) + unsaved[x] <= answered[x])'
      BY <3>1, <3>2, <3>4, <3>5, <1>3, <1>4
    <3> QED BY <3>7, <3>8, <3>9 DEF CallsSound
  <2> QED BY <2>1, <2>2, <2>3
<1>16. ASSUME NEW k \in Codes
       PROVE UsesSound(k)'
  <2>1. ~IsCiting(Idle, k) /\ ~Carries(Idle, k)
    BY <1>5 DEF IsCiting, Carries
  <2>2. CASE k \notin old.codes \/ ~intact
    BY <2>1, <2>2, <1>4, <1>11, IdleIsDraft, UsesKept
  <2>3. CASE k \in old.codes /\ intact
    <3>1. IsCiting(old, k) /\ Carries(old, k)
      BY <2>3, <1>3 DEF IsCiting, Carries
    <3>2. Cardinality(Citing(k)) = Cardinality(Citing(k)') + 1 /\ Cardinality(Citing(k)') \in Nat
      BY <2>1, <3>1, <1>1, <1>2, <1>4, IdleIsDraft, DraftMoves
    <3>3. canned'[k].uses = old.uses[k] + 1 /\ cited' = cited
      BY <2>3, <1>4, <1>11
    <3>4. UsesSound(k)
      BY DEF DraftsInv
    <3>5. cited[k] \in Nat /\ old.uses[k] \in Nat /\ \A e \in Drafters : draft[e].uses[k] \in Nat
      BY <1>1, <1>3 DEF DraftTypes, Drafts
    <3>6. (canned[k].uses + Cardinality(Citing(k)) <= cited[k])'
      BY <3>1, <3>2, <3>3, <3>4, <3>5, <1>2 DEF UsesSound
    <3>7. ASSUME NEW e \in Drafters, Carries(draft'[e], k)
          PROVE draft'[e].uses[k] + Cardinality(Citing(k)') <= cited'[k]
      <4>1. draft'[e] = draft[e]
        BY <2>1, <3>7, <1>6
      <4> QED BY <4>1, <3>2, <3>3, <3>4, <3>5, <3>7 DEF UsesSound
    <3> QED BY <3>6, <3>7 DEF UsesSound
  <2> QED BY <2>2, <2>3
<1> QED BY <1>13, <1>14, <1>15, <1>16 DEF DraftsInv

\* What was to be counted is lost with the process.
LEMMA RestartStep ==
  ASSUME DraftsInv, NEW s \in Secrets, StartsAnew(s)
  PROVE DraftsInv'
<1>1. DraftTypes
  BY DEF DraftsInv
<1>2. /\ secret' = s
      /\ draft' = [d \in Drafters |-> Idle]
      /\ unsaved' = [x \in Models |-> unsaved[x] + Cardinality(Pending(x))]
      /\ UNCHANGED <<models, canned, answered, crossed, cited>>
  BY DEF StartsAnew
<1>3. \A d \in Drafters : draft'[d].at = "idle" /\ draft'[d].codes = {}
  BY <1>2 DEF Idle
<1>4. draft' \in [Drafters -> Drafts]
  BY <1>2, IdleIsDraft
<1>5. unsaved' \in [Models -> Nat]
  BY <1>1, <1>2, CountsAreNumbers DEF DraftTypes
<1>6. DraftTypes'
  BY <1>1, <1>2, <1>4, <1>5 DEF DraftTypes
<1>7. ASSUME NEW x \in Models
      PROVE CallsSound(x)'
  <2>1. Pending(x)' = {} /\ \A d \in Drafters : ~IsCounting(draft'[d], x)
    BY <1>3 DEF Pending, IsCounting
  <2>2. Cardinality(Pending(x)') = 0
    BY <2>1, FS_EmptySet
  <2>3. unsaved'[x] = unsaved[x] + Cardinality(Pending(x))
    BY <1>2
  <2>4. /\ models[x].calls \in Nat /\ unsaved[x] \in Nat /\ answered[x] \in Nat
        /\ Cardinality(Pending(x)) \in Nat
    BY <1>1, CountsAreNumbers DEF DraftTypes, ModelRows
  <2>5. CallsSound(x)
    BY DEF DraftsInv
  <2> QED BY <2>1, <2>2, <2>3, <2>4, <2>5, <1>2 DEF CallsSound
<1>8. ASSUME NEW k \in Codes
      PROVE UsesSound(k)'
  <2>1. Citing(k)' = {} /\ \A d \in Drafters : ~Carries(draft'[d], k)
    BY <1>3 DEF Citing, IsCiting, Carries
  <2>2. Cardinality(Citing(k)') = 0
    BY <2>1, FS_EmptySet
  <2>3. canned[k].uses \in Nat /\ cited[k] \in Nat /\ Cardinality(Citing(k)) \in Nat
    BY <1>1, CountsAreNumbers DEF DraftTypes, CannedRows
  <2> QED BY <2>1, <2>2, <2>3, <1>2 DEF UsesSound, DraftsInv
<1> QED BY <1>6, <1>7, <1>8 DEF DraftsInv

LEMMA DraftsStep == DraftsInv /\ [AiNext]_aiVars => DraftsInv'
<1> SUFFICES ASSUME DraftsInv, [AiNext]_aiVars PROVE DraftsInv'
  OBVIOUS
<1>1. ASSUME NEW d \in Drafters,
             \/ \E tags \in SUBSET Topics : Ask(d, tags)
             \/ ProviderAnswers(d) \/ ProviderFails(d) \/ Load(d) \/ Flush(d) \/ Save(d)
      PROVE DraftsInv'
  BY <1>1, AskStep, AnswerStep, FailStep, LoadStep, FlushStep, SaveStep
<1>2. ASSUME NEW s \in Secrets, StartsAnew(s)
      PROVE DraftsInv'
  BY <1>2, RestartStep
<1>3. CASE UNCHANGED aiVars
  <2>1. \A x : Pending(x)' = Pending(x)
    BY <1>3 DEF aiVars, Pending
  <2>2. \A k : Citing(k)' = Citing(k)
    BY <1>3 DEF aiVars, Citing
  <2> QED BY <2>1, <2>2, <1>3 DEF aiVars, DraftsInv, DraftTypes, CallsSound, UsesSound
<1> QED BY <1>1, <1>2, <1>3, PagesStep DEF AiNext

\* The usage that the console shows of a language model is never more than its
\* provider answered, and exactly that where no two requests crossed, less what is
\* to be counted or lost; nor is that of an example more than its citations
\* (admin_ticket_ai_generate).
THEOREM UsageStaysHonest == AiSpec => []UsageIsHonest
<1>1. DraftsInv => UsageIsHonest
  <2> SUFFICES ASSUME DraftsInv PROVE UsageIsHonest
    OBVIOUS
  <2>1. ASSUME NEW x \in Models
        PROVE /\ models[x].calls <= answered[x]
              /\ There(x) /\ x \notin crossed =>
                   models[x].calls + Cardinality(Pending(x)) + unsaved[x] = answered[x]
    <3>1. /\ models[x].calls \in Nat /\ unsaved[x] \in Nat /\ answered[x] \in Nat
          /\ Cardinality(Pending(x)) \in Nat
      BY CountsAreNumbers DEF DraftsInv, DraftTypes, ModelRows
    <3> QED BY <3>1 DEF DraftsInv, CallsSound, There
  <2>2. ASSUME NEW k \in Codes
        PROVE canned[k].uses <= cited[k]
    <3>1. canned[k].uses \in Nat /\ cited[k] \in Nat /\ Cardinality(Citing(k)) \in Nat
      BY CountsAreNumbers DEF DraftsInv, DraftTypes, CannedRows
    <3> QED BY <3>1 DEF DraftsInv, UsesSound
  <2> QED BY <2>1, <2>2 DEF UsageIsHonest
<1> QED BY <1>1, DraftsStart, DraftsStep, PTL DEF AiSpec

-----------------------------------------------------------------------------
(***************************************************************************)
(* Sign-in failures.  A request is let to the door while fewer failures    *)
(* than the limit are recent, and those at the door may all fail: recent   *)
(* failures and requests at the door together stay below the limit plus    *)
(* the number of requests.  What is recent is never pruned, so a window    *)
(* that has passed is counted as it was when it was the last.              *)
(***************************************************************************)

AtDoor(a) == {g \in Guests : guest[g] = [at |-> "door", from |-> a]}
DoorLimit == FailureLimit + Cardinality(Guests) - 1

FailureTypes ==
  /\ minute \in 1..LastMinute
  /\ guest \in [Guests -> {Away} \cup [at : {"door"}, from : Addresses]]
  /\ loginFailures \in [Addresses -> SUBSET Failures]
  /\ misses \in [Addresses -> SUBSET Failures]
  /\ refusals \in [Addresses -> SUBSET (1..LastMinute)]
  /\ knocks \in 0..MaxKnocks

\* The bucket of an address has its recent failures, and none that was not recorded.
BucketSound(a) ==
  /\ IsFiniteSet(misses[a])
  /\ loginFailures[a] \subseteq misses[a]
  /\ Recent(misses[a]) \subseteq loginFailures[a]
  /\ \A f \in misses[a] : f.at <= minute

WindowsKept(a) ==
  /\ Cardinality(Recent(misses[a])) + Cardinality(AtDoor(a)) <= DoorLimit
  /\ \A t \in Nat : Cardinality(MissesIn(a, t, t + FailureWindow - 1)) <= DoorLimit

RefusedRightly(a) ==
  \A t \in refusals[a] : Cardinality(MissesIn(a, t - FailureWindow + 1, t)) >= FailureLimit

AddressSound(a) == BucketSound(a) /\ WindowsKept(a) /\ RefusedRightly(a)

FailuresInv == FailureTypes /\ \A a \in Addresses : AddressSound(a)

-----------------------------------------------------------------------------
\* Parts of what was recorded, and of the requests, are finite.
LEMMA FailuresAreFinite ==
  ASSUME NEW S, IsFiniteSet(S), NEW T \in SUBSET S
  PROVE  IsFiniteSet(T) /\ Cardinality(T) \in Nat /\ Cardinality(S) \in Nat /\ Cardinality(T) <= Cardinality(S)
  BY FS_Subset, FS_CardinalityType

LEMMA DoorsAreFew ==
  ASSUME NEW a
  PROVE  Cardinality(AtDoor(a)) \in Nat /\ Cardinality(Guests) \in Nat /\ Cardinality(AtDoor(a)) <= Cardinality(Guests)
  BY FailuresAreFinite, GuestsAssumption, AtDoor(a) \in SUBSET Guests DEF AtDoor

LEMMA FailuresStart == SignInInit => FailuresInv
<1> SUFFICES ASSUME SignInInit PROVE FailuresInv
  OBVIOUS
<1>1. FailureTypes
  BY KnocksAssumption DEF SignInInit, FailureTypes
<1>2. ASSUME NEW a \in Addresses PROVE AddressSound(a)
  <2>1. misses[a] = {} /\ loginFailures[a] = {} /\ refusals[a] = {}
    BY DEF SignInInit
  <2>2. Recent(misses[a]) = {} /\ \A t \in Nat : MissesIn(a, t, t + FailureWindow - 1) = {}
    BY <2>1 DEF Recent, MissesIn
  <2>3. AtDoor(a) = {}
    BY DEF SignInInit, AtDoor, Away
  <2>4. Cardinality({}) = 0 /\ IsFiniteSet({})
    BY FS_EmptySet
  <2>5. 0 <= DoorLimit
    BY DoorsAreFew, FailuresAssumption DEF DoorLimit
  <2> QED
    BY <2>1, <2>2, <2>3, <2>4, <2>5 DEF AddressSound, BucketSound, WindowsKept, RefusedRightly
<1> QED
  BY <1>1, <1>2 DEF FailuresInv

\* An address whose record does not change, and whose requests at the door at most go.
LEMMA AddressUntouched ==
  ASSUME NEW a \in Addresses, AddressSound(a), FailureTypes, FailureTypes',
         minute' = minute, misses'[a] = misses[a], refusals'[a] = refusals[a],
         loginFailures'[a] = loginFailures[a] \/ loginFailures'[a] = Recent(loginFailures[a]),
         AtDoor(a)' \subseteq AtDoor(a)
  PROVE  AddressSound(a)'
<1>1. IsFiniteSet(AtDoor(a))
  BY FailuresAreFinite, GuestsAssumption, AtDoor(a) \in SUBSET Guests DEF AtDoor
<1>2. Cardinality(AtDoor(a)') <= Cardinality(AtDoor(a)) /\ Cardinality(AtDoor(a)') \in Nat
      /\ Cardinality(AtDoor(a)) \in Nat
  BY <1>1, FailuresAreFinite
<1>3. Recent(misses[a])' = Recent(misses[a])
  BY DEF Recent
<1>4. \A t, u : MissesIn(a, t, u)' = MissesIn(a, t, u)
  BY DEF MissesIn
<1>5. Cardinality(Recent(misses[a])) \in Nat
  BY FailuresAreFinite, Recent(misses[a]) \in SUBSET misses[a] DEF AddressSound, BucketSound, Recent
<1>6. DoorLimit \in Int /\ DoorLimit' = DoorLimit
  BY DoorsAreFew, FailuresAssumption DEF DoorLimit
<1>7. BucketSound(a)'
  BY <1>3 DEF AddressSound, BucketSound, Recent
<1>8. WindowsKept(a)'
  BY <1>2, <1>3, <1>4, <1>5, <1>6 DEF AddressSound, WindowsKept
<1>9. RefusedRightly(a)'
  BY <1>4 DEF AddressSound, RefusedRightly
<1> QED
  BY <1>7, <1>8, <1>9 DEF AddressSound

\* An address that was forgotten.
LEMMA AddressForgotten ==
  ASSUME NEW a \in Addresses, FailureTypes',
         misses'[a] = {}, refusals'[a] = {}, loginFailures'[a] = {}
  PROVE  AddressSound(a)'
<1>1. Recent(misses[a])' = {} /\ \A t \in Nat : MissesIn(a, t, t + FailureWindow - 1)' = {}
  BY DEF Recent, MissesIn
<1>2. Cardinality({}) = 0 /\ IsFiniteSet({})
  BY FS_EmptySet
<1>3. Cardinality(AtDoor(a)') \in Nat /\ Cardinality(Guests) \in Nat
      /\ Cardinality(AtDoor(a)') <= Cardinality(Guests)
  <2>1. AtDoor(a)' \in SUBSET Guests
    BY DEF AtDoor
  <2> QED
    BY <2>1, FailuresAreFinite, GuestsAssumption
<1>4. Cardinality(AtDoor(a)') <= DoorLimit' /\ 0 <= DoorLimit'
  BY <1>3, FailuresAssumption DEF DoorLimit
<1>5. BucketSound(a)'
  BY <1>1, <1>2 DEF BucketSound
<1>6. WindowsKept(a)'
  <2>1. Cardinality(Recent(misses[a]))' = 0
    BY <1>1, <1>2
  <2>2. \A t \in Nat : Cardinality(MissesIn(a, t, t + FailureWindow - 1))' = 0
    BY <1>1, <1>2
  <2>3. Cardinality(Recent(misses[a]))' + Cardinality(AtDoor(a)') <= DoorLimit'
    BY <2>1, <1>3, <1>4
  <2> QED
    BY <2>2, <2>3, <1>4 DEF WindowsKept
<1>7. RefusedRightly(a)'
  BY DEF RefusedRightly
<1> QED
  BY <1>5, <1>6, <1>7 DEF AddressSound

LEMMA KnockInv ==
  ASSUME FailuresInv, NEW g \in Guests, NEW a \in Addresses, Knock(g, a)
  PROVE  FailuresInv'
<1>1. FailureTypes /\ \A x \in Addresses : AddressSound(x)
  BY DEF FailuresInv
<1>2. /\ guest[g] = Away /\ minute' = minute /\ misses' = misses
      /\ loginFailures' = [loginFailures EXCEPT ![a] = Recent(@)]
      /\ knocks < MaxKnocks /\ knocks' = knocks + 1
  BY DEF Knock
<1>3. Allowed(a) => guest' = [guest EXCEPT ![g] = [at |-> "door", from |-> a]] /\ refusals' = refusals
  BY DEF Knock
<1>4. ~Allowed(a) => refusals' = [refusals EXCEPT ![a] = @ \cup {minute}] /\ guest' = guest
  BY DEF Knock
<1>5. FailureTypes'
  <2>1. Recent(loginFailures[a]) \subseteq Failures
    BY <1>1 DEF FailureTypes, Recent
  <2>2. [at |-> "door", from |-> a] \in [at : {"door"}, from : Addresses]
    OBVIOUS
  <2>3. guest' \in [Guests -> {Away} \cup [at : {"door"}, from : Addresses]]
    BY <1>1, <1>3, <1>4, <2>2 DEF FailureTypes
  <2>4. refusals' \in [Addresses -> SUBSET (1..LastMinute)]
    BY <1>1, <1>3, <1>4 DEF FailureTypes
  <2>5. knocks' \in 0..MaxKnocks
    BY <1>1, <1>2, KnocksAssumption DEF FailureTypes
  <2> QED
    BY <1>1, <1>2, <2>1, <2>3, <2>4, <2>5 DEF FailureTypes
<1>6. loginFailures'[a] = Recent(loginFailures[a])
      /\ \A x \in Addresses \ {a} : loginFailures'[x] = loginFailures[x]
  BY <1>1, <1>2 DEF FailureTypes
<1>7. ASSUME NEW x \in Addresses \ {a} PROVE AddressSound(x)'
  <2>1. refusals'[x] = refusals[x]
    BY <1>1, <1>3, <1>4 DEF FailureTypes
  <2>2. AtDoor(x)' \subseteq AtDoor(x)
    BY <1>1, <1>2, <1>3, <1>4 DEF FailureTypes, AtDoor
  <2> QED
    BY <1>1, <1>2, <1>5, <1>6, <2>1, <2>2, AddressUntouched
<1>8. BucketSound(a)
  BY <1>1 DEF AddressSound
<1>9. Recent(misses[a]) = Recent(loginFailures[a])
  BY <1>8 DEF BucketSound, Recent
<1>10. Cardinality(Recent(misses[a])) \in Nat
  BY <1>8, FailuresAreFinite, Recent(misses[a]) \in SUBSET misses[a] DEF BucketSound, Recent
<1>11. BucketSound(a)'
  BY <1>2, <1>6, <1>8 DEF BucketSound, Recent
<1>12. CASE Allowed(a)
  <2>1. Cardinality(Recent(misses[a])) < FailureLimit
    BY <1>9, <1>12 DEF Allowed
  <2>2. AtDoor(a)' \in SUBSET Guests
    BY DEF AtDoor
  <2>3. Cardinality(AtDoor(a)') \in Nat /\ Cardinality(Guests) \in Nat
        /\ Cardinality(AtDoor(a)') <= Cardinality(Guests)
    BY <2>2, FailuresAreFinite, GuestsAssumption
  <2>4. Recent(misses[a])' = Recent(misses[a]) /\ DoorLimit' = DoorLimit
    BY <1>2 DEF Recent, DoorLimit
  <2>5. Cardinality(Recent(misses[a])) + Cardinality(AtDoor(a)') <= DoorLimit
    BY <1>10, <2>1, <2>3, FailuresAssumption DEF DoorLimit
  <2>6. WindowsKept(a)'
    BY <1>1, <1>2, <2>4, <2>5 DEF AddressSound, WindowsKept, MissesIn
  <2>7. RefusedRightly(a)'
    BY <1>1, <1>2, <1>3, <1>12 DEF AddressSound, RefusedRightly, MissesIn
  <2> QED
    BY <1>1, <1>5, <1>7, <1>11, <2>6, <2>7 DEF AddressSound, FailuresInv
<1>13. CASE ~Allowed(a)
  <2>1. Cardinality(Recent(misses[a])) >= FailureLimit
    BY <1>9, <1>10, <1>13, FailuresAssumption DEF Allowed
  <2>2. Recent(misses[a]) \subseteq MissesIn(a, minute - FailureWindow + 1, minute)
    <3> SUFFICES ASSUME NEW f \in Recent(misses[a])
                 PROVE f.at \in (minute - FailureWindow + 1)..minute
      BY DEF MissesIn, Recent
    <3>1. f \in misses[a] /\ f.at > minute - FailureWindow /\ f.at <= minute
      BY <1>8 DEF Recent, BucketSound
    <3>2. f.at \in Nat /\ minute \in Nat
      BY <1>1, <3>1 DEF FailureTypes, Failures
    <3> QED
      BY <3>1, <3>2, FailuresAssumption
  <2>3. IsFiniteSet(MissesIn(a, minute - FailureWindow + 1, minute))
    BY <1>8, FailuresAreFinite, MissesIn(a, minute - FailureWindow + 1, minute) \in SUBSET misses[a]
    DEF BucketSound, MissesIn
  <2>4. /\ Cardinality(Recent(misses[a])) <= Cardinality(MissesIn(a, minute - FailureWindow + 1, minute))
        /\ Cardinality(MissesIn(a, minute - FailureWindow + 1, minute)) \in Nat
    BY <2>2, <2>3, FailuresAreFinite
  <2>5. Cardinality(MissesIn(a, minute - FailureWindow + 1, minute)) >= FailureLimit
    BY <1>10, <2>1, <2>4, FailuresAssumption
  <2>6. \A t, u : MissesIn(a, t, u)' = MissesIn(a, t, u)
    BY <1>2 DEF MissesIn
  <2>7. RefusedRightly(a)'
    BY <1>1, <1>4, <1>13, <2>5, <2>6 DEF AddressSound, RefusedRightly, FailureTypes
  <2>8. Recent(misses[a])' = Recent(misses[a]) /\ AtDoor(a)' = AtDoor(a) /\ DoorLimit' = DoorLimit
    BY <1>2, <1>4, <1>13 DEF Recent, DoorLimit, AtDoor
  <2>9. WindowsKept(a)'
    BY <1>1, <2>6, <2>8 DEF AddressSound, WindowsKept
  <2> QED
    BY <1>1, <1>5, <1>7, <1>11, <2>7, <2>9 DEF AddressSound, FailuresInv
<1> QED
  BY <1>12, <1>13

LEMMA LetInInv ==
  ASSUME FailuresInv, NEW g \in Guests, LetIn(g)
  PROVE  FailuresInv'
<1>1. FailureTypes /\ \A x \in Addresses : AddressSound(x)
  BY DEF FailuresInv
<1>2. guest' = [guest EXCEPT ![g] = Away]
      /\ UNCHANGED <<minute, loginFailures, refusals, misses, knocks>>
  BY DEF LetIn
<1>3. FailureTypes'
  BY <1>1, <1>2 DEF FailureTypes
<1>4. ASSUME NEW x \in Addresses PROVE AddressSound(x)'
  <2>1. AtDoor(x)' \subseteq AtDoor(x)
    BY <1>1, <1>2 DEF FailureTypes, AtDoor, Away
  <2> QED
    BY <1>1, <1>2, <1>3, <2>1, AddressUntouched
<1> QED
  BY <1>3, <1>4 DEF FailuresInv

\* Whoever is turned away has one more failure, and is no longer at the door.
LEMMA TurnAwayInv ==
  ASSUME FailuresInv, NEW g \in Guests, TurnAway(g)
  PROVE  FailuresInv'
<1>1. FailureTypes /\ \A x \in Addresses : AddressSound(x)
  BY DEF FailuresInv
<1>2. guest[g].at = "door" /\ guest' = [guest EXCEPT ![g] = Away]
      /\ minute' = minute /\ knocks' = knocks
  BY DEF TurnAway
<1>3. PICK a \in Addresses : guest[g] = [at |-> "door", from |-> a]
  BY <1>1, <1>2 DEF FailureTypes, Away
<1>4. PICK failure : failure = [at |-> minute, no |-> Cardinality(misses[a]) + 1]
  OBVIOUS
<1>5. PICK gone : gone = ToSet(SubSeq(known, 1, Forgotten(a)))
  OBVIOUS
<1>6. guest[g].from = a
  BY <1>3
<1>7. /\ loginFailures' = [x \in Addresses |->
                              IF x = a THEN Recent(loginFailures[a] \cup {failure})
                              ELSE IF x \in gone THEN {} ELSE loginFailures[x]]
      /\ misses' = [x \in Addresses |->
                       IF x = a THEN misses[a] \cup {failure}
                       ELSE IF x \in gone THEN {} ELSE misses[x]]
      /\ refusals' = [x \in Addresses |-> IF x \in gone THEN {} ELSE refusals[x]]
  BY <1>4, <1>5, <1>6 DEF TurnAway
<1>8. BucketSound(a) /\ WindowsKept(a) /\ RefusedRightly(a)
  BY <1>1 DEF AddressSound
<1>9. failure \in Failures /\ failure.at = minute /\ minute \in Nat /\ minute <= LastMinute
  <2>1. Cardinality(misses[a]) \in Nat
    BY <1>8, FS_CardinalityType DEF BucketSound
  <2> QED
    BY <1>1, <1>4, <2>1, KnocksAssumption DEF FailureTypes, Failures
<1>10. FailureTypes'
  <2>1. Recent(loginFailures[a] \cup {failure}) \subseteq Failures /\ misses[a] \cup {failure} \subseteq Failures
    BY <1>1, <1>9 DEF FailureTypes, Recent
  <2>2. loginFailures' \in [Addresses -> SUBSET Failures]
    BY <1>1, <1>7, <2>1 DEF FailureTypes
  <2>3. misses' \in [Addresses -> SUBSET Failures]
    BY <1>1, <1>7, <2>1 DEF FailureTypes
  <2>4. refusals' \in [Addresses -> SUBSET (1..LastMinute)]
    BY <1>1, <1>7 DEF FailureTypes
  <2>5. guest' \in [Guests -> {Away} \cup [at : {"door"}, from : Addresses]]
    BY <1>1, <1>2 DEF FailureTypes
  <2> QED
    BY <1>1, <1>2, <2>2, <2>3, <2>4, <2>5 DEF FailureTypes
<1>11. ASSUME NEW x \in Addresses \ {a} PROVE AddressSound(x)'
  <2>1. CASE x \in gone
    <3>1. misses'[x] = {} /\ refusals'[x] = {} /\ loginFailures'[x] = {}
      BY <1>7, <2>1
    <3> QED
      BY <1>10, <3>1, AddressForgotten
  <2>2. CASE x \notin gone
    <3>1. misses'[x] = misses[x] /\ refusals'[x] = refusals[x] /\ loginFailures'[x] = loginFailures[x]
      BY <1>7, <2>2
    <3>2. AtDoor(x)' \subseteq AtDoor(x)
      BY <1>1, <1>2 DEF FailureTypes, AtDoor, Away
    <3> QED
      BY <1>1, <1>2, <1>10, <3>1, <3>2, AddressUntouched
  <2> QED
    BY <2>1, <2>2
<1>12. misses'[a] = misses[a] \cup {failure} /\ loginFailures'[a] = Recent(loginFailures[a] \cup {failure})
       /\ refusals'[a] \subseteq refusals[a]
  BY <1>7
<1>13. /\ IsFiniteSet(misses[a]) /\ loginFailures[a] \subseteq misses[a]
       /\ Recent(misses[a]) \subseteq loginFailures[a] /\ \A f \in misses[a] : f.at <= minute
  BY <1>8 DEF BucketSound
<1>14. IsFiniteSet(misses'[a])
  BY <1>12, <1>13, FS_AddElement
<1>15. BucketSound(a)'
  <2>1. loginFailures'[a] \subseteq misses'[a]
    BY <1>12, <1>13 DEF Recent
  <2>2. Recent(misses[a])' \subseteq loginFailures'[a]
    BY <1>2, <1>12, <1>13 DEF Recent
  <2>3. \A f \in misses'[a] : f.at <= minute'
    BY <1>2, <1>9, <1>12, <1>13
  <2> QED
    BY <1>14, <2>1, <2>2, <2>3 DEF BucketSound
<1>16. RefusedRightly(a)'
  <2> SUFFICES ASSUME NEW t \in refusals'[a]
               PROVE Cardinality(MissesIn(a, t - FailureWindow + 1, t)') >= FailureLimit
    BY DEF RefusedRightly
  <2>1. MissesIn(a, t - FailureWindow + 1, t) \subseteq MissesIn(a, t - FailureWindow + 1, t)'
    BY <1>12 DEF MissesIn
  <2>2. IsFiniteSet(MissesIn(a, t - FailureWindow + 1, t)')
    BY <1>14, FS_Subset, MissesIn(a, t - FailureWindow + 1, t)' \in SUBSET misses'[a] DEF MissesIn
  <2>3. Cardinality(MissesIn(a, t - FailureWindow + 1, t)) >= FailureLimit
    BY <1>8, <1>12 DEF RefusedRightly
  <2> QED
    BY <2>1, <2>2, <2>3, FailuresAreFinite, FailuresAssumption
<1>17. Cardinality(Recent(misses[a])') <= Cardinality(Recent(misses[a])) + 1
       /\ Cardinality(Recent(misses[a])') \in Nat /\ Cardinality(Recent(misses[a])) \in Nat
       /\ IsFiniteSet(Recent(misses[a])')
  <2>1. IsFiniteSet(Recent(misses[a])) /\ Cardinality(Recent(misses[a])) \in Nat
    BY <1>13, FailuresAreFinite, Recent(misses[a]) \in SUBSET misses[a] DEF Recent
  <2>2. Recent(misses[a])' \subseteq Recent(misses[a]) \cup {failure}
    BY <1>2, <1>12 DEF Recent
  <2>3. IsFiniteSet(Recent(misses[a]) \cup {failure})
        /\ Cardinality(Recent(misses[a]) \cup {failure}) <= Cardinality(Recent(misses[a])) + 1
    BY <2>1, FS_AddElement
  <2> QED
    BY <2>1, <2>2, <2>3, FailuresAreFinite
<1>18. Cardinality(AtDoor(a)') = Cardinality(AtDoor(a)) - 1 /\ Cardinality(AtDoor(a)) \in Nat
  <2>1. AtDoor(a)' = AtDoor(a) \ {g} /\ g \in AtDoor(a)
    BY <1>1, <1>2, <1>3 DEF FailureTypes, AtDoor, Away
  <2>2. IsFiniteSet(AtDoor(a))
    BY FailuresAreFinite, GuestsAssumption, AtDoor(a) \in SUBSET Guests DEF AtDoor
  <2> QED
    BY <2>1, <2>2, FS_RemoveElement, FS_CardinalityType
<1>19. DoorLimit \in Int /\ DoorLimit' = DoorLimit
  BY DoorsAreFew, FailuresAssumption DEF DoorLimit
<1>20. Cardinality(Recent(misses[a])') + Cardinality(AtDoor(a)') <= DoorLimit
  BY <1>8, <1>17, <1>18, <1>19 DEF WindowsKept
<1>21. Cardinality(AtDoor(a)') \in Nat
  <2>1. AtDoor(a)' \in SUBSET Guests
    BY DEF AtDoor
  <2> QED
    BY <2>1, FailuresAreFinite, GuestsAssumption
<1>22. ASSUME NEW t \in Nat
       PROVE Cardinality(MissesIn(a, t, t + FailureWindow - 1)') <= DoorLimit
  <2>1. CASE t + FailureWindow - 1 < minute
    <3>1. MissesIn(a, t, t + FailureWindow - 1)' = MissesIn(a, t, t + FailureWindow - 1)
      BY <1>9, <1>12, <2>1, FailuresAssumption DEF MissesIn
    <3> QED
      BY <1>8, <3>1 DEF WindowsKept
  <2>2. CASE t + FailureWindow - 1 >= minute
    <3>1. MissesIn(a, t, t + FailureWindow - 1)' \subseteq Recent(misses[a])'
      BY <1>2, <1>9, <2>2, FailuresAssumption DEF MissesIn, Recent
    <3> QED
      BY <1>17, <1>19, <1>20, <1>21, <3>1, FailuresAreFinite
  <2> QED
    BY <1>9, <2>1, <2>2, FailuresAssumption
<1>23. WindowsKept(a)'
  BY <1>19, <1>20, <1>22 DEF WindowsKept
<1> QED
  BY <1>10, <1>11, <1>15, <1>16, <1>23 DEF AddressSound, FailuresInv

LEMMA MinutesPass ==
  ASSUME FailuresInv, TimePasses
  PROVE  FailuresInv'
<1>1. FailureTypes /\ \A x \in Addresses : AddressSound(x)
  BY DEF FailuresInv
<1>2. minute < LastMinute /\ minute' = minute + 1
      /\ UNCHANGED <<loginFailures, known, guest, refusals, misses, knocks>>
  BY DEF TimePasses
<1>3. minute \in Nat
  BY <1>1 DEF FailureTypes
<1>4. FailureTypes'
  <2>1. minute' \in 1..LastMinute
    BY <1>1, <1>2, KnocksAssumption DEF FailureTypes
  <2> QED
    BY <1>1, <1>2, <2>1 DEF FailureTypes
<1>5. ASSUME NEW a \in Addresses PROVE AddressSound(a)'
  <2>1. BucketSound(a) /\ WindowsKept(a) /\ RefusedRightly(a)
    BY <1>1 DEF AddressSound
  <2>2. \A f \in misses[a] : f.at \in Nat
    BY <1>1 DEF FailureTypes, Failures
  <2>3. Recent(misses[a])' \subseteq Recent(misses[a])
    BY <1>2, <1>3, <2>2, FailuresAssumption DEF Recent
  <2>4. IsFiniteSet(Recent(misses[a]))
    BY <2>1, FailuresAreFinite, Recent(misses[a]) \in SUBSET misses[a] DEF Recent, BucketSound
  <2>5. Cardinality(Recent(misses[a])') <= Cardinality(Recent(misses[a]))
        /\ Cardinality(Recent(misses[a])') \in Nat /\ Cardinality(Recent(misses[a])) \in Nat
    BY <2>3, <2>4, FailuresAreFinite
  <2>6. AtDoor(a)' = AtDoor(a) /\ DoorLimit' = DoorLimit /\ DoorLimit \in Int
    <3>1. AtDoor(a)' = AtDoor(a)
      BY <1>2 DEF AtDoor
    <3>2. DoorLimit' = DoorLimit
      BY DEF DoorLimit
    <3>3. DoorLimit \in Int
      BY DoorsAreFew, FailuresAssumption DEF DoorLimit
    <3> QED
      BY <3>1, <3>2, <3>3
  <2>7. \A t, u : MissesIn(a, t, u)' = MissesIn(a, t, u)
    BY <1>2 DEF MissesIn
  <2>8. WindowsKept(a)'
    BY <2>1, <2>5, <2>6, <2>7, DoorsAreFew DEF WindowsKept
  <2>9. BucketSound(a)'
    <3>1. \A f \in misses'[a] : f.at <= minute'
      BY <1>2, <1>3, <2>1, <2>2 DEF BucketSound
    <3> QED
      BY <1>2, <2>1, <2>3, <3>1 DEF BucketSound
  <2>10. RefusedRightly(a)'
    BY <1>2, <2>1, <2>7 DEF RefusedRightly
  <2> QED
    BY <2>8, <2>9, <2>10 DEF AddressSound
<1> QED
  BY <1>4, <1>5 DEF FailuresInv

LEMMA FailuresStep == FailuresInv /\ [SignInNext]_signInVars => FailuresInv'
<1> SUFFICES ASSUME FailuresInv, [SignInNext]_signInVars PROVE FailuresInv'
  OBVIOUS
<1>1. CASE UNCHANGED signInVars
  BY <1>1 DEF signInVars, FailuresInv, FailureTypes, AddressSound, BucketSound, WindowsKept,
              RefusedRightly, Recent, MissesIn, AtDoor, DoorLimit
<1> QED
  BY <1>1, KnockInv, LetInInv, TurnAwayInv, MinutesPass DEF SignInNext

LEMMA FailuresInvLimits == FailuresInv => FailuresAreLimited
<1> SUFFICES ASSUME FailuresInv, NEW a \in Addresses
             PROVE /\ \A t \in 1..minute :
                        Cardinality(MissesIn(a, t, t + FailureWindow - 1)) <= FailureLimit + Cardinality(Guests) - 1
                   /\ \A t \in refusals[a] : Cardinality(MissesIn(a, t - FailureWindow + 1, t)) >= FailureLimit
  BY DEF FailuresAreLimited
<1> QED
  BY DEF FailuresInv, AddressSound, WindowsKept, RefusedRightly, DoorLimit

\* However requests overlap between the check of an address and the record of its failure,
\* an address fails within a window at most as often as the limit and the requests already
\* at the door allow, and is refused only for that many failures within the window: for any
\* addresses, limits, windows and numbers of addresses that are remembered (auth.py,
\* require_role).
THEOREM FailuresStayLimited == SignInSpec => []FailuresAreLimited
<1>1. SignInSpec => []FailuresInv
  BY FailuresStart, FailuresStep, PTL DEF SignInSpec
<1> QED
  BY <1>1, FailuresInvLimits, PTL

-----------------------------------------------------------------------------
(***************************************************************************)
(* Events.  What a store counted is in its bucket as long as it is in the  *)
(* window, and whatever is in a bucket was counted; a block that has not   *)
(* ended was set over a full window.  So an event passes only below the    *)
(* limit, and is refused only above it or right after another.             *)
(***************************************************************************)

EventType == [source : Origins, at : Nat, by : {"nobody", "redis", "memory", "both"}, ok : BOOLEAN]

\* What a store counted of a source, all and of some seconds; what Redis let through.
CountedOf(store, s) == {i \in CountedBy(store) : events[i].source = s}
CountedIn(store, s, from, to) == {i \in CountedOf(store, s) : events[i].at \in from..to}
PassedOf(s) == {i \in 1..Len(events) : events[i].source = s /\ events[i].by = "redis" /\ events[i].ok}
PassedIn(s, from, to) == {i \in PassedOf(s) : events[i].at \in from..to}

BucketType == [stamps : SUBSET Nat, until : Moments]

EventTypes ==
  /\ second \in 1..LastSecond
  /\ events \in Seq(EventType)
  /\ \A i \in 1..Len(events) : events[i].at <= second
  /\ shared \in [Origins -> BucketType]
  /\ DOMAIN own \subseteq Origins
  /\ \A s \in DOMAIN own : own[s] \in [stamps : SUBSET Nat, until : Moments, touched : 1..Len(events)]
  /\ {up, enabled, kept.enabled} \subseteq BOOLEAN
  /\ upsets \in 0..MaxUpsets

\* A bucket of a store, for a source: of its stamps, and of its block.
Truthful(store, s, stamps, until) ==
  /\ stamps \subseteq CountedOf(store, s)
  /\ until > second =>
       Cardinality(CountedIn(store, s, until - BlockTime - Window + 1, until - BlockTime)) >= Limit

\* What Redis let through in the window is in its bucket.
RedisKeepsOf(s) ==
  /\ InWindow(PassedOf(s)) \subseteq shared[s].stamps
  /\ Cardinality(InWindow(shared[s].stamps)) <= Limit
  /\ \A t \in Nat : Cardinality(PassedIn(s, t, t + Window - 1)) <= Limit
RedisKeeps == \A s \in Origins : RedisKeepsOf(s)
RedisSound ==
  RedisKeeps /\ \A x \in Origins : Truthful("redis", x, shared[x].stamps, shared[x].until)

\* The memory is a line without ties, and no longer than it may be.
MemoryBounded ==
  /\ \A s, x \in DOMAIN own : own[s].touched = own[x].touched => s = x
  /\ IsFiniteSet(DOMAIN own) /\ Cardinality(DOMAIN own) <= Buckets + 1
MemorySound ==
  MemoryBounded /\ \A x \in DOMAIN own : Truthful("memory", x, own[x].stamps, own[x].until)

\* What an event is answered with, and why.
StoreOf(n) == IF events[n].by = "redis" THEN "redis" ELSE "memory"
Before(n, k) == {i \in CountedIn(StoreOf(n), events[n].source, events[n].at - k + 1, events[n].at) : i < n}
Excused(n) ==
  ~events[n].ok => Before(n, MinGap) # {} \/ Cardinality(Before(n, Window + BlockTime)) >= Limit

AllExcused == \A n \in 1..Len(events) : Excused(n)

EventsInv == EventTypes /\ RedisSound /\ MemorySound /\ AllExcused

-----------------------------------------------------------------------------
LEMMA CountedAreFinite ==
  ASSUME EventTypes, NEW store, NEW s, NEW T \in SUBSET CountedOf(store, s)
  PROVE  IsFiniteSet(T) /\ Cardinality(T) \in Nat
<1>1. Len(events) \in Nat
  BY DEF EventTypes
<1>2. IsFiniteSet(1..Len(events))
  BY <1>1, FS_Interval
<1>3. T \in SUBSET (1..Len(events))
  BY DEF CountedOf, CountedBy
<1> QED
  BY <1>2, <1>3, FS_Subset, FS_CardinalityType

LEMMA CountedAreFiniteNext ==
  ASSUME EventTypes', NEW store, NEW s, NEW T \in SUBSET CountedOf(store, s)'
  PROVE  IsFiniteSet(T) /\ Cardinality(T) \in Nat
<1>1. Len(events') \in Nat
  BY DEF EventTypes
<1>2. IsFiniteSet(1..Len(events'))
  BY <1>1, FS_Interval
<1>3. T \in SUBSET (1..Len(events'))
  BY DEF CountedOf, CountedBy
<1> QED
  BY <1>2, <1>3, FS_Subset, FS_CardinalityType

LEMMA EventsAreTyped ==
  ASSUME EventTypes, NEW i \in 1..Len(events)
  PROVE  events[i] \in EventType /\ events[i].at \in Nat /\ events[i].at <= second
         /\ events[i].source \in Origins /\ second \in Nat
<1>1. events[i] \in EventType
  BY DEF EventTypes
<1>2. events[i].at \in Nat /\ events[i].source \in Origins
  BY <1>1 DEF EventType
<1>3. second \in Nat
  BY LastSecondAssumption DEF EventTypes
<1> QED
  BY <1>1, <1>2, <1>3 DEF EventTypes

LEMMA ExcusedIsReason ==
  AllExcused <=> RefusedForAReason
<1>1. ASSUME NEW n \in 1..Len(events), NEW k
      PROVE Before(n, k) =
              {i \in Between(events[n].source, events[n].at - k + 1, events[n].at) \cap
                        CountedBy(IF events[n].by = "redis" THEN "redis" ELSE "memory") : i < n}
  BY DEF Before, CountedIn, CountedOf, CountedBy, Between, StoreOf
<1> QED
  BY <1>1 DEF Excused, AllExcused, RefusedForAReason

LEMMA EventsStart == RateInit => EventsInv
<1> SUFFICES ASSUME RateInit PROVE EventsInv
  OBVIOUS
<1>1. events = <<>> /\ Len(events) = 0 /\ second = 1 /\ DOMAIN own = {} /\ up = TRUE /\ enabled = TRUE
      /\ kept.enabled = TRUE /\ upsets = 0
  BY DEF RateInit
<1>2. \A s \in Origins : shared[s] = [stamps |-> {}, until |-> 0]
  BY DEF RateInit, Fresh
<1>3. 0 \in Moments
  BY LimitAssumption, LastSecondAssumption DEF Moments
<1>4. EventTypes
  <2>1. shared \in [Origins -> BucketType]
    BY <1>2, <1>3 DEF RateInit, BucketType, Fresh
  <2>2. events \in Seq(EventType)
    BY <1>1
  <2> QED
    <3>1. second \in 1..LastSecond /\ upsets \in 0..MaxUpsets
      BY <1>1, LastSecondAssumption
    <3>2. {up, enabled, kept.enabled} \subseteq BOOLEAN
      BY <1>1
    <3>3. \A i \in 1..Len(events) : events[i].at <= second
      BY <1>1
    <3>4. DOMAIN own \subseteq Origins
          /\ \A s \in DOMAIN own : own[s] \in [stamps : SUBSET Nat, until : Moments, touched : 1..Len(events)]
      BY <1>1
    <3> QED
      BY <2>1, <2>2, <3>1, <3>2, <3>3, <3>4 DEF EventTypes
<1>5. /\ \A s \in Origins : Truthful("redis", s, shared[s].stamps, shared[s].until)
      /\ \A s \in DOMAIN own : Truthful("memory", s, own[s].stamps, own[s].until)
  BY <1>1, <1>2 DEF Truthful
<1>6. \A s \in Origins : PassedOf(s) = {}
  BY <1>1 DEF PassedOf
<1>7. \A s \in Origins : InWindow(PassedOf(s)) = {} /\ InWindow(shared[s].stamps) = {}
                         /\ \A t \in Nat : PassedIn(s, t, t + Window - 1) = {}
  BY <1>2, <1>6 DEF InWindow, PassedIn
<1>8. RedisKeeps
  BY <1>7, FS_EmptySet, LimitAssumption DEF RedisKeeps, RedisKeepsOf
<1>9. MemoryBounded
  BY <1>1, FS_EmptySet, LimitAssumption DEF MemoryBounded
<1> QED
  BY <1>1, <1>4, <1>5, <1>8, <1>9 DEF EventsInv, RedisSound, MemorySound, AllExcused

\* An event is added to the others, and nothing else of them changes.
LEMMA EventAdded ==
  ASSUME EventTypes, NEW e \in EventType, events' = Append(events, e), e.at = second
  PROVE  /\ events' \in Seq(EventType)
         /\ Number = Len(events) + 1 /\ Len(events') = Number /\ Number \in Nat /\ Len(events) \in Nat
         /\ events'[Number] = e
         /\ \A i \in 1..Len(events) : events'[i] = events[i] /\ i # Number
         /\ 1..Len(events') = (1..Len(events)) \cup {Number}
<1>1. Len(events) \in Nat /\ events \in Seq(EventType)
  BY DEF EventTypes
<1> QED
  BY <1>1 DEF Number

LEMMA CountedGrows ==
  ASSUME EventTypes, NEW e \in EventType, events' = Append(events, e), e.at = second,
         NEW store, NEW s
  PROVE  /\ CountedOf(store, s) \subseteq CountedOf(store, s)'
         /\ CountedOf(store, s)' \subseteq CountedOf(store, s) \cup {Number}
         /\ \A from, to : CountedIn(store, s, from, to) \subseteq CountedIn(store, s, from, to)'
<1>1. CountedBy(store) \subseteq CountedBy(store)' /\ CountedBy(store)' \subseteq CountedBy(store) \cup {Number}
  BY EventAdded DEF CountedBy
<1>2. \A i \in CountedBy(store) : events'[i] = events[i]
  BY EventAdded DEF CountedBy
<1>3. CountedOf(store, s) \subseteq CountedOf(store, s)'
  BY <1>1, <1>2 DEF CountedOf
<1>4. CountedOf(store, s)' \subseteq CountedOf(store, s) \cup {Number}
  BY <1>1, <1>2 DEF CountedOf
<1> QED
  BY <1>2, <1>3, <1>4 DEF CountedIn, CountedOf

\* A bucket that an event leaves alone stays truthful.
LEMMA TruthStays ==
  ASSUME EventTypes, NEW e \in EventType, events' = Append(events, e), e.at = second, second' = second,
         EventTypes', NEW store, NEW s, NEW stamps, NEW until \in Nat, Truthful(store, s, stamps, until)
  PROVE  Truthful(store, s, stamps, until)'
<1>1. stamps \subseteq CountedOf(store, s)'
  BY CountedGrows DEF Truthful
<1>2. PICK from, to : from = until - BlockTime - Window + 1 /\ to = until - BlockTime
  OBVIOUS
<1>3. CountedIn(store, s, from, to) \subseteq CountedIn(store, s, from, to)'
  BY CountedGrows
<1>4. IsFiniteSet(CountedIn(store, s, from, to)')
  <2>1. CountedIn(store, s, from, to)' \subseteq CountedOf(store, s)'
    BY DEF CountedIn
  <2> QED
    BY <2>1, CountedAreFiniteNext
<1>5. until > second => Cardinality(CountedIn(store, s, from, to)) >= Limit
  BY <1>2 DEF Truthful
<1>6. until > second' => Cardinality(CountedIn(store, s, from, to)') >= Limit
  BY <1>3, <1>4, <1>5, FailuresAreFinite, LimitAssumption
<1> QED
  BY <1>1, <1>2, <1>6 DEF Truthful

\* What a store makes of a bucket it does not refuse because of a block: stamps in the
\* window, the event if it passes, and a block if the window is full.
LEMMA TruthMade ==
  ASSUME EventTypes, NEW e \in EventType, events' = Append(events, e), e.at = second, second' = second,
         EventTypes', NEW store, NEW s, NEW bucket \in BucketType, ~Blocked(bucket),
         Truthful(store, s, bucket.stamps, bucket.until),
         Passes(bucket) => Number \in CountedOf(store, s)',
         NEW stamps, stamps \subseteq Counted(bucket),
         NEW until \in Nat,
         until > second => until = second + BlockTime /\ Blocks(bucket)
  PROVE  Truthful(store, s, stamps, until)'
<1>1. Counted(bucket) \subseteq CountedOf(store, s)'
  BY CountedGrows DEF Truthful, Counted, InWindow
<1>2. CASE until <= second
  <2>1. second \in Nat
    BY LastSecondAssumption DEF EventTypes
  <2> QED
    BY <1>1, <1>2, <2>1 DEF Truthful
<1>3. CASE until > second
  <2>1. second \in Nat /\ BlockTime \in Nat /\ Window \in Nat /\ Limit \in Nat
    BY LastSecondAssumption, LimitAssumption DEF EventTypes
  <2>2. PICK from, to : from = until - BlockTime - Window + 1 /\ to = until - BlockTime
    OBVIOUS
  <2>3. from = second - Window + 1 /\ to = second
    BY <1>3, <2>1, <2>2
  <2>4. InWindow(bucket.stamps) \subseteq CountedIn(store, s, from, to)'
    <3> SUFFICES ASSUME NEW i \in InWindow(bucket.stamps) PROVE i \in CountedIn(store, s, from, to)'
      OBVIOUS
    <3>1. i \in CountedOf(store, s) /\ second - events[i].at < Window
      BY DEF InWindow, Age, Truthful
    <3>2. i \in 1..Len(events)
      BY <3>1 DEF CountedOf, CountedBy
    <3>3. events'[i] = events[i] /\ events[i].at \in Nat /\ events[i].at <= second
      BY <3>2, EventAdded, EventsAreTyped
    <3>4. i \in CountedOf(store, s)'
      BY <3>1, CountedGrows
    <3>5. events[i].at \in from..to
      BY <2>1, <2>3, <3>1, <3>3
    <3>6. events'[i].at \in from..to
      BY <3>3, <3>5
    <3> QED
      BY <3>4, <3>6 DEF CountedIn
  <2>5. IsFiniteSet(CountedIn(store, s, from, to)')
    <3>1. CountedIn(store, s, from, to)' \subseteq CountedOf(store, s)'
      BY DEF CountedIn
    <3> QED
      BY <3>1, CountedAreFiniteNext
  <2>6. Cardinality(InWindow(bucket.stamps)) >= Limit
    BY <1>3 DEF Blocks, Full
  <2>7. Cardinality(CountedIn(store, s, from, to)') >= Limit
    BY <2>1, <2>4, <2>5, <2>6, FailuresAreFinite
  <2> QED
    BY <1>1, <2>2, <2>7 DEF Truthful
<1> QED
  <2>1. second \in Nat
    BY LastSecondAssumption DEF EventTypes
  <2> QED
    BY <1>2, <1>3, <2>1

-----------------------------------------------------------------------------
\* The events before an event do not change, nor does its excuse.
LEMMA ExcuseStays ==
  ASSUME EventTypes, NEW e \in EventType, events' = Append(events, e), e.at = second,
         NEW n \in 1..Len(events), Excused(n)
  PROVE  Excused(n)'
<1>1. events'[n] = events[n] /\ Len(events) \in Nat /\ n \in Nat /\ n < Number /\ Number \in Nat
  BY EventAdded
<1>2. StoreOf(n)' = StoreOf(n)
  BY <1>1 DEF StoreOf
<1>3. ASSUME NEW store, NEW s, NEW i, i < n
      PROVE i \in CountedOf(store, s)' <=> i \in CountedOf(store, s)
  <2>1. i \in CountedOf(store, s)' => i # Number
    BY <1>1, <1>3
  <2> QED
    BY <2>1, CountedGrows
<1>4. \A i \in 1..Len(events) : events'[i] = events[i]
  BY EventAdded
<1>5. ASSUME NEW k PROVE Before(n, k)' = Before(n, k)
  <2>1. \A store, s : CountedOf(store, s) \subseteq 1..Len(events)
    BY DEF CountedOf, CountedBy
  <2>2. PICK store, s, from, to : store = StoreOf(n) /\ s = events[n].source
                               /\ from = events[n].at - k + 1 /\ to = events[n].at
    OBVIOUS
  <2>3. Before(n, k) = {i \in CountedIn(store, s, from, to) : i < n}
    BY <2>2 DEF Before
  <2>4. Before(n, k)' = {i \in CountedIn(store, s, from, to)' : i < n}
    BY <1>1, <1>2, <2>2 DEF Before
  <2>5. \A i : i < n => (i \in CountedOf(store, s)' <=> i \in CountedOf(store, s))
    BY <1>3
  <2>6. \A i : i < n => (i \in CountedIn(store, s, from, to)' <=> i \in CountedIn(store, s, from, to))
    BY <1>4, <2>1, <2>5 DEF CountedIn
  <2> QED
    BY <2>3, <2>4, <2>6
<1>6. Before(n, MinGap)' = Before(n, MinGap) /\ Before(n, Window + BlockTime)' = Before(n, Window + BlockTime)
  BY <1>5
<1> QED
  BY <1>1, <1>6 DEF Excused

\* A store that refuses an event has counted the reason.
LEMMA RefusalExcused ==
  ASSUME EventTypes, NEW e \in EventType, events' = Append(events, e), e.at = second, second' = second,
         EventTypes', NEW s \in Origins, e.source = s, NEW bucket \in BucketType,
         NEW store, store = IF e.by = "redis" THEN "redis" ELSE "memory",
         Truthful(store, s, bucket.stamps, bucket.until),
         e.ok <=> Passes(bucket), NEW n, n = Number
  PROVE  Excused(n)'
<1>1. events'[n] = e /\ StoreOf(n)' = store /\ n \in Nat /\ Len(events) \in Nat
      /\ n = Len(events) + 1
  BY EventAdded DEF StoreOf
<1>2. second \in Nat /\ MinGap \in Nat /\ Window \in Nat \ {0} /\ BlockTime \in Nat \ {0} /\ Limit \in Nat \ {0}
  BY LastSecondAssumption, LimitAssumption, MinGapAssumption DEF EventTypes
<1>3. ASSUME NEW k \in Nat, NEW i \in CountedOf(store, s), second - events[i].at < k
      PROVE i \in Before(n, k)'
  <2>1. i \in 1..Len(events) /\ i < n
    BY <1>1, <1>3 DEF CountedOf, CountedBy
  <2>2. events'[i] = events[i] /\ events[i].at \in Nat /\ events[i].at <= second
    BY <2>1, EventAdded, EventsAreTyped
  <2>3. i \in CountedOf(store, s)'
    BY <1>3, CountedGrows
  <2>4. events'[i].at \in (second - k + 1)..second
    BY <1>2, <1>3, <2>2
  <2>5. i \in CountedIn(store, s, second - k + 1, second)'
    BY <2>3, <2>4 DEF CountedIn
  <2> QED
    BY <1>1, <2>1, <2>5 DEF Before
<1>4. \A k : Before(n, k)' \subseteq CountedOf(store, s)'
  BY <1>1 DEF Before, CountedIn
<1>5. PICK long : long = Window + BlockTime
  OBVIOUS
<1>6. IsFiniteSet(Before(n, long)')
  BY <1>4, CountedAreFiniteNext
<1>7. CASE Blocked(bucket)
  <2>1. PICK from, to : from = bucket.until - BlockTime - Window + 1 /\ to = bucket.until - BlockTime
    OBVIOUS
  <2>2. bucket.until > second /\ bucket.until \in Nat
    BY <1>7, LimitAssumption, LastSecondAssumption DEF Blocked, BucketType, Moments
  <2>3. Cardinality(CountedIn(store, s, from, to)) >= Limit
    BY <2>1, <2>2 DEF Truthful
  <2>4. CountedIn(store, s, from, to) \subseteq Before(n, long)'
    <3> SUFFICES ASSUME NEW i \in CountedIn(store, s, from, to) PROVE i \in Before(n, long)'
      OBVIOUS
    <3>1. i \in CountedOf(store, s) /\ events[i].at \in from..to
      BY DEF CountedIn
    <3>2. events[i].at \in Nat
      BY <3>1, EventsAreTyped DEF CountedOf, CountedBy
    <3>3. PICK at \in Nat : at = events[i].at
      BY <3>2
    <3>4. PICK end \in Nat : end = bucket.until /\ end > second
      BY <2>2
    <3>5. at >= end - BlockTime - Window + 1
      BY <1>2, <2>1, <3>1, <3>3, <3>4
    <3>6. second - at < long
      BY <1>2, <1>5, <3>3, <3>4, <3>5
    <3> QED
      BY <1>2, <1>3, <1>5, <3>1, <3>3, <3>6
  <2>5. Cardinality(Before(n, long)') >= Limit
    BY <1>2, <1>6, <2>3, <2>4, FailuresAreFinite
  <2> QED
    BY <1>5, <2>5 DEF Excused
<1>8. CASE ~Blocked(bucket) /\ TooSoon(InWindow(bucket.stamps))
  <2>1. PICK i \in InWindow(bucket.stamps) : Age(i) < MinGap
    BY <1>8 DEF TooSoon
  <2>2. i \in CountedOf(store, s) /\ second - events[i].at < MinGap
    BY <2>1 DEF InWindow, Truthful, Age
  <2>3. i \in Before(n, MinGap)'
    BY <1>2, <1>3, <2>2
  <2> QED
    BY <2>3 DEF Excused
<1>9. CASE Full(InWindow(bucket.stamps))
  <2>1. InWindow(bucket.stamps) \subseteq Before(n, long)'
    <3> SUFFICES ASSUME NEW i \in InWindow(bucket.stamps) PROVE i \in Before(n, long)'
      OBVIOUS
    <3>1. i \in CountedOf(store, s) /\ second - events[i].at < Window
      BY DEF InWindow, Truthful, Age
    <3>2. events[i].at \in Nat
      BY <3>1, EventsAreTyped DEF CountedOf, CountedBy
    <3>3. second - events[i].at < long
      BY <1>2, <1>5, <3>1, <3>2
    <3> QED
      BY <1>2, <1>3, <1>5, <3>1, <3>3
  <2>2. Cardinality(Before(n, long)') >= Limit
    BY <1>2, <1>6, <1>9, <2>1, FailuresAreFinite DEF Full
  <2> QED
    BY <1>5, <2>2 DEF Excused
<1>10. CASE Passes(bucket)
  BY <1>1, <1>10 DEF Excused
<1> QED
  BY <1>7, <1>8, <1>9, <1>10 DEF Passes

-----------------------------------------------------------------------------
\* What Redis keeps of a source after an event: its bucket as it was, if it let nothing of
\* the source through, or what it counted.
LEMMA RedisAfter ==
  ASSUME EventTypes, NEW e \in EventType, events' = Append(events, e), e.at = second, second' = second,
         NEW s \in Origins, RedisKeepsOf(s), shared[s].stamps \subseteq 1..Len(events),
         \/ shared'[s].stamps = shared[s].stamps /\ Number \notin PassedOf(s)'
         \/ shared'[s].stamps = Counted(shared[s]) /\ (Number \in PassedOf(s)' => Passes(shared[s]))
  PROVE  RedisKeepsOf(s)'
<1>1. /\ Len(events) \in Nat /\ Number \in Nat /\ Number = Len(events) + 1 /\ events'[Number] = e
      /\ \A i \in 1..Len(events) : events'[i] = events[i] /\ i # Number
      /\ 1..Len(events') = (1..Len(events)) \cup {Number}
  BY EventAdded
<1>2. second \in Nat /\ Window \in Nat \ {0} /\ Limit \in Nat \ {0}
  BY LastSecondAssumption, LimitAssumption DEF EventTypes
<1>3. PICK n : n = Number
  OBVIOUS
<1>4. PassedOf(s) \subseteq 1..Len(events) /\ PassedOf(s) \subseteq PassedOf(s)'
      /\ PassedOf(s)' \subseteq PassedOf(s) \cup {n}
  BY <1>1, <1>3 DEF PassedOf
<1>5. PICK old : old = InWindow(shared[s].stamps)
  OBVIOUS
<1>6. old \subseteq 1..Len(events) /\ old = {i \in shared[s].stamps : second - events[i].at < Window}
  BY <1>5 DEF InWindow, Age
<1>7. IsFiniteSet(old) /\ Cardinality(old) \in Nat /\ Cardinality(old) <= Limit
  <2>1. IsFiniteSet(1..Len(events))
    BY <1>1, FS_Interval
  <2>2. IsFiniteSet(old) /\ Cardinality(old) \in Nat
    BY <1>6, <2>1, FailuresAreFinite
  <2> QED
    BY <1>5, <2>2 DEF RedisKeepsOf
<1>8. InWindow(PassedOf(s)) \subseteq old
  BY <1>5 DEF RedisKeepsOf, InWindow
<1>9. InWindow(shared[s].stamps)' = {i \in shared'[s].stamps : second - events'[i].at < Window}
  BY DEF InWindow, Age
<1>10. InWindow(PassedOf(s))' = {i \in PassedOf(s)' : second - events'[i].at < Window}
  BY DEF InWindow, Age
<1>11. InWindow(PassedOf(s))' \subseteq InWindow(PassedOf(s)) \cup {n}
  BY <1>1, <1>4, <1>10 DEF InWindow, Age
<1>12. \A i \in old : second - events'[i].at < Window
  BY <1>1, <1>6
<1>13. ASSUME NEW t \in Nat, NEW K, IsFiniteSet(K), Cardinality(K) <= Limit, InWindow(PassedOf(s))' \subseteq K
       PROVE Cardinality(PassedIn(s, t, t + Window - 1)') <= Limit
  <2>1. PICK u : u = t + Window - 1
    OBVIOUS
  <2>2. CASE u < second
    <3>1. n \notin PassedIn(s, t, u)'
      BY <1>1, <1>2, <1>3, <2>1, <2>2 DEF PassedIn
    <3>2. PassedIn(s, t, u)' = PassedIn(s, t, u)
      BY <1>1, <1>4, <3>1 DEF PassedIn, PassedOf
    <3> QED
      BY <2>1, <3>2 DEF RedisKeepsOf
  <2>3. CASE u >= second
    <3>1. PassedIn(s, t, u)' \subseteq InWindow(PassedOf(s))'
      <4> SUFFICES ASSUME NEW i \in PassedIn(s, t, u)' PROVE i \in InWindow(PassedOf(s))'
        OBVIOUS
      <4>1. i \in PassedOf(s)' /\ events'[i].at \in t..u
        BY DEF PassedIn
      <4>2. second - events'[i].at < Window
        <5>1. PICK z : z = events'[i].at
          OBVIOUS
        <5>2. u \in Int
          BY <1>2, <2>1
        <5>3. z \in Int /\ z >= t
          <6>1. z \in t..u
            BY <2>1, <4>1, <5>1
          <6> QED
            BY <1>13, <5>2, <6>1
        <5>4. second - z < Window
          BY <1>2, <2>1, <2>3, <5>3
        <5> QED
          BY <5>1, <5>4
      <4> QED
        BY <1>10, <4>1, <4>2
    <3>2. PassedIn(s, t, u)' \subseteq K
      BY <1>13, <3>1
    <3>3. Cardinality(PassedIn(s, t, u)') <= Cardinality(K) /\ Cardinality(K) \in Nat
          /\ Cardinality(PassedIn(s, t, u)') \in Nat
      BY <1>13, <3>2, FailuresAreFinite
    <3> QED
      BY <1>2, <1>13, <2>1, <3>3
  <2> QED
    BY <1>2, <2>1, <2>2, <2>3
<1>14. CASE shared'[s].stamps = shared[s].stamps /\ n \notin PassedOf(s)'
  <2>1. InWindow(PassedOf(s))' \subseteq old
    <3>1. InWindow(PassedOf(s))' \subseteq InWindow(PassedOf(s))
      BY <1>10, <1>11, <1>14
    <3> QED
      BY <1>8, <3>1
  <2>2. InWindow(shared[s].stamps)' = old
    BY <1>1, <1>6, <1>9, <1>14
  <2>3. old \subseteq shared'[s].stamps
    BY <1>6, <1>14
  <2>4. \A t \in Nat : Cardinality(PassedIn(s, t, t + Window - 1)') <= Limit
    BY <1>7, <1>13, <2>1
  <2> QED
    BY <1>7, <2>1, <2>2, <2>3, <2>4 DEF RedisKeepsOf
<1>15. CASE shared'[s].stamps = Counted(shared[s]) /\ (n \in PassedOf(s)' => Passes(shared[s]))
  <2>1. PICK new : new = IF Passes(shared[s]) THEN old \cup {n} ELSE old
    OBVIOUS
  <2>2. shared'[s].stamps = new
    BY <1>3, <1>5, <1>15, <2>1 DEF Counted
  <2>3. IsFiniteSet(new) /\ Cardinality(new) \in Nat /\ Cardinality(new) <= Limit
    <3>1. CASE Passes(shared[s])
      <4>1. Cardinality(old) < Limit
        BY <1>2, <1>5, <1>7, <3>1 DEF Passes, Full
      <4>2. IsFiniteSet(new) /\ Cardinality(new) <= Cardinality(old) + 1
        <5>1. IsFiniteSet(old \cup {n})
              /\ Cardinality(old \cup {n}) = IF n \in old THEN Cardinality(old) ELSE Cardinality(old) + 1
          BY <1>7, FS_AddElement
        <5>2. new = old \cup {n}
          BY <2>1, <3>1
        <5> QED
          BY <1>7, <5>1, <5>2
      <4>3. Cardinality(new) \in Nat
        BY <4>2, FS_CardinalityType
      <4> QED
        BY <1>2, <1>7, <4>1, <4>2, <4>3
    <3>2. CASE ~Passes(shared[s])
      BY <1>7, <2>1, <3>2
    <3> QED
      BY <3>1, <3>2
  <2>4. InWindow(PassedOf(s))' \subseteq new
    <3>1. CASE Passes(shared[s])
      BY <1>8, <1>11, <2>1, <3>1
    <3>2. CASE ~Passes(shared[s])
      <4>1. n \notin InWindow(PassedOf(s))'
        BY <1>10, <1>15, <3>2
      <4> QED
        BY <1>8, <1>11, <2>1, <3>2, <4>1
    <3> QED
      BY <3>1, <3>2
  <2>5. InWindow(shared[s].stamps)' \subseteq new
    BY <1>9, <2>2
  <2>6. Cardinality(InWindow(shared[s].stamps)') <= Limit
    BY <1>2, <2>3, <2>5, FailuresAreFinite
  <2>7. \A t \in Nat : Cardinality(PassedIn(s, t, t + Window - 1)') <= Limit
    BY <1>13, <2>3, <2>4
  <2> QED
    BY <2>2, <2>4, <2>6, <2>7 DEF RedisKeepsOf
<1> QED
  BY <1>3, <1>14, <1>15

-----------------------------------------------------------------------------
LEMMA LeastNumber ==
  ASSUME NEW T, T \subseteq Nat, T # {}
  PROVE  \E m \in T : \A k \in T : m <= k
<1>1. PICK R : R = {ss \in Nat \X Nat : ss[1] < ss[2]}
  OBVIOUS
<1>2. IsWellFoundedOn(R, Nat)
  BY <1>1, NatLessThanWellFounded DEF OpToRel
<1>3. PICK m \in T : \A k \in T : ~(<<k, m>> \in R)
  BY <1>2, WFMin
<1>4. ASSUME NEW k \in T PROVE m <= k
  <2>1. ~(<<k, m>> \in R) /\ k \in Nat /\ m \in Nat
    BY <1>3
  <2> QED
    BY <1>1, <2>1
<1> QED
  BY <1>4

\* What is left in memory is within the capacity: all that is newer than the oldest bucket
\* left is less than that.
LEMMA TrimmedFit ==
  ASSUME EventTypes, MemoryBounded
  PROVE  Trimmed \subseteq DOMAIN own /\ IsFiniteSet(Trimmed) /\ Cardinality(Trimmed) <= Buckets
<1>1. Aged \subseteq DOMAIN own /\ Trimmed \subseteq Aged /\ IsFiniteSet(DOMAIN own)
  BY DEF Aged, Trimmed, MemoryBounded
<1>2. IsFiniteSet(Trimmed) /\ Buckets \in Nat \ {0}
  BY <1>1, FailuresAreFinite, LimitAssumption
<1>3. CASE Trimmed = {}
  BY <1>1, <1>2, <1>3, FS_EmptySet
<1>4. CASE Trimmed # {}
  <2>1. \A x \in Trimmed : own[x].touched \in Nat
    BY <1>1 DEF EventTypes
  <2>2. PICK T : T = {own[x].touched : x \in Trimmed}
    OBVIOUS
  <2>3. PICK m \in T : \A k \in T : m <= k
    BY <1>4, <2>1, <2>2, LeastNumber
  <2>4. PICK old \in Trimmed : own[old].touched = m
    BY <2>2, <2>3
  <2>5. PICK rest : rest = {x \in Aged : own[x].touched > own[old].touched}
    OBVIOUS
  <2>6. Trimmed \ {old} \subseteq rest
    <3> SUFFICES ASSUME NEW x \in Trimmed, x # old PROVE x \in rest
      OBVIOUS
    <3>1. own[x].touched # own[old].touched
      BY <1>1, <2>4 DEF MemoryBounded
    <3>2. own[x].touched \in Nat /\ m \in Nat /\ m <= own[x].touched
      BY <2>1, <2>2, <2>3
    <3> QED
      BY <1>1, <2>4, <2>5, <3>1, <3>2
  <2>7. Cardinality(rest) < Buckets
    BY <2>4, <2>5 DEF Trimmed
  <2>8. IsFiniteSet(rest)
    BY <1>1, <2>5, FailuresAreFinite
  <2>9. Cardinality(Trimmed \ {old}) <= Cardinality(rest) /\ Cardinality(rest) \in Nat
        /\ Cardinality(Trimmed \ {old}) \in Nat
    BY <2>6, <2>8, FailuresAreFinite
  <2>10. Cardinality(Trimmed \ {old}) = Cardinality(Trimmed) - 1
    <3>1. Cardinality(Trimmed \ {old}) = IF old \in Trimmed THEN Cardinality(Trimmed) - 1
                                         ELSE Cardinality(Trimmed)
      BY <1>2, FS_RemoveElement
    <3> QED
      BY <2>4, <3>1
  <2>11. Cardinality(Trimmed) \in Nat
    BY <1>2, FS_CardinalityType
  <2> QED
    BY <1>1, <1>2, <2>7, <2>9, <2>10, <2>11
<1> QED
  BY <1>3, <1>4

-----------------------------------------------------------------------------
LEMMA RedisIsTyped ==
  ASSUME EventTypes, RedisSound, NEW x \in Origins
  PROVE  shared[x] \in BucketType /\ shared[x].until \in Nat /\ shared[x].stamps \subseteq 1..Len(events)
<1>1. shared[x] \in BucketType
  BY DEF EventTypes
<1>2. shared[x].until \in Nat
  BY <1>1, LimitAssumption, LastSecondAssumption DEF BucketType, Moments
<1>3. shared[x].stamps \subseteq 1..Len(events)
  BY DEF RedisSound, Truthful, CountedOf, CountedBy
<1> QED
  BY <1>1, <1>2, <1>3

\* An event that Redis had no part in.
LEMMA RedisQuiet ==
  ASSUME EventTypes, NEW e \in EventType, events' = Append(events, e), e.at = second, second' = second,
         EventTypes', RedisSound, shared' = shared, e.by # "redis"
  PROVE  RedisSound'
<1>1. ASSUME NEW x \in Origins PROVE Truthful("redis", x, shared[x].stamps, shared[x].until)'
  <2>1. PICK stamps, until : stamps = shared[x].stamps /\ until = shared[x].until
    OBVIOUS
  <2>2. until \in Nat /\ Truthful("redis", x, stamps, until)
    BY <2>1, RedisIsTyped DEF RedisSound
  <2>3. Truthful("redis", x, stamps, until)'
    BY <2>2, TruthStays
  <2> QED
    BY <2>1, <2>3 DEF Truthful
<1>2. ASSUME NEW x \in Origins PROVE RedisKeepsOf(x)'
  <2>1. RedisKeepsOf(x) /\ shared[x].stamps \subseteq 1..Len(events)
    BY RedisIsTyped DEF RedisSound, RedisKeeps
  <2>2. Number \notin PassedOf(x)'
    BY EventAdded DEF PassedOf
  <2>3. shared'[x].stamps = shared[x].stamps
    OBVIOUS
  <2> QED
    BY <2>1, <2>2, <2>3, RedisAfter
<1> QED
  BY <1>1, <1>2 DEF RedisSound, RedisKeeps

\* An event that Redis counted, whether or not its answer arrived.
LEMMA RedisEvent ==
  ASSUME EventTypes, NEW e \in EventType, events' = Append(events, e), e.at = second, second' = second,
         EventTypes', RedisSound, NEW s \in Origins, e.source = s,
         shared' = [shared EXCEPT ![s] = AfterRedis(shared[s])],
         e.by \in {"redis", "both"}, e.by = "redis" => (e.ok <=> Passes(shared[s]))
  PROVE  RedisSound'
<1>1. shared'[s] = AfterRedis(shared[s]) /\ \A x \in Origins \ {s} : shared'[x] = shared[x]
  BY DEF EventTypes
<1>2. second \in Nat /\ BlockTime \in Nat
  BY LimitAssumption, LastSecondAssumption DEF EventTypes
<1>3. PICK n : n = Number
  OBVIOUS
<1>4. n \in 1..Len(events') /\ events'[n] = e
  BY <1>3, EventAdded
<1>5. Passes(shared[s]) => n \in CountedOf("redis", s)'
  BY <1>4 DEF CountedOf, CountedBy
<1>6. \A x \in Origins : n \in PassedOf(x)' => x = s /\ Passes(shared[s])
  BY <1>4 DEF PassedOf
<1>7. Blocked(shared[s]) => ~Passes(shared[s])
  BY DEF Passes
<1>8. ASSUME NEW x \in Origins PROVE Truthful("redis", x, shared[x].stamps, shared[x].until)'
  <2>1. PICK bucket : bucket = shared[x]
    OBVIOUS
  <2>2. bucket \in BucketType /\ bucket.until \in Nat /\ Truthful("redis", x, bucket.stamps, bucket.until)
    BY <2>1, RedisIsTyped DEF RedisSound
  <2>3. CASE shared'[x] = bucket
    <3>1. Truthful("redis", x, bucket.stamps, bucket.until)'
      BY <2>2, TruthStays
    <3> QED
      BY <2>3, <3>1 DEF Truthful
  <2>4. CASE x = s /\ ~Blocked(bucket)
    <3>1. PICK stamps : stamps = Counted(bucket)
      OBVIOUS
    <3>2. PICK until : until = IF Blocks(bucket) THEN second + BlockTime ELSE bucket.until
      OBVIOUS
    <3>3. shared'[x].stamps = stamps /\ shared'[x].until = until
      BY <1>1, <2>1, <2>4, <3>1, <3>2 DEF AfterRedis
    <3>4. until \in Nat /\ (until > second => until = second + BlockTime /\ Blocks(bucket))
      BY <1>2, <2>2, <2>4, <3>2 DEF Blocked
    <3>5. Passes(bucket) => Number \in CountedOf("redis", x)'
      BY <1>3, <1>5, <2>1, <2>4
    <3>6. Truthful("redis", x, stamps, until)'
      BY <2>2, <2>4, <3>1, <3>4, <3>5, TruthMade
    <3> QED
      BY <3>3, <3>6 DEF Truthful
  <2> QED
    BY <1>1, <2>1, <2>3, <2>4 DEF AfterRedis
<1>9. ASSUME NEW x \in Origins PROVE RedisKeepsOf(x)'
  <2>1. RedisKeepsOf(x) /\ shared[x].stamps \subseteq 1..Len(events)
    BY RedisIsTyped DEF RedisSound, RedisKeeps
  <2>2. CASE x # s
    <3>1. shared'[x].stamps = shared[x].stamps /\ Number \notin PassedOf(x)'
      BY <1>1, <1>3, <1>6, <2>2
    <3> QED
      BY <2>1, <3>1, RedisAfter
  <2>3. CASE x = s /\ Blocked(shared[s])
    <3>1. shared'[x].stamps = shared[x].stamps /\ Number \notin PassedOf(x)'
      BY <1>1, <1>3, <1>6, <1>7, <2>3 DEF AfterRedis
    <3> QED
      BY <2>1, <3>1, RedisAfter
  <2>4. CASE x = s /\ ~Blocked(shared[s])
    <3>1. shared'[x].stamps = Counted(shared[x]) /\ (Number \in PassedOf(x)' => Passes(shared[x]))
      BY <1>1, <1>3, <1>6, <2>4 DEF AfterRedis
    <3> QED
      BY <2>1, <3>1, RedisAfter
  <2> QED
    BY <2>2, <2>3, <2>4
<1> QED
  BY <1>8, <1>9 DEF RedisSound, RedisKeeps

-----------------------------------------------------------------------------
LEMMA CountedAreNumbers ==
  ASSUME EventTypes, NEW bucket \in BucketType
  PROVE  Counted(bucket) \in SUBSET Nat /\ (second + BlockTime) \in Moments /\ bucket.until \in Moments
         /\ 0 \in Moments /\ bucket.stamps \in SUBSET Nat
<1>1. bucket.stamps \in SUBSET Nat /\ bucket.until \in Moments
  BY DEF BucketType
<1>2. Len(events) \in Nat
  BY DEF EventTypes
<1>3. Counted(bucket) \in SUBSET Nat
  BY <1>1, <1>2 DEF Counted, InWindow, Number
<1>4. second \in 1..LastSecond /\ BlockTime \in Nat /\ LastSecond \in Nat
  BY LimitAssumption, LastSecondAssumption DEF EventTypes
<1>5. (second + BlockTime) \in Moments /\ 0 \in Moments
  BY <1>4 DEF Moments
<1> QED
  BY <1>1, <1>3, <1>5

LEMMA RedisEventTyped ==
  ASSUME EventTypes, NEW s \in Origins, shared' = [shared EXCEPT ![s] = AfterRedis(shared[s])]
  PROVE  shared' \in [Origins -> BucketType]
<1>1. shared[s] \in BucketType
  BY DEF EventTypes
<1>2. PICK bucket : bucket = AfterRedis(shared[s])
  OBVIOUS
<1>3. bucket \in BucketType
  <2>1. CASE Blocked(shared[s])
    BY <1>1, <1>2, <2>1 DEF AfterRedis
  <2>2. CASE ~Blocked(shared[s])
    <3>1. PICK stamps, until : stamps = Counted(shared[s])
              /\ until = IF Blocks(shared[s]) THEN second + BlockTime ELSE shared[s].until
      OBVIOUS
    <3>2. stamps \in SUBSET Nat /\ until \in Moments
      BY <1>1, <3>1, CountedAreNumbers
    <3>3. bucket = [stamps |-> stamps, until |-> until]
      BY <1>2, <2>2, <3>1 DEF AfterRedis
    <3> QED
      BY <3>2, <3>3 DEF BucketType
  <2> QED
    BY <2>1, <2>2
<1> QED
  BY <1>2, <1>3 DEF EventTypes

LEMMA MemoryBucketIsTyped ==
  ASSUME EventTypes, MemorySound, NEW s \in Origins
  PROVE  MemoryBucket(s) \in BucketType
         /\ Truthful("memory", s, MemoryBucket(s).stamps, MemoryBucket(s).until)
<1>1. CASE s \in Trimmed
  <2>1. s \in DOMAIN own
    BY <1>1, TrimmedFit DEF MemorySound
  <2>2. PICK stamps, until : stamps = own[s].stamps /\ until = own[s].until
    OBVIOUS
  <2>3. MemoryBucket(s) = [stamps |-> stamps, until |-> until]
    BY <1>1, <2>2 DEF MemoryBucket
  <2>4. stamps \in SUBSET Nat /\ until \in Moments
    BY <2>1, <2>2 DEF EventTypes
  <2>5. Truthful("memory", s, stamps, until)
    BY <2>1, <2>2 DEF MemorySound
  <2> QED
    BY <2>3, <2>4, <2>5 DEF BucketType
<1>2. CASE s \notin Trimmed
  <2>1. MemoryBucket(s) = [stamps |-> {}, until |-> 0]
    BY <1>2 DEF MemoryBucket, Fresh
  <2>2. 0 \in Moments /\ second \in Nat /\ ~(0 > second)
    BY LimitAssumption, LastSecondAssumption DEF Moments, EventTypes
  <2> QED
    BY <2>1, <2>2 DEF BucketType, Truthful
<1> QED
  BY <1>1, <1>2

LEMMA MemoryEventTyped ==
  ASSUME EventTypes, MemorySound, NEW e \in EventType, events' = Append(events, e), e.at = second,
         NEW s \in Origins, CountInMemory(s)
  PROVE  /\ DOMAIN own' \subseteq Origins
         /\ \A x \in DOMAIN own' :
              own'[x] \in [stamps : SUBSET Nat, until : Moments, touched : 1..Len(events')]
<1>1. PICK n, bucket : n = Number /\ bucket = AfterMemory(MemoryBucket(s))
  OBVIOUS
<1>2. own' = [x \in Trimmed \cup {s} |->
                IF x = s THEN [stamps |-> bucket.stamps, until |-> bucket.until, touched |-> n] ELSE own[x]]
  BY <1>1 DEF CountInMemory
<1>3. PICK before : before = MemoryBucket(s)
  OBVIOUS
<1>4. before \in BucketType
  BY <1>3, MemoryBucketIsTyped
<1>5. bucket.stamps \in SUBSET Nat /\ bucket.until \in Moments
  <2>1. bucket = IF Blocked(before) THEN before
                 ELSE [stamps |-> IF Blocks(before) THEN {} ELSE Counted(before),
                       until |-> IF Blocks(before) THEN second + BlockTime ELSE 0]
    BY <1>1, <1>3 DEF AfterMemory
  <2> QED
    BY <1>4, <2>1, CountedAreNumbers
<1>6. n \in 1..Len(events') /\ Len(events) \in Nat /\ 1..Len(events) \subseteq 1..Len(events')
  BY <1>1, EventAdded
<1>7. Trimmed \subseteq DOMAIN own
  BY TrimmedFit DEF MemorySound
<1>8. DOMAIN own' = Trimmed \cup {s}
  BY <1>2
<1>9. ASSUME NEW x \in DOMAIN own'
      PROVE own'[x] \in [stamps : SUBSET Nat, until : Moments, touched : 1..Len(events')]
  <2>1. CASE x = s
    <3>1. own'[x] = [stamps |-> bucket.stamps, until |-> bucket.until, touched |-> n]
      BY <1>2, <2>1
    <3> QED
      BY <1>5, <1>6, <3>1
  <2>2. CASE x # s
    <3>1. own'[x] = own[x] /\ x \in DOMAIN own
      BY <1>2, <1>7, <1>8, <2>2
    <3> QED
      BY <1>6, <3>1 DEF EventTypes
  <2> QED
    BY <2>1, <2>2
<1>10. DOMAIN own' \subseteq Origins
  BY <1>7, <1>8 DEF EventTypes
<1> QED
  BY <1>9, <1>10

LEMMA MemoryIsTyped ==
  ASSUME EventTypes, NEW x \in DOMAIN own
  PROVE  own[x].until \in Nat /\ own[x].touched \in 1..Len(events) /\ x \in Origins
<1>1. own[x].until \in Moments /\ own[x].touched \in 1..Len(events) /\ x \in Origins
  BY DEF EventTypes
<1> QED
  BY <1>1, LimitAssumption, LastSecondAssumption DEF Moments

\* An event that the memory had no part in.
LEMMA MemoryQuiet ==
  ASSUME EventTypes, NEW e \in EventType, events' = Append(events, e), e.at = second, second' = second,
         EventTypes', MemorySound, own' = own
  PROVE  MemorySound'
<1>1. ASSUME NEW x \in DOMAIN own PROVE Truthful("memory", x, own[x].stamps, own[x].until)'
  <2>1. PICK stamps, until : stamps = own[x].stamps /\ until = own[x].until
    OBVIOUS
  <2>2. until \in Nat /\ Truthful("memory", x, stamps, until)
    BY <2>1, MemoryIsTyped DEF MemorySound
  <2>3. Truthful("memory", x, stamps, until)'
    BY <2>2, TruthStays
  <2> QED
    BY <2>1, <2>3 DEF Truthful
<1>2. MemoryBounded'
  BY DEF MemorySound, MemoryBounded
<1> QED
  BY <1>1, <1>2 DEF MemorySound

\* An event that the memory counted.
LEMMA MemoryEvent ==
  ASSUME EventTypes, NEW e \in EventType, events' = Append(events, e), e.at = second, second' = second,
         EventTypes', MemorySound, NEW s \in Origins, e.source = s, CountInMemory(s),
         e.by \in {"memory", "both"}, e.ok <=> Passes(MemoryBucket(s))
  PROVE  MemorySound'
<1>1. PICK n, bucket, before : n = Number /\ bucket = AfterMemory(before) /\ before = MemoryBucket(s)
  OBVIOUS
<1>2. own' = [x \in Trimmed \cup {s} |->
                IF x = s THEN [stamps |-> bucket.stamps, until |-> bucket.until, touched |-> n] ELSE own[x]]
  BY <1>1 DEF CountInMemory
<1>3. Trimmed \subseteq DOMAIN own /\ IsFiniteSet(Trimmed) /\ Cardinality(Trimmed) <= Buckets
  BY TrimmedFit DEF MemorySound
<1>4. DOMAIN own' = Trimmed \cup {s}
      /\ own'[s] = [stamps |-> bucket.stamps, until |-> bucket.until, touched |-> n]
      /\ \A x \in DOMAIN own' : x # s => own'[x] = own[x] /\ x \in DOMAIN own
  BY <1>2, <1>3
<1>5. n = Len(events) + 1 /\ Len(events) \in Nat /\ n \in 1..Len(events') /\ events'[n] = e
  BY <1>1, EventAdded
<1>6. second \in Nat /\ BlockTime \in Nat /\ Buckets \in Nat
  BY LimitAssumption, LastSecondAssumption DEF EventTypes
<1>7. before \in BucketType /\ Truthful("memory", s, before.stamps, before.until)
  BY <1>1, MemoryBucketIsTyped
<1>8. Passes(before) => n \in CountedOf("memory", s)'
  BY <1>1, <1>5 DEF CountedOf, CountedBy
<1>9. Truthful("memory", s, bucket.stamps, bucket.until)'
  <2>1. CASE Blocked(before)
    <3>1. bucket = before
      BY <1>1, <2>1 DEF AfterMemory
    <3>2. before.until \in Nat
      BY <1>7, LimitAssumption, LastSecondAssumption DEF BucketType, Moments
    <3> QED
      BY <1>7, <3>1, <3>2, TruthStays
  <2>2. CASE ~Blocked(before)
    <3>1. PICK stamps, until : stamps = (IF Blocks(before) THEN {} ELSE Counted(before))
                               /\ until = (IF Blocks(before) THEN second + BlockTime ELSE 0)
      OBVIOUS
    <3>2. bucket.stamps = stamps /\ bucket.until = until
      BY <1>1, <2>2, <3>1 DEF AfterMemory
    <3>3. until \in Nat /\ stamps \subseteq Counted(before)
          /\ (until > second => until = second + BlockTime /\ Blocks(before))
      BY <1>6, <3>1
    <3>4. Passes(before) => Number \in CountedOf("memory", s)'
      BY <1>1, <1>8
    <3>5. Truthful("memory", s, stamps, until)'
      BY <1>7, <2>2, <3>3, <3>4, TruthMade
    <3> QED
      BY <3>2, <3>5
  <2> QED
    BY <2>1, <2>2
<1>10. ASSUME NEW x \in DOMAIN own' PROVE Truthful("memory", x, own[x].stamps, own[x].until)'
  <2>1. CASE x = s
    <3>1. own'[x].stamps = bucket.stamps /\ own'[x].until = bucket.until
      BY <1>4, <2>1
    <3> QED
      BY <1>9, <2>1, <3>1 DEF Truthful
  <2>2. CASE x # s
    <3>1. PICK stamps, until : stamps = own[x].stamps /\ until = own[x].until
      OBVIOUS
    <3>2. x \in DOMAIN own /\ own'[x].stamps = stamps /\ own'[x].until = until
      BY <1>4, <2>2, <3>1
    <3>3. until \in Nat /\ Truthful("memory", x, stamps, until)
      BY <3>1, <3>2, MemoryIsTyped DEF MemorySound
    <3>4. Truthful("memory", x, stamps, until)'
      BY <3>3, TruthStays
    <3> QED
      BY <3>2, <3>4 DEF Truthful
  <2> QED
    BY <2>1, <2>2
<1>11. MemoryBounded'
  <2>1. ASSUME NEW x \in DOMAIN own', x # s PROVE own'[x].touched # own'[s].touched
    <3>1. own'[x] = own[x] /\ x \in DOMAIN own /\ own'[s].touched = n
      BY <1>4, <2>1
    <3>2. own[x].touched \in 1..Len(events)
      BY <3>1, MemoryIsTyped
    <3> QED
      BY <1>5, <3>1, <3>2
  <2>2. \A x, y \in DOMAIN own' : own'[x].touched = own'[y].touched => x = y
    <3> SUFFICES ASSUME NEW x \in DOMAIN own', NEW y \in DOMAIN own', own'[x].touched = own'[y].touched, x # y
                 PROVE FALSE
      OBVIOUS
    <3>1. x # s /\ y # s
      BY <2>1
    <3>2. own'[x] = own[x] /\ own'[y] = own[y] /\ x \in DOMAIN own /\ y \in DOMAIN own
      BY <1>4, <3>1
    <3> QED
      BY <3>2 DEF MemorySound, MemoryBounded
  <2>3. IsFiniteSet(DOMAIN own') /\ Cardinality(DOMAIN own') <= Buckets + 1
    <3>1. IsFiniteSet(Trimmed \cup {s})
          /\ Cardinality(Trimmed \cup {s}) = IF s \in Trimmed THEN Cardinality(Trimmed)
                                              ELSE Cardinality(Trimmed) + 1
      BY <1>3, FS_AddElement
    <3>2. Cardinality(Trimmed) \in Nat
      BY <1>3, FS_CardinalityType
    <3> QED
      BY <1>3, <1>4, <1>6, <3>1, <3>2
  <2> QED
    BY <2>2, <2>3 DEF MemoryBounded
<1> QED
  BY <1>10, <1>11 DEF MemorySound

-----------------------------------------------------------------------------
LEMMA SettingsAreOnOrOff ==
  ASSUME EventTypes, NEW current \in BOOLEAN
  PROVE  SettingsAt(current).enabled \in BOOLEAN
  BY DEF SettingsAt, EventTypes

\* An event leaves the types right if the stores it leaves are.
LEMMA EventTypesNext ==
  ASSUME EventTypes, NEW e \in EventType, events' = Append(events, e), e.at = second,
         UNCHANGED <<second, up, enabled>>, kept' = SettingsAt(enabled),
         upsets' = upsets \/ Upset,
         shared' \in [Origins -> BucketType], DOMAIN own' \subseteq Origins,
         \A x \in DOMAIN own' : own'[x] \in [stamps : SUBSET Nat, until : Moments, touched : 1..Len(events')]
  PROVE  EventTypes'
<1>1. events' \in Seq(EventType)
  BY EventAdded
<1>2. \A i \in 1..Len(events') : events'[i].at <= second'
  <2> SUFFICES ASSUME NEW i \in 1..Len(events') PROVE events'[i].at <= second'
    OBVIOUS
  <2>1. second \in Nat
    BY LastSecondAssumption DEF EventTypes
  <2>2. CASE i = Number
    BY <2>1, <2>2, EventAdded
  <2>3. CASE i # Number
    BY <2>3, EventAdded DEF EventTypes
  <2> QED
    BY <2>2, <2>3
<1>3. kept'.enabled \in BOOLEAN
  BY SettingsAreOnOrOff DEF EventTypes
<1>4. upsets' \in 0..MaxUpsets
  BY LastSecondAssumption DEF EventTypes, Upset
<1> QED
  BY <1>1, <1>2, <1>3, <1>4 DEF EventTypes

LEMMA OwnIsTyped ==
  ASSUME EventTypes, NEW e \in EventType, events' = Append(events, e), e.at = second, own' = own
  PROVE  /\ DOMAIN own' \subseteq Origins
         /\ \A x \in DOMAIN own' :
              own'[x] \in [stamps : SUBSET Nat, until : Moments, touched : 1..Len(events')]
<1>1. 1..Len(events) \subseteq 1..Len(events')
  BY EventAdded
<1> QED
  BY <1>1 DEF EventTypes

\* The excuses of all events, given that of the last.
LEMMA ExcusesNext ==
  ASSUME EventTypes, NEW e \in EventType, events' = Append(events, e), e.at = second, AllExcused,
         NEW n, n = Number, Excused(n)'
  PROVE  AllExcused'
<1>1. 1..Len(events') = (1..Len(events)) \cup {n}
  BY EventAdded
<1>2. \A i \in 1..Len(events) : Excused(i)'
  BY ExcuseStays DEF AllExcused
<1> QED
  BY <1>1, <1>2 DEF AllExcused

LEMMA PassingIsBoolean == \A bucket : Passes(bucket) \in BOOLEAN
  BY DEF Passes

LEMMA PassUncheckedInv ==
  ASSUME EventsInv, NEW s \in Origins, PassUnchecked(s)
  PROVE  EventsInv'
<1>1. PICK e : e = [source |-> s, at |-> second, by |-> "nobody", ok |-> TRUE]
  OBVIOUS
<1>2. second \in Nat /\ EventTypes
  BY LastSecondAssumption DEF EventsInv, EventTypes
<1>3. e \in EventType /\ e.at = second /\ events' = Append(events, e) /\ e.by # "redis" /\ e.ok
  BY <1>1, <1>2 DEF EventType, PassUnchecked, Note
<1>4. UNCHANGED <<second, shared, own, up, enabled, upsets>> /\ kept' = SettingsAt(enabled)
  BY DEF PassUnchecked
<1>5. shared' \in [Origins -> BucketType]
  BY <1>2, <1>4 DEF EventTypes
<1>6. EventTypes'
  BY <1>2, <1>3, <1>4, <1>5, OwnIsTyped, EventTypesNext
<1>7. RedisSound'
  BY <1>2, <1>3, <1>4, <1>6, RedisQuiet DEF EventsInv
<1>8. MemorySound'
  BY <1>2, <1>3, <1>4, <1>6, MemoryQuiet DEF EventsInv
<1>9. PICK n : n = Number
  OBVIOUS
<1>10. events'[n] = e
  BY <1>2, <1>3, <1>9, EventAdded
<1>11. Excused(n)'
  BY <1>3, <1>10 DEF Excused
<1>12. AllExcused'
  BY <1>2, <1>3, <1>9, <1>11, ExcusesNext DEF EventsInv
<1> QED
  BY <1>6, <1>7, <1>8, <1>12 DEF EventsInv

LEMMA CheckInRedisInv ==
  ASSUME EventsInv, NEW s \in Origins, CheckInRedis(s)
  PROVE  EventsInv'
<1>1. PICK e, bucket, ok : e = [source |-> s, at |-> second, by |-> "redis", ok |-> ok]
                         /\ ok = Passes(bucket) /\ bucket = shared[s]
  OBVIOUS
<1>2. second \in Nat /\ EventTypes /\ RedisSound /\ MemorySound /\ AllExcused
  BY LastSecondAssumption DEF EventsInv, EventTypes
<1>3. ok \in BOOLEAN
  BY <1>1, PassingIsBoolean
<1>4. e \in EventType /\ e.at = second /\ e.source = s /\ e.by = "redis" /\ e.ok = ok
  BY <1>1, <1>2, <1>3 DEF EventType
<1>5. events' = Append(events, e)
  BY <1>1 DEF CheckInRedis, Note
<1>6. UNCHANGED <<second, own, up, enabled, upsets>> /\ kept' = SettingsAt(enabled)
      /\ shared' = [shared EXCEPT ![s] = AfterRedis(shared[s])]
  BY DEF CheckInRedis
<1>7. shared' \in [Origins -> BucketType]
  BY <1>2, <1>6, RedisEventTyped DEF EventTypes
<1>8. DOMAIN own' \subseteq Origins
      /\ \A x \in DOMAIN own' :
           own'[x] \in [stamps : SUBSET Nat, until : Moments, touched : 1..Len(events')]
  BY <1>2, <1>4, <1>5, <1>6, OwnIsTyped
<1>9. EventTypes'
  BY <1>2, <1>4, <1>5, <1>6, <1>7, <1>8, EventTypesNext
<1>10. RedisSound'
  BY <1>1, <1>2, <1>4, <1>5, <1>6, <1>9, RedisEvent
<1>11. MemorySound'
  BY <1>1, <1>2, <1>4, <1>5, <1>6, <1>9, MemoryQuiet
<1>12. bucket \in BucketType /\ Truthful("redis", s, bucket.stamps, bucket.until)
  BY <1>1, <1>2, RedisIsTyped DEF RedisSound
<1>13. PICK n, store : n = Number /\ store = "redis"
  OBVIOUS
<1>14. store = (IF e.by = "redis" THEN "redis" ELSE "memory") /\ (e.ok <=> Passes(bucket))
  BY <1>1, <1>4, <1>13
<1>15. Truthful(store, s, bucket.stamps, bucket.until)
  BY <1>12, <1>13
<1>16. Excused(n)'
  BY <1>2, <1>4, <1>5, <1>6, <1>9, <1>12, <1>13, <1>14, <1>15, RefusalExcused
<1>17. AllExcused'
  BY <1>2, <1>4, <1>5, <1>13, <1>16, ExcusesNext
<1> QED
  BY <1>9, <1>10, <1>11, <1>17 DEF EventsInv

LEMMA CheckInMemoryInv ==
  ASSUME EventsInv, NEW s \in Origins, CheckInMemory(s)
  PROVE  EventsInv'
<1>1. PICK e, bucket, ok : e = [source |-> s, at |-> second, by |-> "memory", ok |-> ok]
                         /\ ok = Passes(bucket) /\ bucket = MemoryBucket(s)
  OBVIOUS
<1>2. second \in Nat /\ EventTypes /\ RedisSound /\ MemorySound /\ AllExcused
  BY LastSecondAssumption DEF EventsInv, EventTypes
<1>3. ok \in BOOLEAN
  BY <1>1, PassingIsBoolean
<1>4. e \in EventType /\ e.at = second /\ e.source = s /\ e.by = "memory" /\ e.ok = ok
  BY <1>1, <1>2, <1>3 DEF EventType
<1>5. events' = Append(events, e)
  BY <1>1 DEF CheckInMemory, Note
<1>6. UNCHANGED <<second, shared, up, enabled, upsets>> /\ kept' = SettingsAt(enabled)
      /\ CountInMemory(s)
  BY DEF CheckInMemory
<1>7. shared' \in [Origins -> BucketType]
  BY <1>2, <1>6 DEF EventTypes
<1>8. DOMAIN own' \subseteq Origins
      /\ \A x \in DOMAIN own' :
           own'[x] \in [stamps : SUBSET Nat, until : Moments, touched : 1..Len(events')]
  BY <1>2, <1>4, <1>5, <1>6, MemoryEventTyped
<1>9. EventTypes'
  BY <1>2, <1>4, <1>5, <1>6, <1>7, <1>8, EventTypesNext
<1>10. RedisSound'
  BY <1>1, <1>2, <1>4, <1>5, <1>6, <1>9, RedisQuiet
<1>11. MemorySound'
  BY <1>1, <1>2, <1>4, <1>5, <1>6, <1>9, MemoryEvent
<1>12. bucket \in BucketType /\ Truthful("memory", s, bucket.stamps, bucket.until)
  BY <1>1, <1>2, MemoryBucketIsTyped
<1>13. PICK n, store : n = Number /\ store = "memory"
  OBVIOUS
<1>14. store = (IF e.by = "redis" THEN "redis" ELSE "memory") /\ (e.ok <=> Passes(bucket))
  BY <1>1, <1>4, <1>13
<1>15. Truthful(store, s, bucket.stamps, bucket.until)
  BY <1>12, <1>13
<1>16. Excused(n)'
  BY <1>2, <1>4, <1>5, <1>6, <1>9, <1>12, <1>13, <1>14, <1>15, RefusalExcused
<1>17. AllExcused'
  BY <1>2, <1>4, <1>5, <1>13, <1>16, ExcusesNext
<1> QED
  BY <1>9, <1>10, <1>11, <1>17 DEF EventsInv

LEMMA CheckInBothInv ==
  ASSUME EventsInv, NEW s \in Origins, CheckInBoth(s)
  PROVE  EventsInv'
<1>1. PICK e, bucket, ok : e = [source |-> s, at |-> second, by |-> "both", ok |-> ok]
                         /\ ok = Passes(bucket) /\ bucket = MemoryBucket(s)
  OBVIOUS
<1>2. second \in Nat /\ EventTypes /\ RedisSound /\ MemorySound /\ AllExcused
  BY LastSecondAssumption DEF EventsInv, EventTypes
<1>3. ok \in BOOLEAN
  BY <1>1, PassingIsBoolean
<1>4. e \in EventType /\ e.at = second /\ e.source = s /\ e.by = "both" /\ e.ok = ok
  BY <1>1, <1>2, <1>3 DEF EventType
<1>5. events' = Append(events, e)
  BY <1>1 DEF CheckInBoth, Note
<1>6. UNCHANGED <<second, up, enabled>> /\ kept' = SettingsAt(enabled)
      /\ shared' = [shared EXCEPT ![s] = AfterRedis(shared[s])]
      /\ CountInMemory(s)
      /\ Upset
  BY DEF CheckInBoth
<1>7. shared' \in [Origins -> BucketType]
  BY <1>2, <1>6, RedisEventTyped DEF EventTypes
<1>8. DOMAIN own' \subseteq Origins
      /\ \A x \in DOMAIN own' :
           own'[x] \in [stamps : SUBSET Nat, until : Moments, touched : 1..Len(events')]
  BY <1>2, <1>4, <1>5, <1>6, MemoryEventTyped
<1>9. EventTypes'
  BY <1>2, <1>4, <1>5, <1>6, <1>7, <1>8, EventTypesNext
<1>10. RedisSound'
  BY <1>1, <1>2, <1>4, <1>5, <1>6, <1>9, RedisEvent
<1>11. MemorySound'
  BY <1>1, <1>2, <1>4, <1>5, <1>6, <1>9, MemoryEvent
<1>12. bucket \in BucketType /\ Truthful("memory", s, bucket.stamps, bucket.until)
  BY <1>1, <1>2, MemoryBucketIsTyped
<1>13. PICK n, store : n = Number /\ store = "memory"
  OBVIOUS
<1>14. store = (IF e.by = "redis" THEN "redis" ELSE "memory") /\ (e.ok <=> Passes(bucket))
  BY <1>1, <1>4, <1>13
<1>15. Truthful(store, s, bucket.stamps, bucket.until)
  BY <1>12, <1>13
<1>16. Excused(n)'
  BY <1>2, <1>4, <1>5, <1>6, <1>9, <1>12, <1>13, <1>14, <1>15, RefusalExcused
<1>17. AllExcused'
  BY <1>2, <1>4, <1>5, <1>13, <1>16, ExcusesNext
<1> QED
  BY <1>9, <1>10, <1>11, <1>17 DEF EventsInv

\* A step of the settings or of Redis, of which no bucket and no event is part.
LEMMA NoEventInv ==
  ASSUME EventsInv, UNCHANGED <<second, shared, own, events>>, {up', enabled', kept'.enabled} \subseteq BOOLEAN,
         upsets' \in 0..MaxUpsets
  PROVE  EventsInv'
<1>1. EventTypes'
  BY DEF EventsInv, EventTypes
<1>2. \A store, s : CountedOf(store, s)' = CountedOf(store, s)
  BY DEF CountedOf, CountedBy, EventsInv
<1>3. \A store, s, from, to : CountedIn(store, s, from, to)' = CountedIn(store, s, from, to)
  BY <1>2 DEF CountedIn, EventsInv
<1>4. RedisKeeps'
  BY DEF RedisKeeps, RedisKeepsOf, InWindow, PassedOf, PassedIn, Age, EventsInv, RedisSound
<1>5. RedisSound'
  BY <1>2, <1>3, <1>4 DEF RedisSound, EventsInv, Truthful
<1>6. MemorySound'
  BY <1>2, <1>3 DEF MemorySound, MemoryBounded, EventsInv, Truthful
<1>7. AllExcused'
  BY <1>3 DEF AllExcused, Excused, Before, StoreOf, EventsInv
<1> QED
  BY <1>1, <1>5, <1>6, <1>7 DEF EventsInv

\* Time passes: windows and blocks only shrink.
LEMMA TickInv ==
  ASSUME EventsInv, Tick
  PROVE  EventsInv'
<1>1. second' = second + 1 /\ second \in Nat /\ LastSecond \in Nat /\ second < LastSecond /\ Window \in Nat
      /\ UNCHANGED <<shared, own, up, enabled, kept, events, upsets>>
  BY LastSecondAssumption, LimitAssumption DEF Tick, EventsInv, EventTypes
<1>2. EventTypes /\ RedisSound /\ MemorySound /\ AllExcused
  BY DEF EventsInv
<1>3. EventTypes'
  <2>1. second' \in 1..LastSecond
    BY <1>1
  <2>2. \A i \in 1..Len(events) : events[i].at <= second'
    BY <1>1, <1>2, EventsAreTyped
  <2> QED
    BY <1>1, <1>2, <2>1, <2>2 DEF EventTypes
<1>4. \A store, s : CountedOf(store, s)' = CountedOf(store, s)
  BY <1>1 DEF CountedOf, CountedBy
<1>5. \A store, s, from, to : CountedIn(store, s, from, to)' = CountedIn(store, s, from, to)
  BY <1>1, <1>4 DEF CountedIn
<1>6. ASSUME NEW store, NEW s, NEW stamps, NEW until \in Nat, Truthful(store, s, stamps, until)
      PROVE Truthful(store, s, stamps, until)'
  <2>1. until > second' => until > second
    BY <1>1
  <2> QED
    BY <1>4, <1>5, <1>6, <2>1 DEF Truthful
<1>7. ASSUME NEW x \in Origins PROVE RedisKeepsOf(x)'
  <2>1. RedisKeepsOf(x) /\ shared[x].stamps \subseteq 1..Len(events) /\ PassedOf(x) \subseteq 1..Len(events)
    BY <1>2, RedisIsTyped DEF RedisSound, RedisKeeps, PassedOf
  <2>2. PassedOf(x)' = PassedOf(x) /\ shared'[x] = shared[x]
    BY <1>1 DEF PassedOf
  <2>3. \A i \in 1..Len(events) : second' - events[i].at < Window => second - events[i].at < Window
    BY <1>1, <1>2, EventsAreTyped
  <2>4. InWindow(PassedOf(x))' = {i \in PassedOf(x) : second' - events[i].at < Window}
    BY <1>1, <2>2 DEF InWindow, Age
  <2>5. InWindow(shared[x].stamps)' = {i \in shared[x].stamps : second' - events[i].at < Window}
    BY <1>1, <2>2 DEF InWindow, Age
  <2>6. InWindow(PassedOf(x))' \subseteq InWindow(PassedOf(x))
    BY <2>1, <2>3, <2>4 DEF InWindow, Age
  <2>7. InWindow(shared[x].stamps)' \subseteq InWindow(shared[x].stamps)
    BY <2>1, <2>3, <2>5 DEF InWindow, Age
  <2>8. InWindow(PassedOf(x))' \subseteq shared'[x].stamps
    BY <2>1, <2>2, <2>6 DEF RedisKeepsOf
  <2>9. Cardinality(InWindow(shared[x].stamps)') <= Limit
    <3>1. PICK old, new : old = InWindow(shared[x].stamps) /\ new = InWindow(shared[x].stamps)'
      OBVIOUS
    <3>2. IsFiniteSet(old)
      <4>1. IsFiniteSet(1..Len(events))
        <5>1. Len(events) \in Nat
          BY <1>2 DEF EventTypes
        <5> QED
          BY <5>1, FS_Interval
      <4>2. old \subseteq 1..Len(events)
        BY <2>1, <3>1 DEF InWindow
      <4> QED
        BY <4>1, <4>2, FailuresAreFinite
    <3>3. Cardinality(new) <= Cardinality(old) /\ Cardinality(old) \in Nat /\ Cardinality(new) \in Nat
      BY <2>7, <3>1, <3>2, FailuresAreFinite
    <3> QED
      BY <2>1, <3>1, <3>3, LimitAssumption DEF RedisKeepsOf
  <2>10. \A t \in Nat : Cardinality(PassedIn(x, t, t + Window - 1)') <= Limit
    BY <1>1, <2>1, <2>2 DEF PassedIn, RedisKeepsOf
  <2> QED
    BY <2>8, <2>9, <2>10 DEF RedisKeepsOf
<1>8. RedisSound'
  <2>1. ASSUME NEW x \in Origins PROVE Truthful("redis", x, shared[x].stamps, shared[x].until)'
    <3>1. PICK stamps, until : stamps = shared[x].stamps /\ until = shared[x].until
      OBVIOUS
    <3>2. Truthful("redis", x, stamps, until)'
      BY <1>2, <1>6, <3>1, RedisIsTyped DEF RedisSound
    <3> QED
      BY <1>1, <3>1, <3>2 DEF Truthful
  <2> QED
    BY <1>7, <2>1 DEF RedisSound, RedisKeeps
<1>9. MemorySound'
  <2>1. ASSUME NEW x \in DOMAIN own PROVE Truthful("memory", x, own[x].stamps, own[x].until)'
    <3>1. PICK stamps, until : stamps = own[x].stamps /\ until = own[x].until
      OBVIOUS
    <3>2. Truthful("memory", x, stamps, until)'
      BY <1>2, <1>6, <3>1, MemoryIsTyped DEF MemorySound
    <3> QED
      BY <1>1, <3>1, <3>2 DEF Truthful
  <2> QED
    BY <1>1, <1>2, <2>1 DEF MemorySound, MemoryBounded
<1>10. AllExcused'
  BY <1>1, <1>2, <1>5 DEF AllExcused, Excused, Before, StoreOf
<1> QED
  BY <1>3, <1>8, <1>9, <1>10 DEF EventsInv

LEMMA EventsStep == EventsInv /\ [RateNext]_rateVars => EventsInv'
<1> SUFFICES ASSUME EventsInv, [RateNext]_rateVars PROVE EventsInv'
  OBVIOUS
<1>1. {up, enabled, kept.enabled} \subseteq BOOLEAN /\ upsets \in 0..MaxUpsets /\ MaxUpsets \in Nat /\ EventTypes
  BY LastSecondAssumption DEF EventsInv, EventTypes
<1>2. CASE UNCHANGED rateVars
  BY <1>1, <1>2, NoEventInv DEF rateVars
<1>3. CASE ReadFails
  <2>1. kept'.enabled \in BOOLEAN
    BY <1>1, <1>3, SettingsAreOnOrOff DEF ReadFails
  <2> QED
    BY <1>1, <1>3, <2>1, NoEventInv DEF ReadFails, Upset
<1>4. CASE EditSettings
  BY <1>1, <1>4, NoEventInv DEF EditSettings, Upset
<1>5. CASE RedisGoes
  <2>1. upsets' \in 0..MaxUpsets
    <3>1. Upset
      BY <1>5 DEF RedisGoes
    <3> QED
      BY <1>1, <3>1 DEF Upset
  <2>2. up' = FALSE /\ enabled' = enabled /\ kept' = kept
    BY <1>5 DEF RedisGoes
  <2>3. {up', enabled', kept'.enabled} \subseteq BOOLEAN
    BY <1>1, <2>2
  <2>4. UNCHANGED <<second, shared, own, events>>
    BY <1>5 DEF RedisGoes
  <2> QED
    BY <2>1, <2>3, <2>4, NoEventInv
<1>6. CASE RedisReturns
  BY <1>1, <1>6, NoEventInv DEF RedisReturns
<1> QED
  BY <1>2, <1>3, <1>4, <1>5, <1>6, PassUncheckedInv, CheckInRedisInv, CheckInMemoryInv, CheckInBothInv, TickInv
     DEF RateNext

LEMMA EventsInvLimits == EventsInv => SpamIsLimited
<1> SUFFICES ASSUME EventsInv PROVE SpamIsLimited
  OBVIOUS
<1>1. RefusedForAReason
  BY ExcusedIsReason DEF EventsInv
<1>2. LimitIsKept
  <2> SUFFICES ASSUME NEW s \in Origins, NEW t \in 1..second
               PROVE Cardinality({i \in Between(s, t, t + Window - 1) :
                                    events[i].by = "redis" /\ events[i].ok}) <= Limit
    BY DEF LimitIsKept
  <2>1. PassedIn(s, t, t + Window - 1) =
          {i \in Between(s, t, t + Window - 1) : events[i].by = "redis" /\ events[i].ok}
    BY DEF PassedIn, PassedOf, Between
  <2>2. Cardinality(PassedIn(s, t, t + Window - 1)) <= Limit
    BY DEF EventsInv, RedisSound, RedisKeeps, RedisKeepsOf
  <2> QED
    BY <2>1, <2>2
<1> QED
  BY <1>1, <1>2 DEF SpamIsLimited

\* Redis never lets more events of a source through within a window than the limit, and
\* both stores refuse an event only right after another that was counted or over a limit
\* used up within a window before a block that has not ended: however blocks, outages,
\* lost answers and evictions fall, for any sources, limits, windows and capacity
\* (cache.py, check_rate_limit).
THEOREM SpamStaysLimited == RateSpec => []SpamIsLimited
<1>1. RateSpec => []EventsInv
  BY EventsStart, EventsStep, PTL DEF RateSpec
<1> QED
  BY <1>1, EventsInvLimits, PTL

-----------------------------------------------------------------------------
\* Both entrances hold their limits and refuse nobody else, whatever else the process is
\* at: the two theorems above, of the specification that a run checks them in.
THEOREM EntrancesStayLimited == DutiesSpec => []EntrancesAreLimited
<1>1. DutiesInit => FailuresInv /\ EventsInv
  BY FailuresStart, EventsStart DEF DutiesInit
<1>2. FailuresInv /\ EventsInv /\ [DutiesNext]_dutiesVars => FailuresInv' /\ EventsInv'
  <2> SUFFICES ASSUME FailuresInv, EventsInv, [DutiesNext]_dutiesVars PROVE FailuresInv' /\ EventsInv'
    OBVIOUS
  <2>1. [SignInNext]_signInVars
    BY DEF DutiesNext, JobNext, GuardNext, dutiesVars, guardVars
  <2>2. [RateNext]_rateVars
    BY DEF DutiesNext, JobNext, GuardNext, dutiesVars, guardVars
  <2> QED
    BY <2>1, <2>2, FailuresStep, EventsStep
<1>3. FailuresInv /\ EventsInv => EntrancesAreLimited
  BY FailuresInvLimits, EventsInvLimits DEF EntrancesAreLimited
<1> QED
  BY <1>1, <1>2, <1>3, PTL DEF DutiesSpec

-----------------------------------------------------------------------------
(***************************************************************************)
(* The types of the duties and guards, side by side.  Those of the jobs    *)
(* are parts of invariants proved for them; the guards need a few more.    *)
(***************************************************************************)

\* Failures are kept only for the addresses in the line, in which each stands once.
InLine ==
  /\ known \in Seq(Addresses) /\ IsInjective(known)
  /\ \A a \in Addresses : loginFailures[a] # {} => a \in ToSet(known)

LEMMA InLineStarts == SignInInit => InLine
  BY DEF SignInInit, InLine, IsInjective

\* A line whose first so many have left.
LEMMA LineMoves ==
  ASSUME NEW line \in Seq(Addresses), IsInjective(line), NEW n \in Nat
  PROVE  LET left == SubSeq(line, n + 1, Len(line))
         IN /\ left \in Seq(Addresses) /\ IsInjective(left)
            /\ ToSet(line) \subseteq ToSet(SubSeq(line, 1, n)) \cup ToSet(left)
<1> DEFINE left == SubSeq(line, n + 1, Len(line))
<1>1. Len(line) \in Nat /\ line \in [1..Len(line) -> Addresses]
  OBVIOUS
<1>2. PICK length \in Nat : length = Len(line)
  BY <1>1
<1>3. /\ left \in Seq(Addresses)
      /\ Len(left) = IF n + 1 <= length THEN length - (n + 1) + 1 ELSE 0
      /\ \A i \in 1..(length - (n + 1) + 1) : left[i] = line[(n + 1) + i - 1]
  <2>1. n + 1 \in Int /\ Len(line) \in Int /\ \A i \in (n + 1)..Len(line) : line[i] \in Addresses
    BY <1>1
  <2> QED
    BY <2>1, <1>2, SubSeqProperties
<1> HIDE DEF left
<1>4. PICK rest \in Nat : rest = Len(left)
  <2>1. left \in Seq(Addresses)
    BY <1>3
  <2>2. Len(left) \in Nat
    BY <2>1
  <2> QED
    BY <2>2
<1>5. rest = IF n + 1 <= length THEN length - (n + 1) + 1 ELSE 0
  BY <1>3, <1>4
<1>6. rest = IF n < length THEN length - n ELSE 0
  BY <1>5
<1>7. ASSUME NEW i \in 1..rest PROVE i + n \in 1..length /\ left[i] = line[i + n]
  <2>1. i \in 1..(length - (n + 1) + 1) /\ (n + 1) + i - 1 = i + n /\ i + n \in 1..length
    BY <1>6
  <2> QED
    BY <2>1, <1>3
<1>8. IsInjective(left)
  <2> SUFFICES ASSUME NEW i \in 1..rest, NEW k \in 1..rest, left[i] = left[k] PROVE i = k
    BY <1>3, <1>4 DEF IsInjective
  <2>1. line[i + n] = line[k + n] /\ i + n \in 1..length /\ k + n \in 1..length
    BY <1>7
  <2>2. i + n = k + n
    BY <2>1, <1>1, <1>2 DEF IsInjective
  <2> QED
    BY <2>2
<1>9. ASSUME NEW i \in 1..length PROVE line[i] \in ToSet(SubSeq(line, 1, n)) \cup ToSet(left)
  <2>1. CASE i <= n
    <3>1. i \in DOMAIN SubSeq(line, 1, n) /\ SubSeq(line, 1, n)[i] = line[i]
      BY <2>1, <1>1, <1>2
    <3> QED
      BY <3>1 DEF ToSet
  <2>2. CASE i > n
    <3>1. PICK k \in 1..rest : k + n = i
      BY <2>2, <1>6, i - n \in 1..rest
    <3>2. line[i] = left[k] /\ k \in DOMAIN left
      BY <3>1, <1>3, <1>4, <1>7
    <3> QED
      BY <3>2 DEF ToSet
  <2> QED
    BY <2>1, <2>2
<1>10. ToSet(line) \subseteq ToSet(SubSeq(line, 1, n)) \cup ToSet(left)
  BY <1>1, <1>2, <1>9 DEF ToSet
<1> QED
  BY <1>3, <1>8, <1>10 DEF left

\* One more at the end.
LEMMA LineGrows ==
  ASSUME NEW line \in Seq(Addresses), IsInjective(line), NEW a \in Addresses, a \notin ToSet(line)
  PROVE  /\ Append(line, a) \in Seq(Addresses) /\ IsInjective(Append(line, a))
         /\ ToSet(Append(line, a)) = ToSet(line) \cup {a}
<1>1. /\ Len(line) \in Nat /\ DOMAIN line = 1..Len(line)
      /\ DOMAIN Append(line, a) = 1..(Len(line) + 1)
      /\ Append(line, a)[Len(line) + 1] = a
      /\ \A i \in 1..Len(line) : Append(line, a)[i] = line[i]
  OBVIOUS
<1>2. \A i \in 1..Len(line) : line[i] # a
  BY <1>1 DEF ToSet
<1>3. IsInjective(Append(line, a))
  BY <1>1, <1>2 DEF IsInjective
<1>4. ToSet(Append(line, a)) = ToSet(line) \cup {a}
  BY <1>1 DEF ToSet
<1> QED
  BY <1>3, <1>4

LEMMA InLineTurnedAway ==
  ASSUME FailureTypes, InLine, NEW g \in Guests, TurnAway(g)
  PROVE  InLine'
<1>1. PICK a \in Addresses : guest[g].from = a
  <2>1. guest[g] \in [at : {"door"}, from : Addresses]
    BY DEF FailureTypes, TurnAway, Away
  <2> QED
    BY <2>1
<1>2. PICK n : n = Forgotten(a)
  OBVIOUS
<1>3. PICK gone : gone = ToSet(SubSeq(known, 1, n))
  OBVIOUS
<1>4. PICK left : left = SubSeq(known, n + 1, Len(known))
  OBVIOUS
<1>5. /\ known' = IF a \in ToSet(left) THEN left ELSE Append(left, a)
      /\ \A x \in Addresses \ {a} :
           loginFailures'[x] = IF x \in gone THEN {} ELSE loginFailures[x]
  BY <1>1, <1>2, <1>3, <1>4 DEF TurnAway
<1>6. n \in Nat
  BY <1>2, FailuresAssumption DEF Forgotten, InLine
<1>7. /\ left \in Seq(Addresses) /\ IsInjective(left)
      /\ ToSet(known) \subseteq gone \cup ToSet(left)
  BY <1>3, <1>4, <1>6, LineMoves DEF InLine
<1>8. known' \in Seq(Addresses) /\ IsInjective(known') /\ ToSet(known') = ToSet(left) \cup {a}
  BY <1>5, <1>7, LineGrows
<1>9. \A x \in Addresses : loginFailures'[x] # {} => x \in ToSet(known')
  BY <1>5, <1>7, <1>8 DEF InLine
<1> QED
  BY <1>8, <1>9 DEF InLine

LEMMA InLineSteps ==
  ASSUME FailureTypes, InLine, [SignInNext]_signInVars
  PROVE  InLine'
<1>1. ASSUME NEW g \in Guests, NEW a \in Addresses, Knock(g, a)
      PROVE InLine'
  BY <1>1 DEF Knock, Recent, InLine, FailureTypes
<1>2. ASSUME NEW g \in Guests, LetIn(g)
      PROVE InLine'
  BY <1>2 DEF LetIn, InLine
<1>3. CASE TimePasses \/ UNCHANGED signInVars
  BY <1>3 DEF TimePasses, signInVars, InLine
<1> QED
  BY <1>1, <1>2, <1>3, InLineTurnedAway DEF SignInNext

LEMMA SignInTypes == FailuresInv /\ InLine => SignInTypeOK
  BY DEF FailuresInv, FailureTypes, InLine, SignInTypeOK

-----------------------------------------------------------------------------
-----------------------------------------------------------------------------
\* One configuration is on, and a request has so many examples at most.
OneOn == \A x, y \in Models : models[x].is = "on" /\ models[y].is = "on" => x = y
FewCited == \A d \in Drafters : Cardinality(draft[d].codes) <= MaxFewShot

LEMMA CodesAreFinite ==
  ASSUME NEW S \in SUBSET Codes, NEW T \in SUBSET S
  PROVE  /\ IsFiniteSet(S) /\ IsFiniteSet(T)
         /\ Cardinality(S) \in Nat /\ Cardinality(T) \in Nat /\ Cardinality(T) <= Cardinality(S)
  BY FewShotAssumption, FS_Subset, FS_CardinalityType

LEMMA FewAreShown ==
  ASSUME NEW tags, NEW few \in FewShots(tags)
  PROVE  Cardinality(few) <= MaxFewShot
<1>1. PICK on \in SUBSET Codes : Cardinality(few) = Min({MaxFewShot, Cardinality(on)})
  BY DEF FewShots
<1>2. PICK n \in Nat : n = Cardinality(on)
  BY CodesAreFinite
<1>3. \E m \in {MaxFewShot, n} : \A k \in {MaxFewShot, n} : m <= k
  BY FewShotAssumption
<1>4. Min({MaxFewShot, n}) <= MaxFewShot
  BY <1>3 DEF Min
<1> QED
  BY <1>1, <1>2, <1>4

LEMMA DraftShapesStart == AiInit => OneOn /\ FewCited
<1> SUFFICES ASSUME AiInit PROVE OneOn /\ FewCited
  OBVIOUS
<1>1. OneOn
  BY DEF AiInit, OneOn
<1>2. \A d \in Drafters : draft[d].codes = {}
  BY DEF AiInit, Idle
<1>3. FewCited
  BY <1>2, FS_EmptySet, FewShotAssumption DEF FewCited
<1> QED
  BY <1>1, <1>3

LEMMA OneOnSteps ==
  ASSUME DraftTypes, OneOn, [AiNext]_aiVars
  PROVE  OneOn'
<1>1. models \in [Models -> ModelRows]
  BY DEF DraftTypes
\* It is enough that a row is on only where it was, or alone.
<1>2. ASSUME \/ \A x \in Models : models'[x].is = "on" => models[x].is = "on"
             \/ \E y \in Models : \A x \in Models : models'[x].is = "on" => x = y
      PROVE OneOn'
  BY <1>2 DEF OneOn
<1>3. ASSUME NEW x \in Models, NEW b \in BOOLEAN, CreateModel(x, b)
      PROVE OneOn'
  <2>1. PICK made : made = [models EXCEPT ![x].is = "off", ![x].key = secret]
    OBVIOUS
  <2>2. models' = IF b THEN OnlyActive(x, made) ELSE made
    BY <1>3, <2>1 DEF CreateModel
  <2>3. \A y \in Models : made[y].is = "on" => models[y].is = "on"
    BY <1>1, <2>1 DEF ModelRows
  <2>4. \A y \in Models : OnlyActive(x, made)[y].is = "on" => y = x
    BY DEF OnlyActive
  <2> QED
    BY <1>2, <2>2, <2>3, <2>4
<1>4. ASSUME NEW x \in Models, Activate(x)
      PROVE OneOn'
  <2>1. \A y \in Models : OnlyActive(x, models)[y].is = "on" => y = x
    BY DEF OnlyActive
  <2>2. \A y \in Models : NoneActive(models)[y].is = "on" => models[y].is = "on"
    BY DEF NoneActive
  <2> QED
    BY <1>2, <1>4, <2>1, <2>2 DEF Activate
<1>5. ASSUME NEW x \in Models, ReplaceKey(x) \/ DeleteModel(x) \/ \E b \in BOOLEAN : TestModel(x, b)
      PROVE OneOn'
  <2>1. CASE ReplaceKey(x)
    BY <1>1, <1>2, <2>1 DEF ReplaceKey, ModelRows
  <2>2. CASE DeleteModel(x)
    BY <1>1, <1>2, <2>2 DEF DeleteModel, ModelRows
  <2>3. ASSUME NEW result, models' = [models EXCEPT ![x] = Tested(@, result)]
        PROVE OneOn'
    BY <1>1, <1>2, <2>3 DEF Tested, ModelRows
  <2> QED
    BY <1>5, <2>1, <2>2, <2>3 DEF TestModel
<1>6. ASSUME NEW d \in Drafters, Save(d)
      PROVE OneOn'
  <2>1. PICK x, n : models' = [models EXCEPT ![x].calls = n] \/ models' = models
    BY <1>6 DEF Save
  <2>2. \A y \in Models : models'[y].is = models[y].is
    BY <1>1, <2>1 DEF ModelRows
  <2> QED
    BY <1>2, <2>2
<1>7. ASSUME UNCHANGED models
      PROVE OneOn'
  BY <1>2, <1>7
<1> QED
  BY <1>3, <1>4, <1>5, <1>6, <1>7
     DEF AiNext, aiVars, CreateCanned, UpdateCanned, DeleteCanned, OnCanned, Ask, ProviderAnswers,
         ProviderFails, Load, Flush, StartsAnew

LEMMA FewCitedSteps ==
  ASSUME DraftTypes, FewCited, [AiNext]_aiVars
  PROVE  FewCited'
<1>1. draft \in [Drafters -> Drafts]
  BY DEF DraftTypes
<1>2. Idle.codes = {} /\ Cardinality({}) <= MaxFewShot
  BY FS_EmptySet, FewShotAssumption DEF Idle
\* It is enough that a request has some of the examples it had.
<1>3. ASSUME NEW d \in Drafters, NEW new, draft' = [draft EXCEPT ![d] = new],
             new.codes \in SUBSET draft[d].codes \/ Cardinality(new.codes) <= MaxFewShot
      PROVE FewCited'
  <2>1. draft[d].codes \in SUBSET Codes
    BY <1>1 DEF Drafts
  <2>2. Cardinality(new.codes) <= MaxFewShot
    <3>1. PICK had \in SUBSET Codes : had = draft[d].codes
      BY <2>1
    <3>2. CASE new.codes \in SUBSET had
      <4>1. Cardinality(new.codes) \in Nat /\ Cardinality(had) \in Nat /\ Cardinality(new.codes) <= Cardinality(had)
        BY <3>2, CodesAreFinite
      <4>2. Cardinality(had) <= MaxFewShot
        BY <3>1 DEF FewCited
      <4> QED
        BY <4>1, <4>2, FewShotAssumption
    <3> QED
      BY <1>3, <3>1, <3>2
  <2> QED
    BY <1>1, <1>3, <2>2 DEF FewCited
<1>4. ASSUME NEW d \in Drafters, NEW tags \in SUBSET Topics, Ask(d, tags)
      PROVE FewCited'
  <2>1. PICK x \in Models, few \in FewShots(tags) :
          draft' = [draft EXCEPT ![d].at = "waiting", ![d].by = x, ![d].codes = few]
    BY <1>4 DEF Ask
  <2>2. PICK new : new = [draft[d] EXCEPT !.at = "waiting", !.by = x, !.codes = few]
    OBVIOUS
  <2>3. draft' = [draft EXCEPT ![d] = new] /\ new.codes = few
    BY <1>1, <2>1, <2>2 DEF Drafts
  <2> QED
    BY <1>3, <2>3, FewAreShown
<1>5. ASSUME NEW d \in Drafters, ProviderAnswers(d) \/ Load(d) \/ Flush(d)
      PROVE FewCited'
  <2>1. \E new : draft' = [draft EXCEPT ![d] = new] /\ new.codes \in SUBSET draft[d].codes
    <3>1. PICK old \in Drafts : draft[d] = old
      BY <1>1
    <3>2. \A at, calls : [old EXCEPT !.at = at].codes = old.codes
                       /\ [old EXCEPT !.at = at, !.calls = calls].codes = old.codes
      BY DEF Drafts
    <3>3. CASE ProviderAnswers(d)
      <4>1. draft' = [draft EXCEPT ![d] = [old EXCEPT !.at = "answered"]]
        BY <1>1, <3>1, <3>3 DEF ProviderAnswers
      <4> QED
        BY <3>1, <3>2, <4>1
    <3>4. CASE Load(d)
      <4>1. \/ draft' = [draft EXCEPT ![d] = [old EXCEPT !.at = "skipped"]]
            \/ draft' = [draft EXCEPT ![d] = [old EXCEPT !.at = "loaded", !.calls = models[old.by].calls]]
        BY <1>1, <3>1, <3>4 DEF Load
      <4>2. PICK n : n = models[old.by].calls
        OBVIOUS
      <4>3. [old EXCEPT !.at = "skipped"].codes = old.codes
            /\ [old EXCEPT !.at = "loaded", !.calls = n].codes = old.codes
        BY <3>2
      <4> QED
        BY <3>1, <4>1, <4>2, <4>3
    <3>5. CASE Flush(d)
      <4>1. CASE draft' = [draft EXCEPT ![d] = Idle]
        BY <1>2, <4>1
      <4>2. CASE draft' # [draft EXCEPT ![d] = Idle]
        <5> DEFINE left == {k \in old.codes : canned[k].is # "none"}
                   uses == [k \in Codes |-> canned[k].uses]
                   now == IF old.at = "loaded" THEN "flushed" ELSE "closing"
                   new == [old EXCEPT !.uses = uses, !.at = now, !.codes = left]
        <5>1. draft' = [draft EXCEPT ![d] = new]
          BY <1>1, <3>1, <3>5, <4>2 DEF Flush
        <5> HIDE DEF left, uses, now
        <5>2. new.codes = left
          BY DEF Drafts
        <5>3. left \in SUBSET old.codes
          BY DEF left
        <5> QED
          BY <3>1, <5>1, <5>2, <5>3
      <4> QED
        BY <4>1, <4>2
    <3> QED
      BY <1>5, <3>3, <3>4, <3>5
  <2> QED
    BY <1>3, <2>1
<1>6. ASSUME NEW d \in Drafters, ProviderFails(d) \/ Save(d)
      PROVE FewCited'
  BY <1>2, <1>3, <1>6 DEF ProviderFails, Save
<1>7. ASSUME NEW s \in Secrets, StartsAnew(s)
      PROVE FewCited'
  BY <1>2, <1>7 DEF StartsAnew, FewCited
<1>8. ASSUME UNCHANGED draft
      PROVE FewCited'
  BY <1>8 DEF FewCited
<1> QED
  BY <1>4, <1>5, <1>6, <1>7, <1>8
     DEF AiNext, aiVars, CreateModel, TestModel, ReplaceKey, Activate, DeleteModel, OnModels,
         CreateCanned, UpdateCanned, DeleteCanned, OnCanned

LEMMA DraftShapesTypes == DraftsInv /\ OneOn /\ FewCited => AiTypeOK
  BY DEF DraftsInv, DraftTypes, OneOn, FewCited, ModelRows, CannedRows, Drafts, AiTypeOK

-----------------------------------------------------------------------------
\* What is in a bucket was counted, so a stamp is the number of an event.
LEMMA EventsInvTypes == EventsInv => RateTypeOK
<1> SUFFICES ASSUME EventsInv PROVE RateTypeOK
  OBVIOUS
<1>1. EventTypes /\ RedisSound /\ MemorySound
  BY DEF EventsInv
<1>2. \A store, s : CountedOf(store, s) \subseteq 1..Len(events)
  BY DEF CountedOf, CountedBy
<1>3. \A s \in Origins : shared[s] \in BucketType /\ shared[s].stamps \subseteq 1..Len(events)
  BY <1>1, <1>2 DEF EventTypes, RedisSound, Truthful
<1>4. shared \in [Origins -> [stamps : Stamps, until : Moments]]
  BY <1>1, <1>3 DEF EventTypes, BucketType, Stamps
<1>5. \A s \in DOMAIN own : own[s].stamps \subseteq 1..Len(events)
  BY <1>1, <1>2 DEF MemorySound, Truthful
<1>6. \A s \in DOMAIN own : own[s] \in [stamps : Stamps, until : Moments, touched : 1..Len(events)]
  BY <1>1, <1>5 DEF EventTypes, Stamps
<1> QED
  BY <1>1, <1>4, <1>6 DEF EventTypes, MemorySound, MemoryBounded, RateTypeOK

\* What is kept of each duty and guard.
JobsInv == BreakerInv /\ LeaderInv /\ BroadcastInv /\ IInv
GuardsInv ==
  /\ EventsInv /\ FailuresInv /\ InLine
  /\ AdminShapes
  /\ DraftsInv /\ OneOn /\ FewCited

LEMMA JobsSteps == JobsInv /\ [DutiesNext]_dutiesVars => JobsInv'
<1> SUFFICES ASSUME JobsInv, [DutiesNext]_dutiesVars PROVE JobsInv'
  OBVIOUS
<1>1. /\ [BreakerNext]_breakerVars /\ [LeaderNext]_leaderVars
      /\ [BroadcastNext]_broadcastVars /\ [OutboxNext]_outboxVars
  BY DEF DutiesNext, JobNext, GuardNext, dutiesVars, jobVars
<1> QED
  BY <1>1, BreakerSteps, LeaderSteps, BroadcastSteps, NextInv DEF JobsInv

LEMMA GuardsSteps == GuardsInv /\ [DutiesNext]_dutiesVars => GuardsInv'
<1> SUFFICES ASSUME GuardsInv, [DutiesNext]_dutiesVars PROVE GuardsInv'
  OBVIOUS
<1>1. /\ [RateNext]_rateVars /\ [SignInNext]_signInVars
      /\ [AdminsNext]_adminVars /\ [AiNext]_aiVars
  BY DEF DutiesNext, JobNext, GuardNext, dutiesVars, guardVars
<1>2. FailureTypes /\ DraftTypes
  BY DEF GuardsInv, FailuresInv, DraftsInv
<1> QED
  BY <1>1, <1>2, EventsStep, FailuresStep, InLineSteps, AdminShapesSteps, DraftsStep, OneOnSteps,
     FewCitedSteps DEF GuardsInv

\* The breaker, the lock of the leader, broadcasts, the outbox, the buckets of both
\* entrances, the accounts of the console and the drafts keep their types, for any
\* constants, and however requests overlap; in particular a running broadcast
\* has one sender, a failed sign-in is remembered only for an address that may still be
\* forgotten (routes.py, _login_failures), the memory keeps at most one bucket too many
\* (cache.py), and at most one language model is active (LLMConfigRepository.set_active).
THEOREM DutiesTypeCorrect == DutiesSpec => []DutiesTypeOK
<1>1. DutiesInit => JobsInv /\ GuardsInv
  BY BreakerStarts, LeaderStarts, BroadcastStarts, InitInv, EventsStart, FailuresStart, InLineStarts,
     AdminShapesStart, DraftsStart, DraftShapesStart DEF DutiesInit, JobsInv, GuardsInv
<1>2. JobsInv => BreakerTypeOK /\ LeaderTypeOK /\ BroadcastTypeOK /\ OutboxTypeOK
  BY BroadcastInvTypes DEF JobsInv, BreakerInv, LeaderInv, IInv
<1>3. GuardsInv => RateTypeOK /\ SignInTypeOK /\ AdminsTypeOK /\ AiTypeOK
  BY EventsInvTypes, SignInTypes, AdminShapesTypes, DraftShapesTypes DEF GuardsInv
<1>4. JobsInv /\ GuardsInv => DutiesTypeOK
  BY <1>2, <1>3 DEF DutiesTypeOK
<1> QED
  BY <1>1, <1>4, JobsSteps, GuardsSteps, PTL DEF DutiesSpec
=============================================================================
