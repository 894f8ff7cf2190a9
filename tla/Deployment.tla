----------------------------- MODULE Deployment -----------------------------
(***************************************************************************)
(* The files the console writes for Marzban: the page of a subscription,   *)
(* rendered from the settings, the managed lines of the env file, and the  *)
(* geodata.  Each is copied to a backup named by the second, replaced at   *)
(* once, and the page is put back if what follows fails.  Nothing excludes *)
(* two requests.  A content is what two parts of a file say, of which only *)
(* those of the env file are edited one by one.                            *)
(***************************************************************************)
EXTENDS Integers, Sequences, FiniteSets, SequencesExt

CONSTANTS Files,          \* among "page", "env" and "geo"
          Deployers,      \* requests at once
          Values, Broken, \* of a part, and what a bad download makes of it
          NoFile,
          RestartCommand, \* Marzban is restarted after its page is written
          KeepCount,      \* backup_keep_count
          LastStamp, MaxDeploys  \* bounds

ASSUME KeepAssumption == KeepCount \in Nat \ {0}
ASSUME FilesAssumption ==
  Files \subseteq {"page", "env", "geo"} /\ Values # {} /\ Broken \notin Values
ASSUME DeployBoundsAssumption == LastStamp \in Nat \ {0} /\ MaxDeploys \in Nat

Parts == {1, 2}
Contents == [Parts -> Values \cup {Broken}]
Blank == [p \in Parts |-> CHOOSE v \in Values : TRUE]

VARIABLES about,        \* the file a behaviour is about: they share nothing
          stamp,        \* the second
          live,         \* the files
          backups,      \* [file, stamp] -> [content, age]
          pageSettings, \* marzban_page_settings
          upstream,     \* the geodata that is published
          request,      \* a request: [at, file, new, parts, copy, sum]
          wanted,       \* what the last request that succeeded made of a file
          replaced,     \* the contents a request replaced, the latest last
          crossed,      \* files two requests worked on at once, or one left half done
          hasty,        \* files with two backups in one second
          wasted,       \* the geodata was copied and not replaced
          unchecked,    \* the geodata came without a checksum
          deploys

deployVars == <<about, stamp, live, backups, pageSettings, upstream, request, wanted, replaced,
                crossed, hasty, wasted, unchecked, deploys>>

NoRequest == [at |-> "none", file |-> "page", new |-> Blank, parts |-> {}, copy |-> 0, sum |-> NoFile]

\* A file is there, or is yet to be written.
DeployInit ==
  /\ about \in Files
  /\ stamp = 1
  /\ live \in [Files -> {Blank, NoFile}] /\ \A f \in Files \ {about} : live[f] = Blank
  /\ backups = <<>>
  /\ pageSettings = Blank /\ upstream = Blank
  /\ request = [j \in Deployers |-> NoRequest]
  /\ wanted = live
  /\ replaced = [f \in Files |-> <<>>]
  /\ crossed = {} /\ hasty = {}
  /\ wasted = FALSE /\ unchecked = FALSE
  /\ deploys = 0

Busy(f) == {j \in Deployers : request[j].at # "none" /\ request[j].file = f}

\* A request begins with what it read.
Begin(j, record) ==
  /\ request[j] = NoRequest /\ record.file = about
  /\ deploys < MaxDeploys /\ deploys' = deploys + 1
  /\ request' = [request EXCEPT ![j] = record]
  /\ crossed' = IF Busy(record.file) = {} THEN crossed ELSE crossed \cup {record.file}
  /\ UNCHANGED <<about, stamp, live, backups, pageSettings, upstream, wanted, replaced, hasty,
                 wasted, unchecked>>

EndRequest(j) == request' = [request EXCEPT ![j] = NoRequest]

-----------------------------------------------------------------------------
(* What a request means to write.                                          *)

\* admin_marzban_page_apply renders the page in one transaction.
ApplyPage(j) == Begin(j, [NoRequest EXCEPT !.at = "ready", !.new = pageSettings, !.parts = Parts])

\* apply_updates edits the lines it read, and keeps the others; a mutant writes
\* the form alone.
FormAlone(read, parts, v) == [p \in Parts |-> IF p \in parts THEN v ELSE Blank[p]]
Edited(read, parts, v) == [p \in Parts |-> IF p \in parts THEN v ELSE read[p]]

EditEnv(j, parts, v) ==
  /\ about = "env"
  /\ LET new == Edited(IF live["env"] = NoFile THEN Blank ELSE live["env"], parts, v)
     IN /\ new # live["env"]
        /\ Begin(j, [NoRequest EXCEPT !.at = "ready", !.file = "env", !.new = new, !.parts = parts])

\* _update_one asks for the checksum, which may fail, and compares the file.
AskGeodata(j, force, answered) ==
  /\ about = "geo"
  /\ ~(~force /\ answered /\ live["geo"] = upstream)
  /\ Begin(j, [NoRequest EXCEPT !.at = "asking", !.file = "geo", !.parts = Parts,
                            !.sum = IF answered THEN upstream ELSE NoFile])

\* The download, whole or not, must have the checksum if there is one; a mutant
\* does not look.
AnySum(sum, download) == TRUE
SumAgrees(sum, download) == sum = NoFile \/ sum = download

Download(j, whole) ==
  /\ request[j].at = "asking"
  /\ LET download == IF whole THEN upstream ELSE [upstream EXCEPT ![2] = Broken]
     IN IF SumAgrees(request[j].sum, download)
          THEN request' = [request EXCEPT ![j].at = "ready", ![j].new = download]
          ELSE EndRequest(j)
  /\ UNCHANGED <<about, stamp, live, backups, pageSettings, upstream, wanted, replaced, crossed,
                 hasty, wasted, unchecked, deploys>>

-----------------------------------------------------------------------------
(* Backup, replacement, and what follows.                                  *)

\* A copy keeps the time of the original, so its age is that of the content.
BackUp(j) ==
  /\ request[j].at = "ready"
  /\ LET f == request[j].file
         name == <<f, stamp>>
     IN IF live[f] = NoFile
          THEN /\ request' = [request EXCEPT ![j].at = "backed"]
               /\ UNCHANGED <<backups, hasty>>
          ELSE /\ backups' = [b \in DOMAIN backups \cup {name} |->
                                IF b = name THEN [content |-> live[f], age |-> Len(replaced[f])]
                                ELSE backups[b]]
               /\ hasty' = IF name \in DOMAIN backups THEN hasty \cup {f} ELSE hasty
               /\ request' = [request EXCEPT ![j].at = "backed", ![j].copy = stamp]
  /\ UNCHANGED <<about, stamp, live, pageSettings, upstream, wanted, replaced, crossed, wasted,
                 unchecked, deploys>>

Replace(j) ==
  /\ request[j].at = "backed"
  /\ LET f == request[j].file
     IN /\ replaced' = IF live[f] = NoFile THEN replaced ELSE [replaced EXCEPT ![f] = Append(@, live[f])]
        /\ live' = [live EXCEPT ![f] = request[j].new]
        /\ unchecked' = IF f = "geo" THEN request[j].sum = NoFile ELSE unchecked
  /\ request' = [request EXCEPT ![j].at = "written"]
  /\ UNCHANGED <<about, stamp, backups, pageSettings, upstream, wanted, crossed, hasty, wasted,
                 deploys>>

\* The disk is full: the old file stays.
ReplaceFails(j) ==
  /\ request[j].at = "backed"
  /\ request[j].file # "page"
  /\ wasted' = (wasted \/ (request[j].file = "geo" /\ request[j].copy # 0))
  /\ EndRequest(j)
  /\ UNCHANGED <<about, stamp, live, backups, pageSettings, upstream, wanted, replaced, crossed,
                 hasty, unchecked, deploys>>

\* _prune_backups keeps the latest contents, whichever come first of those of one
\* time; a mutant keeps the names that come first.
GeoBackups == {b \in DOMAIN backups : b[1] = "geo"}
FirstNames(kept) == \A b \in kept, c \in GeoBackups \ kept : b[2] < c[2]
Latest(kept) == \A b \in kept, c \in GeoBackups \ kept : backups[b].age >= backups[c].age

Prunings == {kept \in SUBSET GeoBackups :
               /\ Cardinality(kept) <= KeepCount
               /\ kept # GeoBackups => Cardinality(kept) = KeepCount
               /\ Latest(kept)}

Succeed(j) ==
  /\ request[j].at = "written"
  /\ LET f == request[j].file
     IN /\ \E kept \in Prunings :
             backups' = IF f # "geo" THEN backups
                        ELSE [b \in kept \cup (DOMAIN backups \ GeoBackups) |-> backups[b]]
        /\ wanted' = [wanted EXCEPT ![f] =
             [p \in Parts |-> IF p \in request[j].parts THEN request[j].new[p]
                              ELSE IF @ = NoFile THEN Blank[p] ELSE @[p]]]
  /\ EndRequest(j)
  /\ UNCHANGED <<about, stamp, live, pageSettings, upstream, replaced, crossed, hasty, wasted,
                 unchecked, deploys>>

\* _do_rollback: from the backup if there is one, and otherwise the page goes; a
\* mutant only takes away what was written.
TakenAway(j) == NoFile
PutBack(j) ==
  IF request[j].copy # 0 THEN backups[<<"page", request[j].copy>>].content ELSE NoFile

\* The page could not be written, or Marzban did not start again.
PagePutBack(j) ==
  /\ request[j].file = "page"
  /\ request[j].at = "backed" \/ (RestartCommand /\ request[j].at = "written")
  /\ live' = [live EXCEPT !["page"] = PutBack(j)]
  /\ EndRequest(j)
  /\ UNCHANGED <<about, stamp, backups, pageSettings, upstream, wanted, replaced, crossed, hasty,
                 wasted, unchecked, deploys>>

\* "Best-effort": the rollback fails too, and is only logged.
PageStays(j) ==
  /\ RestartCommand
  /\ request[j].file = "page" /\ request[j].at = "written"
  /\ crossed' = crossed \cup {"page"}
  /\ EndRequest(j)
  /\ UNCHANGED <<about, stamp, live, backups, pageSettings, upstream, wanted, replaced, hasty,
                 wasted, unchecked, deploys>>

-----------------------------------------------------------------------------
SavePage(p, v) ==
  /\ about = "page"
  /\ pageSettings[p] # v
  /\ deploys < MaxDeploys /\ deploys' = deploys + 1
  /\ pageSettings' = [pageSettings EXCEPT ![p] = v]
  /\ UNCHANGED <<about, stamp, live, backups, upstream, request, wanted, replaced, crossed, hasty,
                 wasted, unchecked>>

Publish(v) ==
  /\ about = "geo"
  /\ upstream # [p \in Parts |-> v]
  /\ deploys < MaxDeploys /\ deploys' = deploys + 1
  /\ upstream' = [p \in Parts |-> v]
  /\ UNCHANGED <<about, stamp, live, backups, pageSettings, request, wanted, replaced, crossed,
                 hasty, wasted, unchecked>>

\* The process dies between two steps.
ConsoleDies ==
  /\ \E j \in Deployers : request[j] # NoRequest
  /\ crossed' = crossed \cup {f \in Files : \E j \in Busy(f) : request[j].at = "written"}
  /\ wasted' = (wasted \/ \E j \in Busy("geo") : request[j].at = "backed" /\ request[j].copy # 0)
  /\ request' = [j \in Deployers |-> NoRequest]
  /\ UNCHANGED <<about, stamp, live, backups, pageSettings, upstream, wanted, replaced, hasty,
                 unchecked, deploys>>

ASecondPasses ==
  /\ stamp < LastStamp /\ stamp' = stamp + 1
  /\ UNCHANGED <<about, live, backups, pageSettings, upstream, request, wanted, replaced, crossed,
                 hasty, wasted, unchecked, deploys>>

DeployNext ==
  \/ \E j \in Deployers :
       \/ ApplyPage(j)
       \/ \E parts \in SUBSET Parts \ {{}}, v \in Values : EditEnv(j, parts, v)
       \/ \E force, answered \in BOOLEAN : AskGeodata(j, force, answered)
       \/ \E whole \in BOOLEAN : Download(j, whole)
       \/ BackUp(j) \/ Replace(j) \/ ReplaceFails(j) \/ Succeed(j) \/ PagePutBack(j) \/ PageStays(j)
  \/ \E v \in Values : Publish(v) \/ (\E p \in Parts : SavePage(p, v))
  \/ ConsoleDies \/ ASecondPasses

DeploySpec == DeployInit /\ [][DeployNext]_deployVars

-----------------------------------------------------------------------------
\* Files, backups and requests are well-formed.
DeployTypeOK ==
  /\ live \in [Files -> Contents \cup {NoFile}]
  /\ \A b \in DOMAIN backups : b \in Files \X (1..LastStamp) /\ backups[b].content \in Contents
  /\ pageSettings \in [Parts -> Values]
  /\ \A j \in Deployers : request[j].at \in {"none", "asking", "ready", "backed", "written"}
  /\ crossed \cup hasty \subseteq Files

\* A file that nobody works on says what the last request that succeeded meant,
\* parts that others had edited included: a request that failed, at any step, has
\* left nothing (routes.py, admin_marzban_page_apply), unless two crossed.
FailureLeavesNothing ==
  \A f \in Files \ crossed : Busy(f) = {} => live[f] = wanted[f]

\* What a request replaced is in a backup, for the geodata the latest contents, or
\* the last of them if one was copied in vain, unless two crossed or two came in
\* one second and took the same name.
WhatWasReplacedIsKept ==
  \A f \in Files \ (crossed \cup hasty) :
    LET n == Len(replaced[f])
        kept == IF f # "geo" THEN n ELSE IF wasted THEN 1 ELSE KeepCount
    IN \A i \in 1..n : i > n - kept => \E b \in DOMAIN backups : b[1] = f /\ backups[b].content = replaced[f][i]

\* Geodata that came with a checksum is whole, whatever is published meanwhile.
CheckedIsWhole ==
  "geo" \in Files => live["geo"] = NoFile \/ unchecked \/ live["geo"][2] # Broken

\* The three of them.
DeploymentIsSafe == FailureLeavesNothing /\ WhatWasReplacedIsKept /\ CheckedIsWhole
=============================================================================
