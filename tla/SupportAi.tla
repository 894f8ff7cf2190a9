----------------------------- MODULE SupportAi -----------------------------
(***************************************************************************)
(* Drafts of answers to tickets: the configurations of language models, of *)
(* which one is active, the canned responses that serve as examples, and   *)
(* the requests that read both, wait for the provider, and only then, in a *)
(* transaction of their own and without locks, count the usage.  A page of *)
(* the console is one step.                                                *)
(***************************************************************************)
EXTENDS Naturals, FiniteSets, FiniteSetsExt

CONSTANTS Models,        \* ids of configurations
          Codes, Topics, \* of canned responses, and their tags
          MaxFewShot,    \* _MAX_FEW_SHOT
          Drafters,      \* requests at once
          Secrets,       \* values of LLM_SECRETS_KEY
          MaxAnswers, MaxPages  \* bounds

ASSUME FewShotAssumption == MaxFewShot \in Nat /\ IsFiniteSet(Codes)
ASSUME RequestsAssumption == Models # {} /\ Secrets # {} /\ IsFiniteSet(Drafters)

VARIABLES models,    \* llm_configs: [is, key, calls, test]
          canned,    \* canned_responses: [is, tags, uses]
          secret,    \* the key of this process
          draft,     \* a request: [at, by, codes, calls, uses]
          answered,  \* answers the provider gave for a configuration
          unsaved,   \* those among them that were never counted
          crossed,   \* configurations whose count two requests had read at once
          cited,     \* answers that a canned response was an example for
          pages

aiVars == <<models, canned, secret, draft, answered, unsaved, crossed, cited, pages>>

AnyModel == CHOOSE x \in Models : TRUE
Idle == [at |-> "idle", by |-> AnyModel, codes |-> {}, calls |-> 0, uses |-> [k \in Codes |-> 0]]

\* One configuration is active and the others are to be created; the canned
\* responses are there.
AiInit ==
  /\ secret = CHOOSE s \in Secrets : TRUE
  /\ models = [x \in Models |-> [is |-> IF x = AnyModel THEN "on" ELSE "none", key |-> secret,
                                calls |-> 0, test |-> "never"]]
  /\ canned = [k \in Codes |-> [is |-> "on", tags |-> Topics, uses |-> 0]]
  /\ draft = [d \in Drafters |-> Idle]
  /\ answered = [x \in Models |-> 0]
  /\ unsaved = [x \in Models |-> 0]
  /\ crossed = {}
  /\ cited = [k \in Codes |-> 0]
  /\ pages = 0

There(x) == models[x].is \in {"on", "off"}
\* A request that has written the count holds the row until it commits.
Free(x) == ~\E d \in Drafters : draft[d].at = "flushed" /\ draft[d].by = x
Readable(x) == models[x].key = secret

-----------------------------------------------------------------------------
(* The pages of the console.                                               *)

Page == pages < MaxPages /\ pages' = pages + 1
OnModels == UNCHANGED <<canned, secret, draft, answered, unsaved, crossed, cited>>
OnCanned == UNCHANGED <<models, secret, draft, answered, unsaved, crossed, cited>>

\* set_active and deactivate_all.
OnlyActive(x, rows) ==
  [y \in Models |-> IF y = x THEN [rows[y] EXCEPT !.is = "on"]
                    ELSE IF rows[y].is = "on" THEN [rows[y] EXCEPT !.is = "off"] ELSE rows[y]]
NoneActive(rows) ==
  [y \in Models |-> IF rows[y].is = "on" THEN [rows[y] EXCEPT !.is = "off"] ELSE rows[y]]

CreateModel(x, active) ==
  /\ models[x].is = "none"
  /\ active => \A y \in Models : Free(y)
  /\ Page
  /\ LET rows == [models EXCEPT ![x].is = "off", ![x].key = secret]
     IN models' = IF active THEN OnlyActive(x, rows) ELSE rows
  /\ OnModels

\* The page of a configuration with a new api_key, which is encrypted anew.
ReplaceKey(x) ==
  There(x) /\ Free(x) /\ Page /\ models' = [models EXCEPT ![x].key = secret] /\ OnModels

Activate(x) ==
  /\ There(x)
  /\ \A y \in Models : Free(y)
  /\ Page
  /\ models' = IF models[x].is = "on" THEN NoneActive(models) ELSE OnlyActive(x, models)
  /\ OnModels

DeleteModel(x) ==
  There(x) /\ Free(x) /\ Page /\ models' = [models EXCEPT ![x].is = "gone"] /\ OnModels

\* "Does not charge usage_total (it is a diagnosis, not a real answer)"; a mutant
\* does.
TestedAndCounted(row, result) == [row EXCEPT !.test = result, !.calls = @ + 1]
Tested(row, result) == [row EXCEPT !.test = result]

TestModel(x, ok) ==
  /\ There(x) /\ Free(x)
  /\ ok => Readable(x)
  /\ Page
  /\ models' = [models EXCEPT ![x] = Tested(@, IF ok THEN "ok" ELSE "error")]
  /\ OnModels

CreateCanned(k, tags) ==
  /\ canned[k].is = "none"
  /\ Page
  /\ canned' = [canned EXCEPT ![k] = [is |-> "on", tags |-> tags, uses |-> 0]]
  /\ OnCanned

UpdateCanned(k, is, tags) ==
  /\ canned[k].is # "none"
  /\ Page
  /\ canned' = [canned EXCEPT ![k].is = is, ![k].tags = tags]
  /\ OnCanned

DeleteCanned(k) ==
  canned[k].is # "none" /\ Page /\ canned' = [canned EXCEPT ![k].is = "none"] /\ OnCanned

-----------------------------------------------------------------------------
(* A draft, admin_ticket_ai_generate.                                      *)

\* _select_few_shot: by common tags, then by usage; the order of equals is left open.
Ahead(j, k, tags) ==
  LET common(c) == Cardinality(canned[c].tags \cap tags)
  IN common(j) > common(k) \/ (common(j) = common(k) /\ canned[j].uses > canned[k].uses)
FewShots(tags) ==
  LET on == {k \in Codes : canned[k].is = "on"}
  IN {S \in SUBSET on : /\ Cardinality(S) = Min({MaxFewShot, Cardinality(on)})
                        /\ \A j \in on \ S, k \in S : ~Ahead(j, k, tags)}

\* The active configuration and the examples are read, and the provider is asked.
Ask(d, tags) ==
  /\ draft[d] = Idle
  /\ \E x \in Models, few \in FewShots(tags) :
       /\ models[x].is = "on" /\ Readable(x)
       /\ draft' = [draft EXCEPT ![d].at = "waiting", ![d].by = x, ![d].codes = few]
  /\ UNCHANGED <<models, canned, secret, answered, unsaved, crossed, cited, pages>>

ProviderAnswers(d) ==
  /\ draft[d].at = "waiting"
  /\ MapThenSumSet(LAMBDA x : answered[x], Models) < MaxAnswers
  /\ answered' = [answered EXCEPT ![draft[d].by] = @ + 1]
  /\ cited' = [k \in Codes |-> cited[k] + (IF k \in draft[d].codes THEN 1 ELSE 0)]
  /\ draft' = [draft EXCEPT ![d].at = "answered"]
  /\ UNCHANGED <<models, canned, secret, unsaved, crossed, pages>>

ProviderFails(d) ==
  /\ draft[d].at = "waiting"
  /\ draft' = [draft EXCEPT ![d] = Idle]
  /\ UNCHANGED <<models, canned, secret, answered, unsaved, crossed, cited, pages>>

\* get_by_id: a configuration that is gone is not counted, its examples are.
Load(d) ==
  /\ draft[d].at = "answered"
  /\ LET x == draft[d].by
     IN IF There(x)
          THEN /\ draft' = [draft EXCEPT ![d].at = "loaded", ![d].calls = models[x].calls]
               /\ crossed' = IF \E e \in Drafters \ {d} : draft[e].at \in {"loaded", "flushed"}
                                                           /\ draft[e].by = x
                               THEN crossed \cup {x} ELSE crossed
               /\ UNCHANGED unsaved
          ELSE /\ draft' = [draft EXCEPT ![d].at = "skipped"]
               /\ unsaved' = [unsaved EXCEPT ![x] = @ + 1]
               /\ UNCHANGED crossed
  /\ UNCHANGED <<models, canned, secret, answered, cited, pages>>

\* The UPDATE of the configuration, which holds its row until the commit, and the
\* reads of the examples.  The UPDATE of a row that is gone rolls all back.
Flush(d) ==
  /\ draft[d].at \in {"loaded", "skipped"}
  /\ LET x == draft[d].by
         uses == [k \in Codes |-> canned[k].uses]
     IN IF draft[d].at = "loaded" /\ ~There(x)
          THEN /\ draft' = [draft EXCEPT ![d] = Idle]
               /\ unsaved' = [unsaved EXCEPT ![x] = @ + 1]
          ELSE /\ draft[d].at = "loaded" => Free(x)
               /\ draft' = [draft EXCEPT ![d].uses = uses,
                              ![d].at = IF @ = "loaded" THEN "flushed" ELSE "closing",
                              ![d].codes = {k \in @ : canned[k].is # "none"}]
               /\ UNCHANGED unsaved
  /\ UNCHANGED <<models, canned, secret, answered, crossed, cited, pages>>

\* The commit; it fails if an example is gone by now.
Save(d) ==
  /\ draft[d].at \in {"flushed", "closing"}
  /\ LET x == draft[d].by
         kept == \A k \in draft[d].codes : canned[k].is # "none"
         counting == draft[d].at = "flushed"
     IN /\ models' = IF counting /\ kept THEN [models EXCEPT ![x].calls = draft[d].calls + 1]
                     ELSE models
        /\ canned' = IF kept THEN [k \in Codes |-> IF k \in draft[d].codes
                                     THEN [canned[k] EXCEPT !.uses = draft[d].uses[k] + 1]
                                     ELSE canned[k]]
                     ELSE canned
        /\ unsaved' = IF counting /\ ~kept THEN [unsaved EXCEPT ![x] = @ + 1] ELSE unsaved
  /\ draft' = [draft EXCEPT ![d] = Idle]
  /\ UNCHANGED <<secret, answered, crossed, cited, pages>>

\* Requests whose answer is still to be counted.
Pending(x) == {d \in Drafters : draft[d].by = x /\ draft[d].at \in {"answered", "loaded", "flushed"}}

\* The process starts anew, perhaps with another key.
StartsAnew(s) ==
  /\ secret' = s
  /\ Page
  /\ draft' = [d \in Drafters |-> Idle]
  /\ unsaved' = [x \in Models |-> unsaved[x] + Cardinality(Pending(x))]
  /\ UNCHANGED <<models, canned, answered, crossed, cited>>

AiNext ==
  \/ \E x \in Models :
       \/ \E b \in BOOLEAN : CreateModel(x, b) \/ TestModel(x, b)
       \/ ReplaceKey(x) \/ Activate(x) \/ DeleteModel(x)
  \/ \E k \in Codes :
       \/ \E tags \in SUBSET Topics :
            CreateCanned(k, tags) \/ (\E is \in {"on", "off"} : UpdateCanned(k, is, tags))
       \/ DeleteCanned(k)
  \/ \E d \in Drafters :
       \/ \E tags \in SUBSET Topics : Ask(d, tags)
       \/ ProviderAnswers(d) \/ ProviderFails(d) \/ Load(d) \/ Flush(d) \/ Save(d)
  \/ \E s \in Secrets : StartsAnew(s)

AiSpec == AiInit /\ [][AiNext]_aiVars

-----------------------------------------------------------------------------
\* Rows and requests are well-formed, and at most one configuration is active
\* (the index uq_llm_configs_single_active never refuses a page).
AiTypeOK ==
  /\ models \in [Models -> [is : {"none", "on", "off", "gone"}, key : Secrets, calls : Nat,
                            test : {"never", "ok", "error"}]]
  /\ \A x, y \in Models : models[x].is = "on" /\ models[y].is = "on" => x = y
  /\ \A k \in Codes : canned[k].is \in {"none", "on", "off"} /\ canned[k].tags \subseteq Topics
  /\ \A d \in Drafters : draft[d].by \in Models /\ draft[d].codes \subseteq Codes
                         /\ Cardinality(draft[d].codes) <= MaxFewShot
  /\ secret \in Secrets

\* The usage of a configuration never says more than its provider answered, and
\* says exactly that, less what is still to be counted and what deaths of the
\* process and deleted rows cost, unless two requests had read its count at once;
\* the usage of a canned response never says more than the answers it was an
\* example for.  All through switches of the active configuration, tests, edits and
\* changes of the key between an answer and its record (routes.py,
\* admin_ticket_ai_generate).
UsageIsHonest ==
  /\ \A x \in Models :
       /\ models[x].calls <= answered[x]
       /\ There(x) /\ x \notin crossed =>
            models[x].calls + Cardinality(Pending(x)) + unsaved[x] = answered[x]
  /\ \A k \in Codes : canned[k].is # "none" => canned[k].uses <= cited[k]
=============================================================================
