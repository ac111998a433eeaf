--------------------------- MODULE ProviderChoice ---------------------------
(***************************************************************************)
(* Which provider a client talks to, and with whose credentials: the       *)
(* registry of models (api/src/providers/mod.rs), ProviderClient           *)
(* (api/src/client.rs), the sources of a Claw client's credentials         *)
(* (claw_provider.rs) and the key of an OpenAI-style one.  The command     *)
(* line always makes a Claw client and may refresh the saved login;        *)
(* sub-agents go by the model, and may not.  The saved login changes under *)
(* both: it expires, the user logs in or out in another program.           *)
(***************************************************************************)
EXTENDS Naturals

CONSTANTS
  Asked,          \* models asked for: [name, exact], the name trimmed and in
                  \* lower case, and whether it was spelled so
  GrokNames,      \* the names among them that begin with grok
  OpusNames,      \* the models that contain opus as they are spelled
  Environments,   \* the variables of the environment, each a value's kind
  MaxChanges      \* bound: changes of the saved login, clients made again

VARIABLES
  maker,       \* who makes the client: cli or agent
  wanted,       \* the model it is for
  environment, \* of the process: absent, empty, garbled or a value
  saved,       \* the login in credentials.json
  settings,    \* oauth section of the settings: none, garbled or an object
  choosing,    \* alias, detect, env, key, saved, refresh, ready or failed
  chosen,      \* the client: provider, credentials, model
  rereads,     \* history: may the saved login have changed since the choice began?
  requested,        \* history: requests
  alterations  \* bound: changes left

choiceVars == <<maker, wanted, environment, saved, settings, choosing, chosen, rereads, requested, alterations>>

-----------------------------------------------------------------------------
(* The registry: short names, and the names they stand for.                *)
Alias ==
  [n \in {"opus", "sonnet", "haiku", "grok", "grok-mini", "grok-3", "grok-3-mini", "grok-2"} |->
     CASE n = "opus"   -> "claude-opus-4-6"
       [] n = "sonnet" -> "claude-sonnet-4-6"
       [] n = "haiku"  -> "claude-haiku-4-5-20251213"
       [] n = "grok"   -> "grok-3"
       [] n = "grok-mini" -> "grok-3-mini"
       [] OTHER        -> n]
ClawModels == {"opus", "sonnet", "haiku", "claude-opus-4-6", "claude-sonnet-4-6", "claude-haiku-4-5-20251213"}
XaiModels  == {"grok", "grok-3", "grok-mini", "grok-3-mini", "grok-2"}
Exact(name) == [name |-> name, exact |-> TRUE]

(* The library's resolve_model_alias ignores case and spaces around; other *)
(* names keep their spelling.  The command line has one of its own, of the *)
(* Claw-style names and exact.                                             *)
Canonical(m)  == IF m.name \in DOMAIN Alias THEN Exact(Alias[m.name]) ELSE m
AgentModel(m) == IF m.name = "" THEN Exact("claude-opus-4-6") ELSE Canonical(m)
ShortName(m)  == IF m.exact /\ m.name \in ClawModels THEN Canonical(m) ELSE m

(* metadata_for_model                                                      *)
Family(m) ==
  LET name == Canonical(m).name IN
    IF name \in ClawModels THEN "claw"
    ELSE IF name \in XaiModels \cup GrokNames THEN "xai" ELSE "unknown"

(* max_tokens_for_model: an agent's model is resolved by now, and the      *)
(* command line's function of that name does not resolve it.               *)
MostTokens(m) == IF m \in OpusNames THEN 32000 ELSE 64000

(* A login: none, a file that cannot be read, or a token.                  *)
NoLogin       == [state |-> "none", fresh |-> FALSE, refresh |-> FALSE]
GarbledLogin  == [NoLogin EXCEPT !.state = "garbled"]
Login(f, r)   == [state |-> "token", fresh |-> f, refresh |-> r]
Logins        == {NoLogin, GarbledLogin} \cup {Login(f, r) : f \in BOOLEAN, r \in BOOLEAN}

(* read_env_non_empty: an empty value is none, one that is no Unicode an   *)
(* error.  A base URL may be empty, and is used so.                        *)
Given(v)      == environment[v] = "value"
Malformed(v)  == environment[v] = "garbled"
BaseOf(v)     == IF environment[v] \in {"empty", "value"} THEN environment[v] ELSE "default"

KeyOf  == [claw |-> "ANTHROPIC_API_KEY", xai |-> "XAI_API_KEY", openai |-> "OPENAI_API_KEY"]
UrlOf  == [claw |-> "ANTHROPIC_BASE_URL", xai |-> "XAI_BASE_URL", openai |-> "OPENAI_BASE_URL"]
Bearer == "ANTHROPIC_AUTH_TOKEN"

NoClient == [provider |-> "none", key |-> FALSE, bearer |-> "none", model |-> Exact("none")]

StartsAt == [cli |-> "env", agent |-> "detect"]

ChoiceInit ==
  /\ maker \in DOMAIN StartsAt /\ wanted \in Asked /\ environment \in Environments
  /\ saved \in Logins /\ settings \in {"none", "garbled", "object"}
  /\ choosing = StartsAt[maker]
  /\ chosen = [NoClient EXCEPT !.provider = IF maker = "cli" THEN "claw" ELSE "none",
                               !.model = IF maker = "cli" THEN ShortName(wanted) ELSE AgentModel(wanted)]
  /\ rereads = FALSE /\ requested = {} /\ alterations = MaxChanges

Choosing(step, client) ==
  /\ choosing' = step /\ chosen' = client
  /\ UNCHANGED <<maker, wanted, environment, settings, requested, alterations>>

Fails == Choosing("failed", chosen)
With(key, bearer) == Choosing("ready", [chosen EXCEPT !.key = key, !.bearer = bearer])

-----------------------------------------------------------------------------
(* detect_provider_kind: the family of the model, or else whoever there    *)
(* are credentials for, first of all Claw, where a saved login counts even *)
(* if it has expired, and one that cannot be read does not.                *)
HasClawAuth ==
  /\ ~Malformed(KeyOf.claw)
  /\ \/ Given(KeyOf.claw)
     \/ ~Malformed(Bearer) /\ (Given(Bearer) \/ saved.state = "token")

ByCredentials ==
  IF HasClawAuth THEN "claw" ELSE IF Given(KeyOf.openai) THEN "openai"
  ELSE IF Given(KeyOf.xai) THEN "xai" ELSE "claw"

Provider(m)   == IF Family(m) # "unknown" THEN Family(m) ELSE ByCredentials

Detect ==
  /\ choosing = "detect"
  /\ LET provider == Provider(chosen.model) IN
       Choosing(IF provider = "claw" THEN "env" ELSE "key", [chosen EXCEPT !.provider = provider])
  /\ UNCHANGED <<saved, rereads>>

(* OpenAiCompatClient::from_env                                            *)
TakeKey ==
  /\ choosing = "key"
  /\ IF Given(KeyOf[chosen.provider]) THEN With(TRUE, "none") ELSE Fails
  /\ UNCHANGED <<saved, rereads>>

(* AuthSource::from_env_or_saved and resolve_startup_auth_source begin the *)
(* same: the key of the environment, its token too, or the token alone.    *)
TakeEnvironment ==
  /\ choosing = "env"
  /\ IF Malformed(KeyOf.claw) \/ Malformed(Bearer) THEN Fails
     ELSE IF Given(KeyOf.claw) THEN With(TRUE, IF Given(Bearer) THEN "env" ELSE "none")
     ELSE IF Given(Bearer) THEN With(FALSE, "env")
     ELSE Choosing("saved", chosen)
  /\ UNCHANGED <<saved, rereads>>

(* Then the saved token, which is read again.  One that has expired ends a *)
(* sub-agent; the command line refreshes it if it can.                     *)
Refreshable == maker = "cli" /\ saved.refresh /\ settings = "object"
TokenOf(login) == IF login.fresh THEN "fresh" ELSE "lapsed"

TakeSaved ==
  /\ choosing = "saved"
  /\ IF saved.state # "token" THEN Fails
     ELSE IF saved.fresh THEN With(FALSE, TokenOf(saved))
     ELSE IF Refreshable THEN Choosing("refresh", chosen)
     ELSE Fails
  /\ UNCHANGED <<saved, rereads>>

(* resolve_saved_oauth_token_set: the answer has a new token, which is     *)
(* saved; the server may refuse, or the file cannot be written.            *)
RefreshSaved ==
  /\ choosing = "refresh"
  /\ With(FALSE, "fresh")
  /\ saved' = Login(TRUE, TRUE) /\ UNCHANGED rereads

RefreshIsRefused ==
  /\ choosing = "refresh"
  /\ Fails /\ rereads' = TRUE /\ UNCHANGED saved

(* A request goes to the provider's URL with the client's credentials.     *)
SendAs ==
  /\ choosing = "ready"
  /\ LET request == [to |-> chosen.provider, url |-> BaseOf(UrlOf[chosen.provider]),
                     key |-> chosen.key, bearer |-> chosen.bearer, model |-> chosen.model,
                     most |-> MostTokens(chosen.model)]
     IN request \notin requested /\ requested' = requested \cup {request}
  /\ UNCHANGED <<maker, wanted, environment, saved, settings, choosing, chosen, rereads, alterations>>

(* The command line makes its client anew with each command that replaces  *)
(* its runtime, /model among them.                                         *)
MakeAgain(m) ==
  /\ maker = "cli" /\ choosing = "ready" /\ alterations > 0
  /\ wanted' = m
  /\ choosing' = "env" /\ rereads' = FALSE
  /\ chosen' = [NoClient EXCEPT !.provider = "claw", !.model = ShortName(m)]
  /\ alterations' = alterations - 1
  /\ UNCHANGED <<maker, environment, saved, settings, requested>>

(* Meanwhile the token expires, with the client's, which it may be, or not *)
(* if the user has logged in or out since.                                 *)
ChangeLogin(login) ==
  /\ alterations > 0 /\ choosing # "failed"
  /\ \/ saved.fresh /\ login = [saved EXCEPT !.fresh = FALSE]
        /\ chosen' \in {chosen, [chosen EXCEPT !.bearer = IF @ = "fresh" THEN "lapsed" ELSE @]}
     \/ saved.state # "garbled" /\ login \in {NoLogin, Login(TRUE, TRUE)} \ {saved} /\ UNCHANGED chosen
  /\ saved' = login /\ rereads' = TRUE
  /\ alterations' = alterations - 1
  /\ UNCHANGED <<maker, wanted, environment, settings, choosing, requested>>

ChoiceNext ==
  \/ Detect \/ TakeKey \/ TakeEnvironment \/ TakeSaved \/ RefreshSaved \/ RefreshIsRefused
  \/ SendAs
  \/ \E m \in Asked : MakeAgain(m)
  \/ \E login \in Logins : ChangeLogin(login)

ChoiceSpec == ChoiceInit /\ [][ChoiceNext]_choiceVars

-----------------------------------------------------------------------------
(* Would the credentials of a provider do, as they are now?  A sub-agent   *)
(* cannot refresh, and the command line needs the settings for it.         *)
Legible         == ~Malformed(KeyOf.claw) /\ ~Malformed(Bearer)
FromEnvironment == Legible /\ (Given(KeyOf.claw) \/ Given(Bearer))
FromLogin       == Legible /\ saved.state = "token" /\ (saved.fresh \/ Refreshable)
Usable(provider) ==
  IF provider = "claw" THEN FromEnvironment \/ FromLogin ELSE Given(KeyOf[provider])

(* A client is made if credentials that would do are there, unless the     *)
(* saved login changes meanwhile, or what there is for Claw, and of no use,*)
(* hides the key of another provider, whose model it could be: a login     *)
(* that has expired, or a key beside a token that cannot be read.          *)
ClientIsMade ==
  choosing = "failed" /\ ~rereads =>
    IF maker = "cli" THEN ~Usable("claw")
    ELSE IF Family(AgentModel(wanted)) # "unknown" THEN ~Usable(Family(AgentModel(wanted)))
    ELSE \/ \A p \in DOMAIN KeyOf : ~Usable(p)
         \/ saved.state = "token" /\ ~saved.fresh
         \/ Given(KeyOf.claw) /\ Malformed(Bearer)

(* A sub-agent's request goes to the provider of its model, where that is  *)
(* known, under a name the provider knows, however it was spelled; the     *)
(* command line's goes to the Claw-style one, with no key of another.      *)
(* The login is used only if the environment has nothing, and was valid    *)
(* when it was taken.                                                      *)
RequestsGoHome ==
  /\ \A r \in requested :
       /\ r.to = "claw" \/ maker = "agent"
       /\ maker = "agent" => /\ Family(AgentModel(wanted)) \in {r.to, "unknown"}
                              /\ r.model.name \in DOMAIN Alias => r.model = Exact(Alias[r.model.name])
       /\ r.key => environment[KeyOf[r.to]] = "value"
       /\ r.bearer \in {"fresh", "lapsed"} => ~FromEnvironment
       /\ ~r.key => r.bearer # "none"
  /\ ~rereads => chosen.bearer # "lapsed"

ClientsAreRight == ClientIsMade /\ RequestsGoHome
=============================================================================
