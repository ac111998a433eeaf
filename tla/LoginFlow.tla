----------------------------- MODULE LoginFlow -----------------------------
(***************************************************************************)
(* How a login gets its token (claw-cli/src/main.rs, run_login, and        *)
(* runtime/src/oauth.rs): the browser is opened with a URL that holds a    *)
(* state and a challenge, then one connection is awaited on a port that    *)
(* all programs share, and what it asks for is taken for the answer of the *)
(* authorization server.  The user may answer in the browser before the    *)
(* program listens, and reload its page; another program may have opened   *)
(* its page by then; anything may connect.  The server and the browser are *)
(* external; what the token becomes is module CredentialStore.             *)
(***************************************************************************)
EXTENDS Naturals, Sequences, SequencesExt

CONSTANTS
  Logins,       \* programs that log in, each with a state and a verifier of its own
  Bases         \* authorize_url of the settings: texts

VARIABLES
  awaiting,     \* where each login is
  base,         \* authorize_url
  pages,        \* what the server read of the URLs that were opened
  redirects,    \* where the server has sent the browser: reloading goes there again
  heard,        \* what a login took for the answer
  sent,         \* codes the programs have sent to the server, and whose
  disturbed     \* history: logins that heard a connection of another kind, or half of one

loginVars == <<awaiting, base, pages, redirects, heard, sent, disturbed>>

-----------------------------------------------------------------------------
(* Texts are sequences of characters and whole words.                      *)
Hex ==
  [c \in {" ", "&", "=", "%", "?", "/", ":", "+"} |->
     CASE c = " " -> <<"2", "0">> [] c = "&" -> <<"2", "6">> [] c = "=" -> <<"3", "D">> [] c = "%" -> <<"2", "5">>
       [] c = "?" -> <<"3", "F">> [] c = "/" -> <<"2", "F">> [] c = ":" -> <<"3", "A">> [] c = "+" -> <<"2", "B">>]
Digits == {Hex[c][i] : c \in DOMAIN Hex, i \in 1..2}

PercentEncode(text) ==
  FlattenSeq([i \in DOMAIN text |-> IF text[i] \in DOMAIN Hex THEN <<"%">> \o Hex[text[i]] ELSE <<text[i]>>])

(* A % at the end is itself; one before what is no number is an error: {}. *)
RECURSIVE PercentDecode(_)
PercentDecode(text) ==
  IF text = <<>> THEN {<<>>}
  ELSE LET rest(n) == PercentDecode(SubSeq(text, n + 1, Len(text)))
           with(c, n) == {<<c>> \o t : t \in rest(n)}
       IN IF text[1] = "%" /\ Len(text) > 2
            THEN IF {text[2], text[3]} \subseteq Digits
                 THEN with(CHOOSE c \in DOMAIN Hex : Hex[c] = <<text[2], text[3]>>, 3) ELSE {}
          ELSE with(IF text[1] = "+" THEN " " ELSE text[1], 1)

RECURSIVE Split(_, _)
Split(text, mark) ==
  IF \A i \in DOMAIN text : text[i] # mark THEN <<text>>
  ELSE LET at == CHOOSE i \in DOMAIN text : text[i] = mark /\ \A j \in 1..(i - 1) : text[j] # mark
       IN <<SubSeq(text, 1, at - 1)>> \o Split(SubSeq(text, at + 1, Len(text)), mark)
(* split_once, with nothing behind a mark that is not there.               *)
SplitOnce(text, mark) ==
  LET parts == Split(text, mark) IN
  <<parts[1], IF Len(parts) = 1 THEN <<>> ELSE SubSeq(text, Len(parts[1]) + 2, Len(text))>>

Query(params) ==
  FlattenSeq([i \in DOMAIN params |->
    (IF i = 1 THEN <<>> ELSE <<"&">>) \o PercentEncode(params[i][1]) \o <<"=">> \o PercentEncode(params[i][2])])

(* parse_oauth_callback_query: of a key twice the last is taken.           *)
ParsedQuery(query) ==
  LET pairs == SelectSeq(Split(query, "&"), LAMBDA t : t # <<>>)
      keys  == [i \in DOMAIN pairs |-> PercentDecode(SplitOnce(pairs[i], "=")[1])]
      values == [i \in DOMAIN pairs |-> PercentDecode(SplitOnce(pairs[i], "=")[2])]
      last(k, i) == keys[i] = {k} /\ \A j \in DOMAIN keys : keys[j] = {k} => j <= i
  IN IF \E i \in DOMAIN pairs : {} \in {keys[i], values[i]} THEN {}
     ELSE {[k \in UNION ToSet(keys) |-> CHOOSE v \in values[CHOOSE i \in DOMAIN keys : last(k, i)] : TRUE]}

(* parse_oauth_callback_request_target                                     *)
ParsedTarget(target) ==
  LET parts == SplitOnce(target, "?") IN
  IF parts[1] = <<"/", "callback">> THEN ParsedQuery(parts[2]) ELSE {}

-----------------------------------------------------------------------------
(* The state, and the challenge of the verifier, of each login.            *)
State(l)     == <<"state", l>>
Challenge(l) == <<"hash", l>>
RedirectUri  == <<"http", ":", "/", "/", "localhost", ":", "4545", "/", "callback">>
Params(l) ==
  <<<<<<"response_type">>, <<"code">>>>, <<<<"redirect_uri">>, RedirectUri>>,
    <<<<"scope">>, <<"user", ":", "profile", " ", "user", ":", "inference">>>>,
    <<<<"state">>, State(l)>>, <<<<"code_challenge">>, Challenge(l)>>>>
BuildUrl(l) ==
  base \o (IF Contains(base, "?") THEN <<"&">> ELSE <<"?">>) \o Query(Params(l))

LoginInit ==
  /\ awaiting = [l \in Logins |-> "new"] /\ base \in Bases
  /\ pages = {} /\ redirects = {} /\ sent = {} /\ disturbed = {}
  /\ heard = [l \in Logins |-> <<>>]

Proceed(l, step) == awaiting' = [awaiting EXCEPT ![l] = step]

(* The browser is opened, or the user opens the URL.                       *)
OpenBrowser(l) ==
  /\ awaiting[l] = "new" /\ Proceed(l, "opened")
  /\ pages' = pages \cup {[login |-> l, read |-> q] : q \in ParsedQuery(SplitOnce(BuildUrl(l), "?")[2])}
  /\ UNCHANGED <<base, redirects, heard, sent, disturbed>>

(* TcpListener::bind fails while another program listens.                  *)
Bind(l) ==
  /\ awaiting[l] = "opened"
  /\ Proceed(l, IF \E m \in Logins : awaiting[m] = "waiting" THEN "failed" ELSE "waiting")
  /\ UNCHANGED <<base, pages, redirects, heard, sent, disturbed>>

(* The user approves or refuses what a page asks for, once.                *)
Redirect(page, params) ==
  /\ \A r \in redirects : r.login # page.login
  /\ redirects' = redirects \cup {[login |-> page.login, params |-> params,
                                   target |-> <<"/", "callback", "?">> \o Query(params)]}
  /\ UNCHANGED <<awaiting, base, pages, heard, sent, disturbed>>
Approve(page) ==
  LET code  == <<<<"code">>, <<"c", page.login>>>>
      state == <<<<"state">>, page.read[<<"state">>]>>
  IN Redirect(page, <<code, state>>) \/ Redirect(page, <<state, code>>)
Refuse(page) ==
  Redirect(page, <<<<<<"error">>, <<"denied">>>>, <<<<"error_description">>, <<"no", "&", "50", "%", " ", "+", "=">>>>,
                   <<<<"state">>, page.read[<<"state">>]>>>>)

(* One connection is accepted, and one read is made of it.                 *)
Take(l, target) ==
  /\ awaiting[l] = "waiting"
  /\ heard' = [heard EXCEPT ![l] = target]
  /\ Proceed(l, IF ParsedTarget(target) = {} THEN "failed" ELSE "received")
  /\ UNCHANGED <<base, pages, redirects, sent>>
Connect(l, r) == Take(l, r.target) /\ UNCHANGED disturbed
Disturb(l) ==
  /\ \/ Take(l, <<"/", "favicon">>)
     \/ \E r \in redirects : \E n \in 0..(Len(r.target) - 1) : Take(l, SubSeq(r.target, 1, n))
  /\ disturbed' = disturbed \cup {l}

(* What is heard must hold no error, a code, and the state that was sent.  *)
Answer(l) == CHOOSE q \in ParsedTarget(heard[l]) : TRUE
AnyCode(answer, l) == <<"error">> \notin DOMAIN answer /\ {<<"code">>, <<"state">>} \subseteq DOMAIN answer
Acceptable(answer, l) ==
  /\ <<"error">> \notin DOMAIN answer
  /\ {<<"code">>, <<"state">>} \subseteq DOMAIN answer
  /\ answer[<<"state">>] = State(l)

CheckAnswer(l) ==
  /\ awaiting[l] = "received"
  /\ IF Acceptable(Answer(l), l)
       THEN /\ Proceed(l, "exchanging")
            /\ sent' = sent \cup {<<l, Answer(l)[<<"code">>]>>}
       ELSE Proceed(l, "failed") /\ UNCHANGED sent
  /\ UNCHANGED <<base, pages, redirects, heard, disturbed>>

(* The server compares the verifier with the challenge of the page.        *)
Exchange(l) ==
  /\ awaiting[l] = "exchanging"
  /\ Proceed(l, IF \E r \in redirects : \E page \in pages :
                  /\ page.login = r.login /\ page.read[<<"code_challenge">>] = Challenge(l)
                  /\ \E p \in ToSet(r.params) : p[1] = <<"code">> /\ <<l, p[2]>> \in sent
             THEN "saved" ELSE "failed")
  /\ UNCHANGED <<base, pages, redirects, heard, sent, disturbed>>

LoginNext ==
  \/ \E page \in pages : Approve(page) \/ Refuse(page)
  \/ \E l \in Logins :
       \/ OpenBrowser(l) \/ Bind(l) \/ CheckAnswer(l) \/ Exchange(l) \/ Disturb(l)
       \/ \E r \in redirects : Connect(l, r)
LoginSpec == LoginInit /\ [][LoginNext]_loginVars

-----------------------------------------------------------------------------
(* A program asks for the token of no code but the one its own page was    *)
(* approved for, or a part of it.  What it asks the server for, and what   *)
(* the server answers it, is read as it was meant, whatever characters are *)
(* in it.  And a login fails only if the user refuses it or something else *)
(* than its own page connects: another login's, or half of a connection.   *)
AsSent(params) == [k \in {params[i][1] : i \in DOMAIN params} |->
                    params[CHOOSE i \in DOMAIN params : params[i][1] = k][2]]
Refused(l) == \E r \in redirects : r.login = l /\ r.params[1][1] = <<"error">>
HeardOther(l) == \E r \in redirects : r.login # l /\ heard[l] = r.target
LoginIsOwn ==
  /\ \A s \in sent : IsPrefix(s[2], <<"c", s[1]>>) /\ ~Refused(s[1])
  /\ \A page \in pages : \A p \in ToSet(Params(page.login)) : page.read[p[1]] = p[2]
  /\ \A r \in redirects : ParsedTarget(r.target) = {AsSent(r.params)}
  /\ \A l \in Logins : awaiting[l] = "failed" =>
       \/ Refused(l) \/ l \in disturbed \/ HeardOther(l)
       \/ heard[l] = <<>> /\ \E m \in Logins \ {l} : awaiting[m] # "new"
=============================================================================
