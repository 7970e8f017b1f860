----------------------------- MODULE MCAccounts -----------------------------
(* Logins, push delivery, project memory and the GitHub App each keep      *)
(* tables of their own: a behaviour is about one of them, and within it    *)
(* about one of the kinds of trouble it may meet.                          *)
EXTENDS Identity, Notifications, ProjectContext, GitHubApp, TLC

CONSTANTS u1, u2, u3, f1, f2, c1, c2, c3, c4, x1, x2, b1, b2, a1, g1,
          t1, t2, j1, j2, r1, k1, k2, v1, v2, o1, i1, q1, d1, d2

VARIABLE part    \* what a behaviour is about

MCProviderOf == [s \in {a1, g1} |-> IF s = a1 THEN "apple" ELSE "google"]

Interchangeable == Permutations({x1, x2}) \cup Permutations({u1, u3})

(* Ids are drawn in one order: which one is drawn first makes no difference.*)
InOrder(ids, drawn) == \A n \in 2 .. Len(ids) : ids[n] \in drawn => ids[n - 1] \in drawn

IdentityParts == {"logins", "relink", "erasure", "grants"}
PushParts == {"receipts", "leases", "settings"}
ContextParts == {"ledger", "claims", "projects"}
AppParts == {"callbacks", "webhooks"}

MCInit ==
  /\ IdentityInit /\ PushInit /\ ContextInit /\ AppInit
  /\ part \in IdentityParts \cup PushParts \cup ContextParts \cup AppParts
-----------------------------------------------------------------------------
Pending == {x \in Requests : request'[x] # NoRequest}
Drawn == {c \in Challenges : challenge'[c].state # "none"}
Opened == {f \in Families : family'[f].state # "none"}
Granted == {g \in Grants : grant'[g].state # "none"}
Kinds == {request'[x].kind : x \in Requests}
NoGrants == grant' = grant /\ betaOn'
NoTime ==
  /\ \A c \in Challenges : challenge'[c].state # "expired"
  /\ \A f \in Families : family'[f].state # "expired"
Rotations(n) == \A f \in Families : family'[f].issued <= n

IdentityOrder ==
  InOrder(<<c1, c2, c3, c4>>, Drawn) /\ InOrder(<<f1, f2>>, Opened) /\ InOrder(<<b1, b2>>, Granted)

IdentityPart ==
  CASE part = "logins" ->
         /\ NoGrants /\ NoTime /\ Rotations(1) /\ Cardinality(Drawn) <= 3 /\ {"upload", "profile", "erase"} \cap Kinds = {}
         /\ \A c \in Drawn : challenge'[c].action = "link" => challenge'[c].provider = "google"
    [] part = "relink" ->
         /\ NoGrants /\ Cardinality(Pending) <= 1 /\ {"upload", "profile", "erase"} \cap Kinds = {}
         /\ \A f \in Families : family'[f].login = a1 => family'[f].issued <= 1 /\ family'[f].state = "open"
         /\ \A c \in Drawn : challenge'[c].state # "expired"
         /\ Cardinality({c \in Drawn : challenge'[c].state = "open"}) <= 1
    [] part = "erasure" ->
         NoGrants /\ Rotations(1) /\ Cardinality(Drawn) <= 2 /\ Cardinality(Opened) <= 1 /\ "unlink" \notin Kinds
    [] part = "grants" ->
         /\ NoTime /\ Rotations(1) /\ Cardinality(Drawn) <= 1 /\ Cardinality(Pending) <= 1
         /\ Cardinality(Opened) <= 1 /\ {"upload", "profile", "unlink"} \cap Kinds = {}
-----------------------------------------------------------------------------
Busy == {p \in Pushers : pusher'[p].pc # "idle" \/ polling'[p] # {}}
NoTests == \A t \in PushTokens : push'[<<TestPush, t>>] = NoPush
Unset == prefs' = "on" /\ device'.granted /\ NoTests
OneDevice == device'.token \in {NoToken, t1} /\ t2 \notin dead' /\ item'.rev = 1
FirstTry == \A d \in Deliveries : push'[d].attempts <= 1 /\ ~push'[d].old

PushPart ==
  CASE part = "receipts" ->
         /\ Unset /\ Cardinality(Busy) <= 1 /\ FirstTry
         /\ notice'.delivered # "client" /\ item'.shown /\ t2 \notin dead'
         /\ device.token = t2 => device'.token = t2
         /\ device'.revoked # "owner"
    [] part = "leases"   -> OneDevice /\ Unset /\ item'.shown
    [] part = "settings" -> OneDevice /\ Cardinality(Busy) <= 1 /\ FirstTry /\ dead' = {} /\ (item'.shown \/ NoTests)
-----------------------------------------------------------------------------
Working == {a \in Actors : work'[a].pc # "idle"}
OneProject == project'[j2].status = "none" /\ repository'[r1] = NoProject
Stored == {e \in Entries : entry'[e].rev > 0}

ContextPart ==
  CASE part = "ledger" ->
         /\ OneProject /\ project'[j1].status \in {"none", "active"} /\ Cardinality(Working) <= 1
         /\ \A a \in Actors : work'[a].pc \in {"idle", "memory"}
         /\ UNCHANGED <<submission, retrievals>>
    [] part = "claims" ->
         /\ OneProject /\ \A e \in Stored : e[2] = k1 /\ entry'[e].rev <= 2
         /\ \A x \in retrievals' : x[1] = "objective"
    [] part = "projects" ->
         /\ Cardinality(Working) <= 1 /\ UNCHANGED submission
         /\ Cardinality(Stored) <= 1 /\ \A e \in Stored : e[2] = k1 /\ entry'[e].rev <= 2
         /\ Cardinality(retrievals') <= 1
-----------------------------------------------------------------------------
AppOrder ==
  /\ InOrder(<<d1, d2>>, {d \in WebhookIds : webhook'[d].event # "none"})
  /\ InOrder(<<t1, t2>>, {t \in Transactions : transaction'[t].state # "none"})

AppPart ==
  CASE part = "callbacks" -> \A d \in WebhookIds : delivery'[d] = "none"
    [] part = "webhooks"  -> /\ \A t \in Transactions \ {t1} : transaction'[t].state = "none"
                             /\ \A h \in Handlers : handler'[h].pc \notin {"fetch", "repositories"}

MCNext ==
  \/ /\ part \in IdentityParts /\ IdentityNext /\ IdentityOrder /\ IdentityPart
     /\ UNCHANGED <<pushVars, contextVars, appVars, part>>
  \/ /\ part \in PushParts /\ PushNext /\ PushPart
     /\ UNCHANGED <<identityVars, contextVars, appVars, part>>
  \/ /\ part \in ContextParts /\ ContextNext /\ ContextPart
     /\ UNCHANGED <<identityVars, pushVars, appVars, part>>
  \/ /\ part \in AppParts /\ AppNext /\ AppOrder /\ AppPart
     /\ UNCHANGED <<identityVars, pushVars, contextVars, part>>

MCSpec == MCInit /\ [][MCNext]_<<identityVars, pushVars, contextVars, appVars, part>>
=============================================================================
