------------------------------ MODULE Identity ------------------------------
(***************************************************************************)
(* Sign-in with Apple and Google, rotating sessions, friend-beta grants    *)
(* and the erasure of an account (provider_auth.py, auth.py,               *)
(* account_lifecycle.py).                                                  *)
(*                                                                         *)
(* Every operation ends in one database transaction.  What is concurrent   *)
(* is the time before it: a request is authenticated, and an exchange      *)
(* waits for the identity provider, while other requests link, unlink,     *)
(* refresh, log out or erase the account.                                  *)
(***************************************************************************)
EXTENDS Integers, FiniteSets

CONSTANTS
  Users,        \* user ids the gateway may draw
  Friends,      \* user ids an operator may give friend-beta access
  Subjects,     \* identities at the identity providers
  ProviderOf,   \* the provider of each subject
  Challenges,   \* challenge ids the gateway may draw
  Families,     \* session family ids the gateway may draw
  Grants,       \* grant ids the gateway may draw
  Requests,     \* requests under way
  MaxRotations  \* bound on the sessions issued to a family or grant

ASSUME IdentityConstants ==
  /\ MaxRotations \in Nat \ {0}
  /\ Friends \subseteq Users

NoUser == "no user"
ASSUME NoUserIsNotAUser == NoUser \notin Users

NoSubject == "no subject"
NoChallengeId == "no challenge"
Providers == {ProviderOf[s] : s \in Subjects}

VARIABLES
  profiles,    \* user_profiles: accounts that exist
  login,       \* connected_accounts of kind login, by subject
  challenge,   \* provider_auth_challenges
  assertions,  \* provider_assertions: accepted <<challenge, subject>>
  family,      \* provider_session_families, refresh tokens and bearers
  grant,       \* friend_beta_access_grants and their bearers
  betaOn,      \* MAGISTRATE_FRIEND_BETA_ENABLED
  request,     \* requests between authentication and their transaction
  files,       \* uploads and avatar of each account
  erased       \* ghost: accounts erased and not granted again

identityVars == <<profiles, login, challenge, assertions, family, grant, betaOn, request, files, erased>>

NoLogin == [user |-> NoUser, status |-> "none"]
NoChallenge == [state |-> "none", provider |-> "none", action |-> "none", owner |-> NoUser]
NoFamily == [state |-> "none", user |-> NoUser, login |-> NoSubject, issued |-> 0, used |-> {},
             live |-> {}, ended |-> FALSE]   \* ended is a ghost
NoGrant == [state |-> "none", user |-> NoUser, issued |-> 0, live |-> {}]
NoRequest == [kind |-> "none", user |-> NoUser, login |-> NoSubject, c |-> NoChallengeId, s |-> NoSubject]

IdentityInit ==
  /\ profiles = {} /\ login = [s \in Subjects |-> NoLogin]
  /\ challenge = [c \in Challenges |-> NoChallenge] /\ assertions = {}
  /\ family = [f \in Families |-> NoFamily] /\ grant = [g \in Grants |-> NoGrant] /\ betaOn = TRUE
  /\ request = [x \in Requests |-> NoRequest]
  /\ files = [u \in Users |-> "none"] /\ erased = {}
-----------------------------------------------------------------------------
Connected(u) == {s \in Subjects : login[s] = [user |-> u, status |-> "connected"]}

(* _verified_session: a bearer stands on its family and on the login that  *)
(* opened it, or on its grant.                                             *)
ValidBearers(f) ==
  IF family[f].state = "open" /\ family[f].login \in Connected(family[f].user) THEN family[f].live ELSE {}
ValidGrantBearers(g) == IF grant[g].state = "active" /\ betaOn THEN grant[g].live ELSE {}

RefreshTokens(f) == 1 .. family[f].issued
Usable(f) == IF family[f].state = "open" THEN RefreshTokens(f) \ family[f].used ELSE {}

(* Whom a request may speak for, and the login it was authenticated with.  *)
Principals ==
  {<<family[f].user, family[f].login>> : f \in {f \in Families : ValidBearers(f) # {}}}
  \cup {<<grant[g].user, NoSubject>> : g \in {g \in Grants : ValidGrantBearers(g) # {}}}

Revoked(fam) ==
  [fam EXCEPT !.state = IF @ = "open" THEN "revoked" ELSE @, !.live = {}, !.ended = TRUE]

(* _cleanup_expired_session_families: the rows of expired families go.     *)
CleanedUp ==
  [f \in Families |-> IF family[f].state = "expired" THEN [family[f] EXCEPT !.state = "deleted", !.live = {}]
                      ELSE family[f]]
-----------------------------------------------------------------------------
(* A request that asks for a link, removes a login, uploads a file, changes*)
(* the profile or erases the account is authenticated first, in a          *)
(* transaction of its own, and waits for its body, a thread or the workers.*)
Begin(x, kind) ==
  /\ request[x] = NoRequest
  /\ \E p \in Principals :
       request' = [request EXCEPT ![x] = [NoRequest EXCEPT !.kind = kind, !.user = p[1], !.login = p[2]]]
  /\ UNCHANGED <<profiles, login, challenge, assertions, family, grant, betaOn, files, erased>>

(* create_challenge: a link belongs to the account that asked for it, and  *)
(* the insert does not ask whether that account still exists.              *)
CreateChallenge(c, provider, action, u) ==
  /\ challenge[c].state = "none"
  /\ challenge' = [challenge EXCEPT ![c] = [state |-> "open", provider |-> provider, action |-> action, owner |-> u]]
  /\ family' = CleanedUp
  /\ UNCHANGED <<profiles, login, assertions, grant, betaOn, files, erased>>

SignInChallenge(c, provider) == CreateChallenge(c, provider, "sign_in", NoUser) /\ UNCHANGED request

LinkChallenge(x, c, provider) ==
  /\ request[x].kind = "link"
  /\ CreateChallenge(c, provider, "link", request[x].user)
  /\ request' = [request EXCEPT ![x] = NoRequest]

(* exchange_challenge up to its awaits: the challenge is open and, for a   *)
(* link, the request speaks for its owner.                                 *)
BeginExchange(x, c, s) ==
  /\ request[x] = NoRequest
  /\ challenge[c].state = "open" /\ challenge[c].provider = ProviderOf[s]
  /\ \E u \in {p[1] : p \in Principals} \cup {NoUser} :
       /\ u = challenge[c].owner
       /\ request' = [request EXCEPT ![x] = [NoRequest EXCEPT !.kind = "exchange", !.user = u, !.c = c, !.s = s]]
  /\ UNCHANGED <<profiles, login, challenge, assertions, family, grant, betaOn, files, erased>>

(* The provider's keys or the code exchange cannot be had, or the identity *)
(* token does not verify: nothing was changed yet.                         *)
ExchangeFails(x) ==
  /\ request[x].kind = "exchange"
  /\ request' = [request EXCEPT ![x] = NoRequest]
  /\ UNCHANGED <<profiles, login, challenge, assertions, family, grant, betaOn, files, erased>>

(* The transaction reads the challenge again; the clock it compares with   *)
(* is the one of the beginning, so a challenge that expired meanwhile      *)
(* still counts.                                                           *)
(* Mutant: what was read before the awaits is used. *)
ChallengeAsRead(c) == TRUE
ChallengeCurrent(c) == challenge[c].state \in {"open", "expired"}

Refused(r) ==
  LET l == login[r.s]
  IN \/ ~ChallengeCurrent(r.c)
     \/ <<r.c, r.s>> \in assertions
     \/ r.user # NoUser /\ l.user \notin {NoUser, r.user}
     \/ r.user = NoUser /\ l.status = "disconnected"
     \/ /\ r.user # NoUser /\ l = NoLogin
        /\ \E s \in Connected(r.user) : ProviderOf[s] = ProviderOf[r.s]

(* A link joins the owner's account, a sign-in its own or a fresh one.     *)
Owners(r) ==
  IF r.user # NoUser THEN {r.user}
  ELSE IF login[r.s].user # NoUser THEN {login[r.s].user}
  ELSE Users \ (profiles \cup erased \cup Friends)

NewFamily(u, s) ==
  [NoFamily EXCEPT !.state = "open", !.user = u, !.login = s, !.issued = 1, !.live = {1}]

FinishExchange(x) ==
  LET r == request[x]
  IN /\ r.kind = "exchange"
     /\ \/ Refused(r) /\ UNCHANGED <<profiles, login, challenge, assertions, family>>
        \/ /\ ~Refused(r)
           /\ \E u \in Owners(r) :
                /\ profiles' = profiles \cup {u}
                /\ login' = [login EXCEPT ![r.s] = [user |-> u, status |-> "connected"]]
                /\ challenge' = [challenge EXCEPT ![r.c].state = "used"]
                /\ assertions' = assertions \cup {<<r.c, r.s>>}
                /\ \/ r.user # NoUser /\ UNCHANGED family
                   \/ /\ r.user = NoUser
                      /\ \E f \in Families :
                           /\ family[f].state = "none"
                           /\ family' = [family EXCEPT ![f] = NewFamily(u, r.s)]
     /\ request' = [request EXCEPT ![x] = NoRequest]
     /\ UNCHANGED <<grant, betaOn, files, erased>>
-----------------------------------------------------------------------------
(* refresh_session: a token that was used before, or that came over the    *)
(* wrong channel, ends the family; a revoked family or a removed login     *)
(* ends it too; otherwise the token is consumed, older bearers are revoked *)
(* and the next token and bearer are issued.                               *)
(* Mutant: a token that was used before is only refused. *)
ReusedRefused(fam) == fam
Reused(fam) == Revoked(fam)

RefreshSession(f, i, channel) ==
  /\ family[f].state \in {"open", "revoked"} /\ i \in RefreshTokens(f)
  /\ \/ /\ i \in family[f].used \/ ~channel
        /\ family' = [CleanedUp EXCEPT ![f] = [Reused(@) EXCEPT !.ended = TRUE]]
     \/ /\ i \notin family[f].used /\ channel
        /\ family[f].state = "revoked" \/ family[f].login \notin Connected(family[f].user)
        /\ family' = [CleanedUp EXCEPT ![f] = Revoked(@)]
     \/ /\ i \in Usable(f) /\ channel /\ family[f].login \in Connected(family[f].user)
        /\ family[f].issued < MaxRotations
        /\ family' = [CleanedUp EXCEPT ![f].used = @ \cup {i}, ![f].issued = @ + 1,
                                    ![f].live = {family[f].issued + 1}]
  /\ UNCHANGED <<profiles, login, challenge, assertions, grant, betaOn, request, files, erased>>

(* revoke_session of a bearer of a family: revoke_provider_family.         *)
Logout(f) ==
  /\ ValidBearers(f) # {}
  /\ family' = [family EXCEPT ![f] = Revoked(@)]
  /\ UNCHANGED <<profiles, login, challenge, assertions, grant, betaOn, request, files, erased>>

(* unlink_login_method: never the login of the request itself, never the   *)
(* last one; the families of the login end with it.                        *)
(* Mutant: the logins that remain are not counted. *)
AnyMayGo(u) == TRUE
OneRemains(u) == Cardinality(Connected(u)) > 1

FamiliesEnd(s) ==
  [f \in Families |-> IF family[f].login = s /\ family[f].state = "open" THEN Revoked(family[f]) ELSE family[f]]

FinishUnlink(x) ==
  LET u == request[x].user
  IN /\ request[x].kind = "unlink"
     /\ \/ \E s \in Connected(u) \ {request[x].login} :
             /\ OneRemains(u)
             /\ login' = [login EXCEPT ![s].status = "disconnected"]
             /\ family' = FamiliesEnd(s)
        \/ UNCHANGED <<login, family>>
     /\ request' = [request EXCEPT ![x] = NoRequest]
     /\ UNCHANGED <<profiles, challenge, assertions, grant, betaOn, files, erased>>

(* Time: challenges and families reach their end.                          *)
Expire ==
  /\ \/ /\ \E c \in Challenges : challenge[c].state = "open" /\ challenge' = [challenge EXCEPT ![c].state = "expired"]
        /\ UNCHANGED <<family, grant>>
     \/ /\ \E f \in Families : family[f].state = "open" /\ family' = [family EXCEPT ![f].state = "expired"]
        /\ UNCHANGED <<challenge, grant>>
     \/ /\ \E g \in Grants : grant[g].state = "active" /\ grant' = [grant EXCEPT ![g].state = "expired"]
        /\ UNCHANGED <<challenge, family>>
  /\ UNCHANGED <<profiles, login, assertions, betaOn, request, files, erased>>

(* cleanup_sessions and enforce_retention: rows that ended long ago go.    *)
EnforceRetention ==
  /\ \E f \in Families : family[f].state \in {"revoked", "expired"}
  /\ family' = [f \in Families |-> IF family[f].state \in {"revoked", "expired"}
                                   THEN [family[f] EXCEPT !.state = "deleted", !.live = {}] ELSE family[f]]
  /\ challenge' = [c \in Challenges |-> IF challenge[c].state = "expired" THEN [challenge[c] EXCEPT !.state = "deleted"]
                                        ELSE challenge[c]]
  /\ UNCHANGED <<profiles, login, assertions, grant, betaOn, request, files, erased>>
-----------------------------------------------------------------------------
(* Friend-beta access.  create_friend_beta_access_grant refuses a second   *)
(* active grant; issue_friend_beta_session replaces the grant's bearer;    *)
(* revoking the grant, or logging out, ends it; the switch suspends all.   *)
CreateGrant(g, u) ==
  /\ grant[g].state = "none"
  /\ \A h \in Grants : ~(grant[h].user = u /\ grant[h].state = "active")
  /\ grant' = [grant EXCEPT ![g] = [NoGrant EXCEPT !.state = "active", !.user = u]]
  /\ profiles' = profiles \cup {u} /\ erased' = erased \ {u}
  /\ UNCHANGED <<login, challenge, assertions, family, betaOn, request, files>>

Reissued(row) == [row EXCEPT !.issued = @ + 1, !.live = {row.issued + 1}]

RedeemGrant(g) ==
  /\ betaOn /\ grant[g].state = "active" /\ grant[g].issued < MaxRotations
  /\ grant' = [grant EXCEPT ![g] = Reissued(@)]
  /\ UNCHANGED <<profiles, login, challenge, assertions, family, betaOn, request, files, erased>>

RevokeGrant(g) ==
  /\ grant[g].state \in {"active", "expired"}
  /\ grant' = [grant EXCEPT ![g].state = "revoked", ![g].live = {}]
  /\ UNCHANGED <<profiles, login, challenge, assertions, family, betaOn, request, files, erased>>

SwitchBeta ==
  /\ betaOn' = ~betaOn
  /\ grant' = IF betaOn' THEN grant ELSE [g \in Grants |-> [grant[g] EXCEPT !.live = {}]]
  /\ UNCHANGED <<profiles, login, challenge, assertions, family, request, files, erased>>
-----------------------------------------------------------------------------
(* delete_account: every row that names the account goes.  Files are       *)
(* renamed into the quarantine inside the transaction and unlinked after   *)
(* it; an error puts them back, a crash before the commit or before the    *)
(* unlinking leaves them there.                                            *)
Without(u) ==
  /\ profiles' = profiles \ {u} /\ erased' = erased \cup {u}
  /\ login' = [s \in Subjects |-> IF login[s].user = u THEN NoLogin ELSE login[s]]
  /\ assertions' = {a \in assertions : login[a[2]].user # u}
  /\ challenge' = [c \in Challenges |-> IF challenge[c].owner = u
                                        THEN [challenge[c] EXCEPT !.state = "deleted", !.owner = NoUser]
                                        ELSE challenge[c]]
  /\ family' = [f \in Families |-> IF family[f].user = u THEN [NoFamily EXCEPT !.state = "deleted"] ELSE family[f]]
  /\ grant' = [g \in Grants |-> IF grant[g].user = u THEN [NoGrant EXCEPT !.state = "deleted"] ELSE grant[g]]

Staged(u) == [files EXCEPT ![u] = IF @ = "named" THEN "staged" ELSE @]

DeleteAccount(x) ==
  LET u == request[x].user
  IN /\ request[x].kind = "erase"
     /\ \/ /\ u \in profiles /\ Without(u) /\ files' = Staged(u)
           /\ request' = [request EXCEPT ![x] = [NoRequest EXCEPT !.kind = "unlink files", !.user = u]]
        \/ /\ files' \in {files} \cup {Staged(v) : v \in {u} \cap profiles}
           /\ request' = [request EXCEPT ![x] = NoRequest]
           /\ UNCHANGED <<profiles, login, challenge, assertions, family, grant, erased>>
     /\ UNCHANGED betaOn

UnlinkStaged(x) ==
  /\ request[x].kind = "unlink files"
  /\ files' \in {files, [files EXCEPT ![request[x].user] = "none"]}
  /\ request' = [request EXCEPT ![x] = NoRequest]
  /\ UNCHANGED <<profiles, login, challenge, assertions, family, grant, betaOn, erased>>

(* save_upload does not ask whether the account still exists.              *)
SaveUpload(x) ==
  /\ request[x].kind = "upload"
  /\ files' \in {files, [files EXCEPT ![request[x].user] = "named"]}
  /\ request' = [request EXCEPT ![x] = NoRequest]
  /\ UNCHANGED <<profiles, login, challenge, assertions, family, grant, betaOn, erased>>

(* Nor does update_profile, whose insert replaces the row when there is    *)
(* one; the avatar route writes the image before it.  An error takes the   *)
(* image away again.                                                       *)
UpdateProfile(x) ==
  LET u == request[x].user
  IN /\ request[x].kind = "profile"
     /\ \/ profiles' = profiles \cup {u} /\ files' \in {files, [files EXCEPT ![u] = "named"]}
        \/ UNCHANGED <<profiles, files>>
     /\ request' = [request EXCEPT ![x] = NoRequest]
     /\ UNCHANGED <<login, challenge, assertions, family, grant, betaOn, erased>>

IdentityNext ==
  \/ \E c \in Challenges, provider \in Providers : \/ SignInChallenge(c, provider)
                                                 \/ \E x \in Requests : LinkChallenge(x, c, provider)
  \/ \E x \in Requests : \/ \E c \in Challenges, s \in Subjects : BeginExchange(x, c, s)
                         \/ \E kind \in {"link", "unlink", "upload", "profile", "erase"} : Begin(x, kind)
                         \/ FinishExchange(x) \/ ExchangeFails(x) \/ FinishUnlink(x)
                         \/ SaveUpload(x) \/ UpdateProfile(x) \/ DeleteAccount(x) \/ UnlinkStaged(x)
  \/ \E f \in Families : Logout(f) \/ \E i \in RefreshTokens(f), channel \in BOOLEAN : RefreshSession(f, i, channel)
  \/ Expire \/ EnforceRetention \/ SwitchBeta
  \/ \E g \in Grants : RedeemGrant(g) \/ RevokeGrant(g) \/ \E u \in Friends : CreateGrant(g, u)

IdentitySpec == IdentityInit /\ [][IdentityNext]_identityVars
-----------------------------------------------------------------------------
(* A family has at most one bearer and one refresh token that work, a      *)
(* grant one bearer, and a family that a reused token, a logout or the     *)
(* removal of its login ended has none ever again, also after the login is *)
(* linked again.                                                           *)
SessionsStayLinear ==
  /\ \A f \in Families :
       /\ Cardinality(ValidBearers(f)) <= 1 /\ Cardinality(Usable(f)) <= 1
       /\ family[f].ended => ValidBearers(f) = {} /\ Usable(f) = {}
  /\ \A g \in Grants : Cardinality(ValidGrantBearers(g)) <= 1

(* An account that has a login keeps one that works, however requests to   *)
(* remove logins from different devices overlap.                           *)
AccountsKeepALogin ==
  \A s \in Subjects : login[s].user # NoUser => Connected(login[s].user) # {}

(* Erasure is the end of an account's authority: no sign-in, link, unlink, *)
(* refresh or profile change that was under way, and no link challenge     *)
(* that was written too late, gives an erased account a login, a session   *)
(* or a grant again.  Rows without authority are not meant: a profile or a *)
(* link challenge that such a request writes stays (UpdateProfile,         *)
(* LinkChallenge).                                                         *)
ErasedCannotReturn ==
  \A u \in erased :
    /\ \A s \in Subjects : login[s].user # u
    /\ \A f \in Families : family[f].user # u
    /\ \A g \in Grants : grant[g].user # u
=============================================================================
