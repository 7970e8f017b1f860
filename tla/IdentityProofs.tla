--------------------------- MODULE IdentityProofs ---------------------------
(***************************************************************************)
(* Proofs about Identity: sessions stay linear, accounts keep a login that *)
(* works, and an erased account gets no authority again, for any number of *)
(* accounts and requests.                                                  *)
(***************************************************************************)
EXTENDS Identity, FiniteSetTheorems, TLAPS

Someone == Users \cup {NoUser}
Subject == Subjects \cup {NoSubject}
FamilyRows == [state : {"none", "open", "revoked", "expired", "deleted"}, user : Someone, login : Subject,
               issued : Nat, used : SUBSET Nat, live : SUBSET Nat, ended : BOOLEAN]
GrantRows == [state : {"none", "active", "expired", "revoked", "deleted"}, user : Someone, issued : Nat,
              live : SUBSET Nat]
LoginRows == [user : Someone, status : {"none", "connected", "disconnected"}]
ChallengeRows == [state : {"none", "open", "expired", "used", "deleted"}, provider : Providers \cup {"none"},
                  action : {"none", "sign_in", "link"}, owner : Someone]
RequestRows == [kind : {"none", "exchange", "link", "unlink", "upload", "profile", "erase", "unlink files"}, user : Someone,
                login : Subject, c : Challenges \cup {NoChallengeId}, s : Subject]

IdentityTypes ==
  /\ profiles \subseteq Users /\ erased \subseteq Users
  /\ login \in [Subjects -> LoginRows] /\ challenge \in [Challenges -> ChallengeRows]
  /\ family \in [Families -> FamilyRows] /\ grant \in [Grants -> GrantRows]
  /\ request \in [Requests -> RequestRows]

(* At most one bearer is live, the tokens of an open family were used in   *)
(* turn, all but the last, and what gives authority names an account.      *)
AtMostOne(live) == live = {} \/ \E n \in Nat : live = {n}
Linear(fam) ==
  /\ fam \in FamilyRows /\ AtMostOne(fam.live)
  /\ fam.state = "open" => /\ ~fam.ended /\ fam.issued >= 1 /\ fam.used = 1 .. (fam.issued - 1)
                           /\ fam.user \in Users
Granting(row) == AtMostOne(row.live) /\ (row.state = "active" => row.user \in Users)
LinearInv == (\A f \in Families : Linear(family[f])) /\ (\A g \in Grants : Granting(grant[g]))

(* No row that gives authority names an erased account.                    *)
ErasedInv ==
  /\ \A s \in Subjects : login[s].user \notin erased
  /\ \A f \in Families : family[f].user \notin erased
  /\ \A g \in Grants : grant[g].user \notin erased

(* What an exchange read before its awaits about a challenge that is still *)
(* there: had its account been erased since, the challenge would have gone *)
(* with it.  A challenge written for an account after its erasure is no    *)
(* exception, since nobody can begin an exchange of it.  Other requests    *)
(* speak for an account, erased meanwhile or not.                          *)
Reads(r, chal, gone) ==
  /\ r.kind = "exchange" =>
       /\ r.c \in Challenges /\ r.s \in Subjects /\ chal[r.c].state # "none"
       /\ chal[r.c].state \in {"open", "expired"} => chal[r.c].owner = r.user /\ r.user \notin gone
  /\ r.kind \notin {"none", "exchange"} => r.user \in Users
ExchangeInv == \A x \in Requests : Reads(request[x], challenge, erased)

KeepInv == \A s \in Subjects : login[s].user # NoUser =>
             \E t \in Subjects : login[t] = [user |-> login[s].user, status |-> "connected"]

IdentityInv == IdentityTypes /\ LinearInv /\ ErasedInv /\ ExchangeInv /\ KeepInv
-----------------------------------------------------------------------------
LEMMA NoRows ==
  /\ NoLogin \in LoginRows /\ NoChallenge \in ChallengeRows /\ NoGrant \in GrantRows
  /\ NoRequest \in RequestRows /\ Linear(NoFamily)
  /\ Linear([NoFamily EXCEPT !.state = "deleted"])
  /\ [NoGrant EXCEPT !.state = "deleted"] \in GrantRows
<1>1. /\ NoLogin \in LoginRows /\ NoChallenge \in ChallengeRows /\ NoGrant \in GrantRows
      /\ NoRequest \in RequestRows
  BY DEF NoLogin, NoChallenge, NoGrant, NoRequest, LoginRows, ChallengeRows, GrantRows, RequestRows,
         Someone, Subject
<1>2. NoFamily \in FamilyRows
  BY DEF NoFamily, FamilyRows, Someone, Subject
<1>3. Linear(NoFamily)
  BY <1>2 DEF NoFamily, Linear, AtMostOne
<1>4. [NoFamily EXCEPT !.state = "deleted"] \in FamilyRows
  BY <1>2 DEF FamilyRows
<1>5. Linear([NoFamily EXCEPT !.state = "deleted"])
  BY <1>4 DEF NoFamily, Linear, AtMostOne
<1>6. [NoGrant EXCEPT !.state = "deleted"] \in GrantRows
  BY <1>1 DEF GrantRows
<1> QED BY <1>1, <1>3, <1>5, <1>6

LEMMA IdentityStarts == IdentityInit => IdentityInv
<1> SUFFICES ASSUME IdentityInit PROVE IdentityInv
  OBVIOUS
<1>1. IdentityTypes
  BY NoRows DEF IdentityInit, IdentityTypes, Linear
<1>2. LinearInv
  BY NoRows DEF IdentityInit, LinearInv, NoGrant, Granting, AtMostOne
<1>3. ErasedInv /\ ExchangeInv /\ KeepInv
  BY DEF IdentityInit, ErasedInv, ExchangeInv, KeepInv, Reads, NoLogin, NoRequest
<1> QED BY <1>1, <1>2, <1>3 DEF IdentityInv

(* Families that end.                                                      *)
LEMMA EndedFamilies ==
  ASSUME NEW fam, Linear(fam)
  PROVE  /\ Linear(Revoked(fam)) /\ Revoked(fam).user = fam.user /\ Revoked(fam).login = fam.login
         /\ Linear([Revoked(fam) EXCEPT !.ended = TRUE]) /\ [Revoked(fam) EXCEPT !.ended = TRUE].user = fam.user
         /\ \A state \in {"deleted", "expired"} :
              /\ Linear([fam EXCEPT !.state = state]) /\ [fam EXCEPT !.state = state].user = fam.user
              /\ Linear([fam EXCEPT !.state = state, !.live = {}])
              /\ [fam EXCEPT !.state = state, !.live = {}].user = fam.user
<1>0. fam \in FamilyRows /\ AtMostOne(fam.live)
  BY DEF Linear
<1>1. ASSUME NEW state \in {"none", "revoked", "expired", "deleted"}
      PROVE  LET e == [fam EXCEPT !.state = state, !.live = {}, !.ended = TRUE]
             IN /\ e \in FamilyRows /\ e.state = state /\ e.live = {} /\ e.user = fam.user
                /\ e.login = fam.login
  BY <1>0 DEF FamilyRows
<1>2. (IF fam.state = "open" THEN "revoked" ELSE fam.state) \in {"none", "revoked", "expired", "deleted"}
  BY <1>0 DEF FamilyRows
<1>3. PICK last \in {"none", "revoked", "expired", "deleted"} :
        Revoked(fam) = [fam EXCEPT !.state = last, !.live = {}, !.ended = TRUE]
  BY <1>2 DEF Revoked
<1>4. /\ Revoked(fam) \in FamilyRows /\ Revoked(fam).state # "open" /\ Revoked(fam).live = {}
      /\ Revoked(fam).user = fam.user /\ Revoked(fam).login = fam.login
  BY <1>1, <1>3
<1>5. Linear(Revoked(fam)) /\ Linear([Revoked(fam) EXCEPT !.ended = TRUE])
      /\ [Revoked(fam) EXCEPT !.ended = TRUE].user = fam.user
  <2> DEFINE r == Revoked(fam)
             e == [r EXCEPT !.ended = TRUE]
  <2> HIDE DEF r
  <2>1. r \in FamilyRows /\ r.state # "open" /\ r.live = {} /\ r.user = fam.user
    BY <1>4 DEF r
  <2>2. e \in FamilyRows /\ e.state = r.state /\ e.live = r.live /\ e.user = r.user
    BY <2>1 DEF FamilyRows
  <2> HIDE DEF e
  <2>3. Linear(r) /\ Linear(e)
    BY <2>1, <2>2 DEF Linear, AtMostOne
  <2> QED BY <2>1, <2>2, <2>3 DEF r, e
<1>6. ASSUME NEW state \in {"deleted", "expired"}
      PROVE  /\ Linear([fam EXCEPT !.state = state]) /\ [fam EXCEPT !.state = state].user = fam.user
             /\ Linear([fam EXCEPT !.state = state, !.live = {}])
             /\ [fam EXCEPT !.state = state, !.live = {}].user = fam.user
  <2>1. LET e == [fam EXCEPT !.state = state]
        IN e \in FamilyRows /\ e.state = state /\ e.live = fam.live /\ e.user = fam.user
    BY <1>0 DEF FamilyRows
  <2>2. LET e == [fam EXCEPT !.state = state, !.live = {}]
        IN e \in FamilyRows /\ e.state = state /\ e.live = {} /\ e.user = fam.user
    BY <1>0 DEF FamilyRows
  <2> QED BY <1>0, <2>1, <2>2 DEF Linear, AtMostOne
<1> QED BY <1>4, <1>5, <1>6

LEMMA CleanedFamilies ==
  ASSUME LinearInv, IdentityTypes
  PROVE  /\ CleanedUp \in [Families -> FamilyRows]
         /\ \A f \in Families : /\ Linear(CleanedUp[f]) /\ CleanedUp[f].user = family[f].user
                                /\ family[f].state # "expired" => CleanedUp[f] = family[f]
<1>1. ASSUME NEW f \in Families
      PROVE  /\ Linear(CleanedUp[f]) /\ CleanedUp[f].user = family[f].user
             /\ family[f].state # "expired" => CleanedUp[f] = family[f]
  <2>1. CleanedUp[f] = IF family[f].state = "expired" THEN [family[f] EXCEPT !.state = "deleted", !.live = {}]
                       ELSE family[f]
    BY DEF CleanedUp
  <2>2. Linear(family[f])
    BY DEF LinearInv
  <2> QED BY <2>1, <2>2, EndedFamilies
<1>2. CleanedUp \in [Families -> FamilyRows]
  BY <1>1 DEF CleanedUp, Linear
<1> QED BY <1>1, <1>2

(* A step that only rewrites families, each for the account it has.        *)
LEMMA OnlyFamilies ==
  ASSUME IdentityInv, UNCHANGED <<profiles, login, challenge, grant, request, erased>>,
         family' \in [Families -> FamilyRows],
         \A f \in Families : Linear(family'[f]) /\ family'[f].user = family[f].user
  PROVE  IdentityInv'
<1>1. IdentityTypes' /\ LinearInv' /\ ErasedInv'
  BY DEF IdentityInv, IdentityTypes, LinearInv, ErasedInv
<1>2. ExchangeInv' /\ KeepInv'
  BY DEF IdentityInv, ExchangeInv, KeepInv
<1> QED BY <1>1, <1>2 DEF IdentityInv

(* Replacing the family f.                                                 *)
LEMMA OneFamily ==
  ASSUME LinearInv, IdentityTypes, NEW g \in [Families -> FamilyRows], NEW f \in Families, NEW fam,
         Linear(fam), fam.user = family[f].user,
         \A x \in Families : Linear(g[x]) /\ g[x].user = family[x].user,
         family' = [g EXCEPT ![f] = fam]
  PROVE  /\ family' \in [Families -> FamilyRows]
         /\ \A x \in Families : Linear(family'[x]) /\ family'[x].user = family[x].user
<1>1. fam \in FamilyRows
  BY DEF Linear
<1>2. family'[f] = fam /\ \A x \in Families \ {f} : family'[x] = g[x]
  OBVIOUS
<1> QED BY <1>1, <1>2

(* Whom a request may speak for.                                           *)
LEMMA PrincipalsExist ==
  ASSUME IdentityInv, NEW p \in Principals
  PROVE  p[1] \in Users /\ p[1] \notin erased /\ p[2] \in Subject
<1>1. CASE p \in {<<family[f].user, family[f].login>> : f \in {f \in Families : ValidBearers(f) # {}}}
  <2>1. PICK f \in Families : p = <<family[f].user, family[f].login>> /\ ValidBearers(f) # {}
    BY <1>1
  <2>2. family[f].user \in Users
    BY <2>1 DEF ValidBearers, IdentityInv, LinearInv, Linear
  <2> QED BY <2>1, <2>2 DEF IdentityInv, IdentityTypes, ErasedInv, FamilyRows
<1>2. CASE p \in {<<grant[g].user, NoSubject>> : g \in {g \in Grants : ValidGrantBearers(g) # {}}}
  <2>1. PICK g \in Grants : p = <<grant[g].user, NoSubject>> /\ ValidGrantBearers(g) # {}
    BY <1>2
  <2>2. grant[g].user \in Users
    BY <2>1 DEF ValidGrantBearers, IdentityInv, LinearInv, Granting
  <2> QED BY <2>1, <2>2 DEF IdentityInv, ErasedInv, Subject
<1> QED BY <1>1, <1>2 DEF Principals
-----------------------------------------------------------------------------
(* Requests begin and end.                                                 *)
LEMMA OneRequest ==
  ASSUME IdentityTypes, ExchangeInv, NEW x \in Requests, NEW r \in RequestRows, Reads(r, challenge', erased'),
         request' = [request EXCEPT ![x] = r],
         \A y \in Requests : Reads(request[y], challenge, erased) => Reads(request[y], challenge', erased')
  PROVE  request' \in [Requests -> RequestRows] /\ ExchangeInv'
<1>1. request' \in [Requests -> RequestRows] /\ request'[x] = r
      /\ \A y \in Requests \ {x} : request'[y] = request[y]
  BY DEF IdentityTypes
<1> QED BY <1>1 DEF ExchangeInv

LEMMA RequestEnds == NoRequest \in RequestRows /\ \A chal, gone : Reads(NoRequest, chal, gone)
BY NoRows DEF Reads, NoRequest

LEMMA OnlyRequests ==
  ASSUME IdentityInv, UNCHANGED <<login, challenge, family, grant, erased>>, profiles' \subseteq Users,
         NEW x \in Requests, NEW r \in RequestRows, Reads(r, challenge, erased),
         request' = [request EXCEPT ![x] = r]
  PROVE  IdentityInv'
<1>1. request' \in [Requests -> RequestRows] /\ ExchangeInv'
  BY OneRequest DEF IdentityInv
<1>2. IdentityTypes' /\ LinearInv' /\ ErasedInv' /\ KeepInv'
  BY <1>1 DEF IdentityInv, IdentityTypes, LinearInv, ErasedInv, KeepInv
<1> QED BY <1>1, <1>2 DEF IdentityInv

(* The late challenge of an erased account is written all the same.        *)
LEMMA ChallengeInserted ==
  ASSUME IdentityInv, NEW c \in Challenges, NEW provider \in Providers, NEW action \in {"sign_in", "link"},
         NEW u \in Someone, CreateChallenge(c, provider, action, u),
         request' \in [Requests -> RequestRows],
         \A x \in Requests : request'[x] \in {request[x], NoRequest}
  PROVE  IdentityInv'
<1> DEFINE row == [state |-> "open", provider |-> provider, action |-> action, owner |-> u]
<1>0. /\ IdentityTypes /\ LinearInv /\ ErasedInv /\ ExchangeInv /\ KeepInv
      /\ UNCHANGED <<profiles, login, grant, erased>>
      /\ challenge[c].state = "none" /\ challenge' = [challenge EXCEPT ![c] = row] /\ family' = CleanedUp
  BY DEF IdentityInv, CreateChallenge
<1>2. row \in ChallengeRows
  BY DEF ChallengeRows
<1> HIDE DEF row
<1>3. /\ challenge' \in [Challenges -> ChallengeRows] /\ challenge'[c] = row
      /\ \A x \in Challenges \ {c} : challenge'[x] = challenge[x]
  BY <1>0, <1>2 DEF IdentityTypes
<1>4. /\ family' \in [Families -> FamilyRows]
      /\ \A f \in Families : Linear(family'[f]) /\ family'[f].user = family[f].user
  BY <1>0, CleanedFamilies
<1>5. IdentityTypes' /\ LinearInv' /\ KeepInv'
  BY <1>0, <1>3, <1>4 DEF IdentityTypes, LinearInv, KeepInv
<1>6. ErasedInv'
  BY <1>0, <1>4 DEF ErasedInv
<1>7. ExchangeInv'
  <2> SUFFICES ASSUME NEW x \in Requests PROVE Reads(request'[x], challenge', erased)
    BY <1>0 DEF ExchangeInv
  <2>1. Reads(request[x], challenge, erased)
    BY <1>0 DEF ExchangeInv
  <2>2. Reads(request[x], challenge', erased)
    BY <1>0, <1>3, <2>1 DEF Reads
  <2> QED BY <2>2, RequestEnds
<1> QED BY <1>5, <1>6, <1>7 DEF IdentityInv

LEMMA SignInStep ==
  ASSUME IdentityInv, NEW c \in Challenges, NEW provider \in Providers, SignInChallenge(c, provider)
  PROVE  IdentityInv'
<1>1. CreateChallenge(c, provider, "sign_in", NoUser) /\ UNCHANGED request
  BY DEF SignInChallenge
<1>2. NoUser \in Someone /\ request' \in [Requests -> RequestRows]
  BY <1>1 DEF Someone, IdentityInv, IdentityTypes
<1> QED BY <1>1, <1>2, ChallengeInserted

LEMMA LinkStep ==
  ASSUME IdentityInv, NEW x \in Requests, NEW c \in Challenges, NEW provider \in Providers,
         LinkChallenge(x, c, provider)
  PROVE  IdentityInv'
<1>1. /\ CreateChallenge(c, provider, "link", request[x].user)
      /\ request' = [request EXCEPT ![x] = NoRequest] /\ request \in [Requests -> RequestRows]
  BY DEF LinkChallenge, IdentityInv, IdentityTypes
<1>2. request[x].user \in Someone
  BY <1>1 DEF RequestRows
<1>3. /\ request' \in [Requests -> RequestRows]
      /\ \A y \in Requests : request'[y] \in {request[y], NoRequest}
  BY <1>1, NoRows
<1> QED BY <1>1, <1>2, <1>3, ChallengeInserted

LEMMA BeginExchangeStep ==
  ASSUME IdentityInv, NEW x \in Requests, NEW c \in Challenges, NEW s \in Subjects, BeginExchange(x, c, s)
  PROVE  IdentityInv'
<1>0. UNCHANGED <<profiles, login, challenge, family, grant, erased>> /\ challenge[c].state = "open"
  BY DEF BeginExchange
<1> DEFINE r == [NoRequest EXCEPT !.kind = "exchange", !.user = challenge[c].owner, !.c = c, !.s = s]
<1>1. request' = [request EXCEPT ![x] = r]
  BY DEF BeginExchange
<1>2. challenge[c].owner \in Someone
  BY DEF IdentityInv, IdentityTypes, ChallengeRows
<1>3. /\ r \in RequestRows /\ r.kind = "exchange" /\ r.c = c /\ r.s = s /\ r.user = challenge[c].owner
  BY <1>2, NoRows DEF RequestRows, Subject
<1>a. challenge[c].owner \notin erased
  <2>1. challenge[c].owner \in {p[1] : p \in Principals} \cup {NoUser}
    BY DEF BeginExchange
  <2>2. NoUser \notin erased
    BY NoUserIsNotAUser DEF IdentityInv, IdentityTypes
  <2> QED BY <2>1, <2>2, PrincipalsExist
<1> HIDE DEF r
<1>4. Reads(r, challenge, erased)
  BY <1>0, <1>3, <1>a DEF Reads
<1>5. profiles' \subseteq Users
  BY <1>0 DEF IdentityInv, IdentityTypes
<1> QED BY <1>0, <1>1, <1>3, <1>4, <1>5, OnlyRequests

LEMMA BeginStep ==
  ASSUME IdentityInv, NEW x \in Requests, NEW kind \in {"link", "unlink", "upload", "profile", "erase"},
         Begin(x, kind)
  PROVE  IdentityInv'
<1>0. UNCHANGED <<profiles, login, challenge, family, grant, erased>>
  BY DEF Begin
<1>1. PICK p \in Principals :
        request' = [request EXCEPT ![x] = [NoRequest EXCEPT !.kind = kind, !.user = p[1], !.login = p[2]]]
  BY DEF Begin
<1>2. p[1] \in Users /\ p[1] \in Someone /\ p[2] \in Subject
  BY PrincipalsExist DEF Someone
<1> DEFINE r == [NoRequest EXCEPT !.kind = kind, !.user = p[1], !.login = p[2]]
<1>3. r \in RequestRows /\ r.kind # "exchange" /\ r.user = p[1]
  BY <1>2, NoRows DEF RequestRows
<1> HIDE DEF r
<1>4. Reads(r, challenge, erased)
  BY <1>2, <1>3 DEF Reads
<1>5. profiles' \subseteq Users
  BY <1>0 DEF IdentityInv, IdentityTypes
<1> QED BY <1>0, <1>1, <1>3, <1>4, <1>5, OnlyRequests DEF r

LEMMA QuietEnds ==
  ASSUME IdentityInv, NEW x \in Requests, UNCHANGED <<profiles, login, challenge, family, grant, erased>>,
         request' = [request EXCEPT ![x] = NoRequest]
  PROVE  IdentityInv'
<1>1. profiles' \subseteq Users
  BY DEF IdentityInv, IdentityTypes
<1> QED BY <1>1, RequestEnds, OnlyRequests

(* The profile of an erased account may come back; it gives no authority.  *)
LEMMA ProfileStep == ASSUME IdentityInv, NEW x \in Requests, UpdateProfile(x) PROVE IdentityInv'
<1>1. /\ UNCHANGED <<login, challenge, family, grant, erased>>
      /\ request' = [request EXCEPT ![x] = NoRequest] /\ request[x] \in RequestRows
      /\ request[x].kind = "profile" /\ profiles \subseteq Users
      /\ profiles' \in {profiles, profiles \cup {request[x].user}}
  BY DEF UpdateProfile, IdentityInv, IdentityTypes
<1>2. request[x].user \in Users
  BY <1>1 DEF IdentityInv, ExchangeInv, Reads
<1>3. profiles' \subseteq Users
  BY <1>1, <1>2
<1> QED BY <1>1, <1>3, RequestEnds, OnlyRequests

LEMMA FamilyOpens ==
  ASSUME NEW u \in Users, NEW s \in Subjects
  PROVE  Linear(NewFamily(u, s)) /\ NewFamily(u, s).user = u
<1> DEFINE n == NewFamily(u, s)
<1>1. NoFamily \in FamilyRows /\ NoFamily.used = {} /\ NoFamily.ended = FALSE
  BY NoRows DEF Linear, NoFamily
<1>2. n \in FamilyRows /\ n.state = "open" /\ n.user = u /\ n.issued = 1 /\ n.live = {1}
      /\ n.used = NoFamily.used /\ n.ended = NoFamily.ended
  <2> DEFINE k == 1
             w == {1}
             b == NoFamily
  <2>2. u \in Someone /\ s \in Subject /\ w \in SUBSET Nat /\ k \in Nat /\ b \in FamilyRows
    BY <1>1 DEF Someone, Subject
  <2>3. n = [b EXCEPT !.state = "open", !.user = u, !.login = s, !.issued = k, !.live = w]
    BY Zenon DEF NewFamily
  <2> HIDE DEF n, k, w, b
  <2>4. /\ n \in FamilyRows /\ n.state = "open" /\ n.user = u /\ n.issued = k /\ n.live = w
        /\ n.used = b.used /\ n.ended = b.ended
    BY <2>2, <2>3 DEF FamilyRows
  <2> QED BY <2>4 DEF k, w, b
<1> HIDE DEF n
<1>3. 1 .. (n.issued - 1) = {}
  BY <1>2
<1>4. Linear(n)
  BY <1>1, <1>2, <1>3 DEF Linear, AtMostOne
<1> QED BY <1>2, <1>4 DEF n

LEMMA ExchangeStep == ASSUME IdentityInv, NEW x \in Requests, FinishExchange(x) PROVE IdentityInv'
<1> DEFINE r == request[x]
<1>0. /\ IdentityTypes /\ LinearInv /\ ErasedInv /\ ExchangeInv /\ KeepInv
      /\ r.kind = "exchange" /\ UNCHANGED <<grant, erased>> /\ request' = [request EXCEPT ![x] = NoRequest]
  BY DEF IdentityInv, FinishExchange
<1>1. CASE UNCHANGED <<profiles, login, challenge, assertions, family>>
  BY <1>0, <1>1, QuietEnds
<1>2. CASE /\ ~Refused(r)
           /\ \E u \in Owners(r) :
                /\ profiles' = profiles \cup {u}
                /\ login' = [login EXCEPT ![r.s] = [user |-> u, status |-> "connected"]]
                /\ challenge' = [challenge EXCEPT ![r.c].state = "used"]
                /\ assertions' = assertions \cup {<<r.c, r.s>>}
                /\ \/ r.user # NoUser /\ UNCHANGED family
                   \/ /\ r.user = NoUser
                      /\ \E f \in Families :
                           /\ family[f].state = "none"
                           /\ family' = [family EXCEPT ![f] = NewFamily(u, r.s)]
  <2>1. PICK u \in Owners(r) :
          /\ profiles' = profiles \cup {u}
          /\ login' = [login EXCEPT ![r.s] = [user |-> u, status |-> "connected"]]
          /\ challenge' = [challenge EXCEPT ![r.c].state = "used"]
          /\ \/ r.user # NoUser /\ UNCHANGED family
             \/ /\ r.user = NoUser
                /\ \E f \in Families :
                     /\ family[f].state = "none"
                     /\ family' = [family EXCEPT ![f] = NewFamily(u, r.s)]
    BY <1>2
  <2>2. /\ r \in RequestRows /\ r.c \in Challenges /\ r.s \in Subjects
        /\ challenge[r.c].state \in {"open", "expired"} => r.user \notin erased
    BY <1>0 DEF IdentityTypes, ExchangeInv, Reads
  <2>3. /\ challenge[r.c].state \in {"open", "expired"}
        /\ r.user # NoUser => login[r.s].user \in {NoUser, r.user}
    BY <1>2 DEF Refused, ChallengeCurrent
  <2>4. /\ u \in Users /\ u \notin erased /\ login[r.s].user \in {NoUser, u}
    <3>1. CASE r.user # NoUser
      <4>1. u = r.user
        BY <2>1, <3>1 DEF Owners
      <4>2. r.user \in Users /\ r.user \notin erased
        BY <2>2, <2>3, <3>1 DEF RequestRows, Someone
      <4> QED BY <2>3, <3>1, <4>1, <4>2
    <3>2. CASE r.user = NoUser /\ login[r.s].user # NoUser
      <4>1. u = login[r.s].user
        BY <2>1, <3>2 DEF Owners
      <4> QED BY <1>0, <2>2, <3>2, <4>1 DEF ErasedInv, IdentityTypes, LoginRows, Someone
    <3>3. CASE r.user = NoUser /\ login[r.s].user = NoUser
      BY <2>1, <3>3 DEF Owners
    <3> QED BY <3>1, <3>2, <3>3
  <2> DEFINE l == [user |-> u, status |-> "connected"]
  <2>5. l \in LoginRows /\ l.user = u
    BY <2>4 DEF LoginRows, Someone
  <2>6. /\ login' \in [Subjects -> LoginRows] /\ login'[r.s] = l
        /\ \A s \in Subjects \ {r.s} : login'[s] = login[s]
    BY <1>0, <2>1, <2>2, <2>5 DEF IdentityTypes
  <2>7. /\ challenge' \in [Challenges -> ChallengeRows]
        /\ challenge'[r.c].state = "used" /\ challenge'[r.c].owner = challenge[r.c].owner
        /\ \A c \in Challenges \ {r.c} : challenge'[c] = challenge[c]
    <3> DEFINE c == r.c
    <3>1. c \in Challenges /\ challenge \in [Challenges -> ChallengeRows]
          /\ challenge' = [challenge EXCEPT ![c].state = "used"]
      BY <1>0, <2>1, <2>2 DEF IdentityTypes
    <3> HIDE DEF c
    <3>2. /\ challenge' \in [Challenges -> ChallengeRows]
          /\ challenge'[c].state = "used" /\ challenge'[c].owner = challenge[c].owner
          /\ \A y \in Challenges \ {c} : challenge'[y] = challenge[y]
      BY <3>1 DEF ChallengeRows
    <3> QED BY <3>2 DEF c
  <2>8. /\ family' \in [Families -> FamilyRows]
        /\ \A f \in Families : Linear(family'[f]) /\ family'[f].user \notin erased
    <3>1. CASE UNCHANGED family
      BY <1>0, <3>1 DEF IdentityTypes, LinearInv, ErasedInv
    <3>2. CASE \E f \in Families : family' = [family EXCEPT ![f] = NewFamily(u, r.s)]
      <4>1. PICK f \in Families : family' = [family EXCEPT ![f] = NewFamily(u, r.s)]
        BY <3>2
      <4> DEFINE n == NewFamily(u, r.s)
      <4>5. Linear(n) /\ n.user = u /\ n \in FamilyRows
        BY <2>2, <2>4, FamilyOpens DEF Linear
      <4> HIDE DEF n
      <4>6. family'[f] = n /\ \A y \in Families \ {f} : family'[y] = family[y]
        BY <1>0, <4>1 DEF IdentityTypes, n
      <4>7. family' \in [Families -> FamilyRows]
        BY <1>0, <4>1, <4>5 DEF IdentityTypes, n
      <4> QED BY <1>0, <2>4, <4>5, <4>6, <4>7 DEF LinearInv, ErasedInv
    <3> QED BY <2>1, <3>1, <3>2
  <2>9. request' \in [Requests -> RequestRows] /\ ExchangeInv'
    <3>1. \A y \in Requests : Reads(request[y], challenge, erased) => Reads(request[y], challenge', erased')
      BY <1>0, <2>7 DEF Reads
    <3> QED BY <1>0, <3>1, RequestEnds, OneRequest
  <2>10. IdentityTypes' /\ LinearInv'
    BY <1>0, <2>1, <2>4, <2>6, <2>7, <2>8, <2>9 DEF IdentityTypes, LinearInv
  <2>11. ErasedInv'
    <3>2. \A s \in Subjects : login'[s].user \notin erased
      BY <1>0, <2>4, <2>5, <2>6 DEF ErasedInv
    <3> QED BY <1>0, <2>8, <3>2 DEF ErasedInv
  <2>12. KeepInv'
    <3> SUFFICES ASSUME NEW s \in Subjects, login'[s].user # NoUser
                 PROVE  \E t \in Subjects : login'[t] = [user |-> login'[s].user, status |-> "connected"]
      BY DEF KeepInv
    <3>1. CASE login'[s].user = u
      BY <2>2, <2>6, <3>1
    <3>2. CASE login'[s].user # u
      <4>1. s # r.s /\ login'[s] = login[s]
        BY <2>5, <2>6, <3>2
      <4>2. PICK t \in Subjects : login[t] = [user |-> login[s].user, status |-> "connected"]
        BY <1>0, <4>1 DEF KeepInv
      <4>3. t # r.s
        BY <2>4, <3>2, <4>1, <4>2
      <4> QED BY <2>6, <4>1, <4>2, <4>3
    <3> QED BY <3>1, <3>2
  <2> QED BY <2>9, <2>10, <2>11, <2>12 DEF IdentityInv
<1> QED BY <1>1, <1>2 DEF FinishExchange

LEMMA RefreshStep ==
  ASSUME IdentityInv, NEW f \in Families, NEW i \in RefreshTokens(f), NEW channel \in BOOLEAN,
         RefreshSession(f, i, channel)
  PROVE  IdentityInv'
<1>0. /\ IdentityTypes /\ LinearInv /\ UNCHANGED <<profiles, login, challenge, grant, request, erased>>
      /\ family[f].state \in {"open", "revoked"} /\ Linear(family[f])
  BY DEF IdentityInv, RefreshSession, LinearInv
<1>1. /\ CleanedUp \in [Families -> FamilyRows]
      /\ \A x \in Families : Linear(CleanedUp[x]) /\ CleanedUp[x].user = family[x].user
      /\ CleanedUp[f] = family[f]
  BY <1>0, CleanedFamilies
<1>2. PICK fam : Linear(fam) /\ fam.user = family[f].user /\ family' = [CleanedUp EXCEPT ![f] = fam]
  <2>1. CASE family' = [CleanedUp EXCEPT ![f] = [Reused(CleanedUp[f]) EXCEPT !.ended = TRUE]]
    BY <1>0, <1>1, <2>1, EndedFamilies DEF Reused
  <2>2. CASE family' = [CleanedUp EXCEPT ![f] = Revoked(CleanedUp[f])]
    BY <1>0, <1>1, <2>2, EndedFamilies
  <2>3. CASE /\ i \in Usable(f)
             /\ family' = [CleanedUp EXCEPT ![f].used = @ \cup {i}, ![f].issued = @ + 1,
                                    ![f].live = {family[f].issued + 1}]
    <3> DEFINE r == family[f]
               fam == [r EXCEPT !.used = r.used \cup {i}, !.issued = r.issued + 1, !.live = {r.issued + 1}]
    <3>1. r.state = "open" /\ i \in (1 .. r.issued) \ r.used /\ r \in FamilyRows
      BY <1>0, <2>3 DEF Usable, RefreshTokens, Linear
    <3>2. r.issued \in Nat /\ r.issued >= 1 /\ r.used = 1 .. (r.issued - 1) /\ ~r.ended /\ r.user \in Users
      BY <1>0, <3>1 DEF Linear, FamilyRows
    <3> DEFINE k == r.issued + 1
               w == r.used \cup {i}
    <3>3. k \in Nat /\ k >= 1 /\ w \in SUBSET Nat /\ w = 1 .. (k - 1)
      <4>1. i = r.issued
        BY <3>1, <3>2
      <4> QED BY <3>2, <4>1
    <3>4. family' = [CleanedUp EXCEPT ![f] = fam]
      BY <1>1, <2>3
    <3> HIDE DEF k, w, r
    <3>5. LET e == [r EXCEPT !.used = w, !.issued = k, !.live = {k}]
          IN /\ e \in FamilyRows /\ e.used = w /\ e.issued = k /\ e.live = {k} /\ e.user = r.user
             /\ e.ended = r.ended
      BY <3>1, <3>3 DEF FamilyRows
    <3>6. Linear(fam) /\ fam.user = r.user
      BY <3>2, <3>3, <3>5 DEF Linear, AtMostOne, k, w
    <3> QED BY <3>4, <3>6 DEF r
  <2> QED BY <2>1, <2>2, <2>3 DEF RefreshSession
<1>3. /\ family' \in [Families -> FamilyRows]
      /\ \A x \in Families : Linear(family'[x]) /\ family'[x].user = family[x].user
  BY <1>0, <1>1, <1>2, OneFamily
<1> QED BY <1>0, <1>3, OnlyFamilies

LEMMA LogoutStep == ASSUME IdentityInv, NEW f \in Families, Logout(f) PROVE IdentityInv'
<1>0. /\ IdentityTypes /\ LinearInv /\ UNCHANGED <<profiles, login, challenge, grant, request, erased>>
      /\ family' = [family EXCEPT ![f] = Revoked(family[f])] /\ family \in [Families -> FamilyRows]
      /\ \A x \in Families : Linear(family[x]) /\ family[x].user = family[x].user
  BY DEF IdentityInv, Logout, IdentityTypes, LinearInv
<1>1. Linear(Revoked(family[f])) /\ Revoked(family[f]).user = family[f].user
  BY <1>0, EndedFamilies
<1>2. /\ family' \in [Families -> FamilyRows]
      /\ \A x \in Families : Linear(family'[x]) /\ family'[x].user = family[x].user
  BY <1>0, <1>1, OneFamily
<1> QED BY <1>0, <1>2, OnlyFamilies

LEMMA UnlinkStep == ASSUME IdentityInv, NEW x \in Requests, FinishUnlink(x) PROVE IdentityInv'
<1> DEFINE u == request[x].user
<1>0. /\ IdentityTypes /\ LinearInv /\ ErasedInv /\ ExchangeInv /\ KeepInv
      /\ UNCHANGED <<profiles, challenge, grant, erased>> /\ request' = [request EXCEPT ![x] = NoRequest]
  BY DEF IdentityInv, FinishUnlink
<1>1. CASE UNCHANGED <<login, family>>
  BY <1>0, <1>1, QuietEnds
<1>2. CASE \E s \in Connected(u) \ {request[x].login} :
             /\ OneRemains(u)
             /\ login' = [login EXCEPT ![s].status = "disconnected"]
             /\ family' = FamiliesEnd(s)
  <2>1. PICK s \in Connected(u) :
          OneRemains(u) /\ login' = [login EXCEPT ![s].status = "disconnected"] /\ family' = FamiliesEnd(s)
    BY <1>2
  <2>2. s \in Subjects /\ login[s] = [user |-> u, status |-> "connected"]
    BY DEF Connected
  <2>3. PICK o \in Subjects : o # s /\ login[o] = [user |-> u, status |-> "connected"]
    <3> SUFFICES ASSUME \A o \in Subjects : login[o] = [user |-> u, status |-> "connected"] => o = s
                 PROVE  FALSE
      OBVIOUS
    <3>1. Connected(u) = {s}
      BY <2>2 DEF Connected
    <3>2. Cardinality(Connected(u)) = 1
      BY <3>1, FS_Singleton
    <3> QED BY <2>1, <3>2 DEF OneRemains
  <2>4. /\ login' \in [Subjects -> LoginRows] /\ login'[s].user = login[s].user
        /\ \A t \in Subjects \ {s} : login'[t] = login[t]
    BY <1>0, <2>1, <2>2 DEF IdentityTypes, LoginRows
  <2>5. ASSUME NEW f \in Families PROVE Linear(family'[f]) /\ family'[f].user = family[f].user
    <3>1. family'[f] = IF family[f].login = s /\ family[f].state = "open" THEN Revoked(family[f]) ELSE family[f]
      BY <2>1 DEF FamiliesEnd
    <3>2. Linear(family[f])
      BY <1>0 DEF LinearInv
    <3> QED BY <3>1, <3>2, EndedFamilies
  <2>6. family' \in [Families -> FamilyRows]
    BY <2>1, <2>5 DEF FamiliesEnd, Linear
  <2>7. request' \in [Requests -> RequestRows] /\ ExchangeInv'
    BY <1>0, RequestEnds, OneRequest
  <2>8. IdentityTypes' /\ LinearInv'
    BY <1>0, <2>4, <2>5, <2>6, <2>7 DEF IdentityTypes, LinearInv
  <2>9. ErasedInv'
    BY <1>0, <2>2, <2>4, <2>5 DEF ErasedInv
  <2>10. KeepInv'
    <3> SUFFICES ASSUME NEW t \in Subjects, login'[t].user # NoUser
                 PROVE  \E w \in Subjects : login'[w] = [user |-> login'[t].user, status |-> "connected"]
      BY DEF KeepInv
    <3>1. login'[t].user = login[t].user
      BY <2>4
    <3>2. CASE login[t].user = u
      BY <2>3, <2>4, <3>1, <3>2
    <3>3. CASE login[t].user # u
      <4>1. PICK w \in Subjects : login[w] = [user |-> login[t].user, status |-> "connected"]
        BY <1>0, <3>1 DEF KeepInv
      <4>2. w # s
        BY <2>2, <3>3, <4>1
      <4> QED BY <2>4, <3>1, <4>1, <4>2
    <3> QED BY <3>2, <3>3
  <2> QED BY <2>7, <2>8, <2>9, <2>10 DEF IdentityInv
<1> QED BY <1>1, <1>2 DEF FinishUnlink
-----------------------------------------------------------------------------
(* Time.  Challenges that end keep their owner.                            *)
LEMMA ChallengesEnd ==
  ASSUME IdentityInv, UNCHANGED <<profiles, login, grant, request, erased>>,
         family' \in [Families -> FamilyRows],
         \A f \in Families : Linear(family'[f]) /\ family'[f].user = family[f].user,
         challenge' \in [Challenges -> ChallengeRows],
         \A c \in Challenges : /\ challenge'[c].owner = challenge[c].owner
                               /\ challenge[c].state # "none" => challenge'[c].state # "none"
                               /\ challenge'[c].state \in {"open", "expired"} =>
                                    challenge[c].state \in {"open", "expired"}
  PROVE  IdentityInv'
<1>1. IdentityTypes' /\ LinearInv' /\ ErasedInv' /\ KeepInv'
  BY DEF IdentityInv, IdentityTypes, LinearInv, ErasedInv, KeepInv
<1>2. ExchangeInv'
  BY DEF IdentityInv, ExchangeInv, Reads
<1> QED BY <1>1, <1>2 DEF IdentityInv

(* Grants.                                                                 *)
LEMMA GrantsChange ==
  ASSUME IdentityInv, UNCHANGED <<profiles, login, challenge, family, request, erased>>,
         grant' \in [Grants -> GrantRows],
         \A g \in Grants : Granting(grant'[g]) /\ grant'[g].user = grant[g].user
  PROVE  IdentityInv'
<1>1. IdentityTypes' /\ LinearInv' /\ ErasedInv'
  BY DEF IdentityInv, IdentityTypes, LinearInv, ErasedInv
<1>2. ExchangeInv' /\ KeepInv'
  BY DEF IdentityInv, ExchangeInv, KeepInv
<1> QED BY <1>1, <1>2 DEF IdentityInv

LEMMA ExpireStep == ASSUME IdentityInv, Expire PROVE IdentityInv'
<1>0. /\ UNCHANGED <<profiles, login, request, erased>>
      /\ IdentityTypes /\ LinearInv /\ family \in [Families -> FamilyRows]
      /\ challenge \in [Challenges -> ChallengeRows] /\ grant \in [Grants -> GrantRows]
      /\ \A f \in Families : Linear(family[f]) /\ family[f].user = family[f].user
  BY DEF Expire, IdentityInv, IdentityTypes, LinearInv
<1>1. CASE /\ \E c \in Challenges : challenge[c].state = "open" /\ challenge' = [challenge EXCEPT ![c].state = "expired"]
           /\ UNCHANGED <<family, grant>>
  <2>1. PICK c \in Challenges : challenge[c].state = "open" /\ challenge' = [challenge EXCEPT ![c].state = "expired"]
    BY <1>1
  <2>2. /\ challenge' \in [Challenges -> ChallengeRows]
        /\ challenge'[c].owner = challenge[c].owner /\ challenge'[c].state = "expired"
        /\ \A y \in Challenges \ {c} : challenge'[y] = challenge[y]
    BY <1>0, <2>1 DEF ChallengeRows
  <2> QED BY <1>0, <1>1, <2>1, <2>2, ChallengesEnd
<1>2. CASE /\ \E f \in Families : family[f].state = "open" /\ family' = [family EXCEPT ![f].state = "expired"]
           /\ UNCHANGED <<challenge, grant>>
  <2>1. PICK f \in Families : family' = [family EXCEPT ![f].state = "expired"]
    BY <1>2
  <2>2. Linear([family[f] EXCEPT !.state = "expired"]) /\ [family[f] EXCEPT !.state = "expired"].user = family[f].user
    BY <1>0, EndedFamilies
  <2>3. family' = [family EXCEPT ![f] = [family[f] EXCEPT !.state = "expired"]]
    BY <2>1
  <2>4. /\ family' \in [Families -> FamilyRows]
        /\ \A x \in Families : Linear(family'[x]) /\ family'[x].user = family[x].user
    BY <1>0, <2>2, <2>3, OneFamily
  <2> QED BY <1>0, <1>2, <2>4, OnlyFamilies
<1>3. CASE /\ \E g \in Grants : grant[g].state = "active" /\ grant' = [grant EXCEPT ![g].state = "expired"]
           /\ UNCHANGED <<challenge, family>>
  <2>1. PICK g \in Grants : grant' = [grant EXCEPT ![g].state = "expired"]
    BY <1>3
  <2>2. /\ grant' \in [Grants -> GrantRows] /\ grant'[g].live = grant[g].live /\ grant'[g].user = grant[g].user
        /\ \A y \in Grants \ {g} : grant'[y] = grant[y]
    BY <1>0, <2>1 DEF GrantRows
  <2>3. grant'[g].state = "expired"
    BY <1>0, <2>1
  <2>4. \A y \in Grants : Granting(grant'[y]) /\ grant'[y].user = grant[y].user
    BY <1>0, <2>2, <2>3 DEF LinearInv, Granting
  <2> QED BY <1>0, <1>3, <2>2, <2>4, GrantsChange
<1> QED BY <1>1, <1>2, <1>3 DEF Expire

LEMMA RetentionStep == ASSUME IdentityInv, EnforceRetention PROVE IdentityInv'
<1>0. UNCHANGED <<profiles, login, grant, request, erased>> /\ IdentityTypes /\ LinearInv
  BY DEF EnforceRetention, IdentityInv
<1>1. ASSUME NEW f \in Families PROVE Linear(family'[f]) /\ family'[f].user = family[f].user
  <2>1. family'[f] = IF family[f].state \in {"revoked", "expired"}
                     THEN [family[f] EXCEPT !.state = "deleted", !.live = {}] ELSE family[f]
    BY DEF EnforceRetention
  <2>2. Linear(family[f])
    BY <1>0 DEF LinearInv
  <2> QED BY <2>1, <2>2, EndedFamilies
<1>2. family' \in [Families -> FamilyRows]
  BY <1>1 DEF EnforceRetention, Linear
<1>3. ASSUME NEW c \in Challenges
      PROVE  /\ challenge'[c] \in ChallengeRows /\ challenge'[c].owner = challenge[c].owner
             /\ challenge[c].state # "none" => challenge'[c].state # "none"
             /\ challenge'[c].state \in {"open", "expired"} => challenge[c].state \in {"open", "expired"}
  <2>1. challenge'[c] = IF challenge[c].state = "expired" THEN [challenge[c] EXCEPT !.state = "deleted"]
                        ELSE challenge[c]
    BY DEF EnforceRetention
  <2>2. challenge[c] \in ChallengeRows
    BY <1>0 DEF IdentityTypes
  <2> QED BY <2>1, <2>2 DEF ChallengeRows
<1>4. challenge' \in [Challenges -> ChallengeRows]
  BY <1>3 DEF EnforceRetention
<1> QED BY <1>0, <1>1, <1>2, <1>3, <1>4, ChallengesEnd

LEMMA CreateGrantStep ==
  ASSUME IdentityInv, NEW g \in Grants, NEW u \in Friends, CreateGrant(g, u) PROVE IdentityInv'
<1>0. /\ UNCHANGED <<login, challenge, family, request>>
      /\ IdentityTypes /\ LinearInv /\ ErasedInv /\ ExchangeInv /\ KeepInv
      /\ grant' = [grant EXCEPT ![g] = [NoGrant EXCEPT !.state = "active", !.user = u]]
      /\ profiles' = profiles \cup {u} /\ erased' = erased \ {u} /\ u \in Users
  BY IdentityConstants DEF CreateGrant, IdentityInv
<1> DEFINE n == [NoGrant EXCEPT !.state = "active", !.user = u]
<1>1. n \in GrantRows /\ n.user = u /\ n.live = {}
  BY <1>0, NoRows DEF GrantRows, Someone, NoGrant
<1> HIDE DEF n
<1>2. /\ grant' \in [Grants -> GrantRows] /\ grant'[g] = n
      /\ \A y \in Grants \ {g} : grant'[y] = grant[y]
  BY <1>0, <1>1 DEF IdentityTypes, n
<1>3. IdentityTypes' /\ LinearInv'
  <2>1. Granting(n)
    BY <1>0, <1>1 DEF AtMostOne, Granting
  <2> QED BY <1>0, <1>2, <2>1 DEF IdentityTypes, LinearInv
<1>4. ErasedInv'
  <2>1. \A y \in Grants : grant'[y].user \notin erased'
    BY <1>0, <1>1, <1>2 DEF ErasedInv
  <2> QED BY <1>0, <2>1 DEF ErasedInv
<1>5. ExchangeInv' /\ KeepInv'
  BY <1>0 DEF ExchangeInv, KeepInv, Reads
<1> QED BY <1>3, <1>4, <1>5 DEF IdentityInv

LEMMA GrantSteps ==
  ASSUME IdentityInv, NEW g \in Grants, RedeemGrant(g) \/ RevokeGrant(g) PROVE IdentityInv'
<1>0. /\ UNCHANGED <<profiles, login, challenge, family, request, erased>>
      /\ grant \in [Grants -> GrantRows] /\ \A y \in Grants : Granting(grant[y])
  BY DEF RedeemGrant, RevokeGrant, IdentityInv, IdentityTypes, LinearInv
<1>1. PICK n \in GrantRows : Granting(n) /\ n.user = grant[g].user /\ grant' = [grant EXCEPT ![g] = n]
  <2> DEFINE r == grant[g]
             k == r.issued + 1
             w == {k}
  <2>0. r \in GrantRows /\ k \in Nat /\ w \in SUBSET Nat /\ AtMostOne(w)
    BY <1>0 DEF GrantRows, AtMostOne
  <2>1. CASE RedeemGrant(g)
    <3>1. grant' = [grant EXCEPT ![g] = [r EXCEPT !.issued = k, !.live = w]]
      BY <2>1 DEF RedeemGrant, Reissued
    <3>a. r.state = "active" /\ Granting(r)
      BY <1>0, <2>1 DEF RedeemGrant
    <3> HIDE DEF r, k, w
    <3>2. LET e == [r EXCEPT !.issued = k, !.live = w] IN e \in GrantRows /\ e.live = w /\ e.user = r.user
      BY <2>0 DEF GrantRows
    <3> QED BY <2>0, <3>1, <3>2, <3>a DEF r, Granting
  <2>2. CASE RevokeGrant(g)
    <3>1. grant' = [grant EXCEPT ![g] = [r EXCEPT !.state = "revoked", !.live = {}]]
      BY <1>0, <2>2 DEF RevokeGrant
    <3> HIDE DEF r, k, w
    <3>2. LET e == [r EXCEPT !.state = "revoked", !.live = {}]
          IN e \in GrantRows /\ e.live = {} /\ e.user = r.user /\ e.state = "revoked"
      BY <2>0 DEF GrantRows
    <3> QED BY <3>1, <3>2 DEF r, AtMostOne, Granting
  <2> QED BY <2>1, <2>2
<1>2. grant' \in [Grants -> GrantRows] /\ grant'[g] = n /\ \A y \in Grants \ {g} : grant'[y] = grant[y]
  BY <1>0, <1>1
<1> QED BY <1>0, <1>1, <1>2, GrantsChange

LEMMA SwitchStep == ASSUME IdentityInv, SwitchBeta PROVE IdentityInv'
<1>0. /\ UNCHANGED <<profiles, login, challenge, family, request, erased>>
      /\ grant \in [Grants -> GrantRows] /\ \A y \in Grants : Granting(grant[y])
  BY DEF SwitchBeta, IdentityInv, IdentityTypes, LinearInv
<1>1. CASE UNCHANGED grant
  BY <1>0, <1>1, GrantsChange
<1>2. CASE grant' = [g \in Grants |-> [grant[g] EXCEPT !.live = {}]]
  <2>1. ASSUME NEW g \in Grants
        PROVE  /\ grant'[g] \in GrantRows /\ grant'[g].live = {} /\ grant'[g].user = grant[g].user
               /\ grant'[g].state = grant[g].state
    <3>1. grant'[g] = [grant[g] EXCEPT !.live = {}] /\ grant[g] \in GrantRows
      BY <1>0, <1>2
    <3> QED BY <3>1 DEF GrantRows
  <2>2. grant' \in [Grants -> GrantRows]
    BY <1>2, <2>1
  <2>3. \A g \in Grants : Granting(grant'[g]) /\ grant'[g].user = grant[g].user
    BY <1>0, <2>1 DEF AtMostOne, Granting
  <2> QED BY <1>0, <2>2, <2>3, GrantsChange
<1> QED BY <1>1, <1>2 DEF SwitchBeta

LEMMA EraseStep == ASSUME IdentityInv, NEW x \in Requests, DeleteAccount(x) PROVE IdentityInv'
<1> DEFINE u == request[x].user
<1>0. IdentityTypes /\ LinearInv /\ ErasedInv /\ ExchangeInv /\ KeepInv
  BY DEF IdentityInv
<1>1. CASE /\ request' = [request EXCEPT ![x] = NoRequest]
           /\ UNCHANGED <<profiles, login, challenge, assertions, family, grant, erased>>
  BY <1>1, QuietEnds
<1>2. CASE /\ u \in profiles /\ Without(u)
           /\ request' = [request EXCEPT ![x] = [NoRequest EXCEPT !.kind = "unlink files", !.user = u]]
  <2>0. u \in Users
    BY <1>0, <1>2 DEF IdentityTypes
  <2> HIDE DEF u
  <2>1. /\ profiles' = profiles \ {u} /\ erased' = erased \cup {u}
        /\ \A s \in Subjects : login'[s] = IF login[s].user = u THEN NoLogin ELSE login[s]
        /\ \A c \in Challenges : challenge'[c] = IF challenge[c].owner = u
                                   THEN [challenge[c] EXCEPT !.state = "deleted", !.owner = NoUser] ELSE challenge[c]
        /\ \A f \in Families : family'[f] = IF family[f].user = u THEN [NoFamily EXCEPT !.state = "deleted"]
                                            ELSE family[f]
        /\ \A g \in Grants : grant'[g] = IF grant[g].user = u THEN [NoGrant EXCEPT !.state = "deleted"] ELSE grant[g]
    BY <1>2 DEF Without
  <2>a. NoUser # u /\ NoUser \notin erased' /\ NoLogin.user = NoUser
    BY <1>0, <2>0, <2>1, NoUserIsNotAUser DEF IdentityTypes, NoLogin
  <2>2. ASSUME NEW s \in Subjects
        PROVE  login'[s] \in LoginRows /\ login'[s].user \notin erased' /\ login'[s].user # u
    <3>1. login[s] \in LoginRows /\ login[s].user \notin erased
      BY <1>0 DEF IdentityTypes, ErasedInv
    <3> QED BY <2>1, <2>a, <3>1, NoRows
  <2>3. ASSUME NEW c \in Challenges
        PROVE  /\ challenge'[c] \in ChallengeRows
               /\ \/ challenge'[c] = challenge[c] /\ challenge[c].owner # u
                  \/ challenge'[c].state = "deleted"
    <3>1. challenge[c] \in ChallengeRows
      BY <1>0 DEF IdentityTypes
    <3>2. CASE challenge[c].owner = u
      <4>1. challenge'[c] = [challenge[c] EXCEPT !.state = "deleted", !.owner = NoUser]
        BY <2>1, <3>2
      <4>2. challenge'[c] \in ChallengeRows /\ challenge'[c].owner = NoUser /\ challenge'[c].state = "deleted"
        BY <3>1, <4>1 DEF ChallengeRows, Someone
      <4> QED BY <4>2
    <3>3. CASE challenge[c].owner # u
      BY <2>1, <3>1, <3>3
    <3> QED BY <3>2, <3>3
  <2>4. \A f \in Families : Linear(family'[f]) /\ family'[f].user \notin erased'
    <3>1. [NoFamily EXCEPT !.state = "deleted"].user = NoUser
      BY DEF NoFamily
    <3> QED BY <1>0, <2>0, <2>1, <3>1, NoRows, NoUserIsNotAUser DEF IdentityTypes, ErasedInv, LinearInv
  <2>5. ASSUME NEW g \in Grants
        PROVE  grant'[g] \in GrantRows /\ Granting(grant'[g]) /\ grant'[g].user \notin erased'
    <3> DEFINE n == [NoGrant EXCEPT !.state = "deleted"]
    <3>1. n.user = NoUser /\ n.live = {} /\ n \in GrantRows /\ n.state = "deleted"
      BY NoRows DEF NoGrant
    <3>2. Granting(n)
      BY <3>1 DEF AtMostOne, Granting
    <3>3. grant[g] \in GrantRows /\ Granting(grant[g]) /\ grant[g].user \notin erased
      BY <1>0 DEF IdentityTypes, ErasedInv, LinearInv
    <3>4. grant'[g] = IF grant[g].user = u THEN n ELSE grant[g]
      BY <2>1
    <3> HIDE DEF n
    <3> QED BY <2>1, <2>a, <3>1, <3>2, <3>3, <3>4
  <2>6. /\ login' \in [Subjects -> LoginRows] /\ challenge' \in [Challenges -> ChallengeRows]
        /\ family' \in [Families -> FamilyRows] /\ grant' \in [Grants -> GrantRows]
    BY <1>2, <2>2, <2>3, <2>4, <2>5 DEF Without, Linear
  <2> DEFINE n == [NoRequest EXCEPT !.kind = "unlink files", !.user = u]
  <2>7. n \in RequestRows /\ n.kind = "unlink files" /\ n.user = u
    BY <2>0, NoRows DEF RequestRows, Someone
  <2> HIDE DEF n
  <2>8. request' \in [Requests -> RequestRows] /\ ExchangeInv'
    <3>1. Reads(n, challenge', erased')
      BY <2>0, <2>7 DEF Reads
    <3>2. \A y \in Requests : Reads(request[y], challenge, erased) => Reads(request[y], challenge', erased')
      BY <2>1, <2>3 DEF Reads
    <3>3. request' = [request EXCEPT ![x] = n]
      BY <1>2 DEF n
    <3> QED BY <1>0, <2>7, <3>1, <3>2, <3>3, OneRequest
  <2>9. IdentityTypes' /\ LinearInv'
    BY <1>0, <2>0, <2>1, <2>4, <2>5, <2>6, <2>8 DEF IdentityTypes, LinearInv
  <2>10. ErasedInv'
    BY <2>2, <2>4, <2>5 DEF ErasedInv
  <2>11. KeepInv'
    <3> SUFFICES ASSUME NEW s \in Subjects, login'[s].user # NoUser
                 PROVE  \E t \in Subjects : login'[t] = [user |-> login'[s].user, status |-> "connected"]
      BY DEF KeepInv
    <3>1. login'[s] = login[s] /\ login[s].user # u
      BY <2>1, <2>a
    <3>2. PICK t \in Subjects : login[t] = [user |-> login[s].user, status |-> "connected"]
      BY <1>0, <3>1 DEF KeepInv
    <3>3. login[t].user = login[s].user
      BY <3>2
    <3>4. login'[t] = login[t]
      BY <2>1, <3>1, <3>3
    <3> QED BY <3>1, <3>2, <3>4
  <2> QED BY <2>8, <2>9, <2>10, <2>11 DEF IdentityInv
<1> QED BY <1>1, <1>2 DEF DeleteAccount
-----------------------------------------------------------------------------
LEMMA IdentityStep == IdentityInv /\ [IdentityNext]_identityVars => IdentityInv'
<1> SUFFICES ASSUME IdentityInv, [IdentityNext]_identityVars PROVE IdentityInv'
  OBVIOUS
<1>1. CASE UNCHANGED identityVars
  BY <1>1 DEF identityVars, IdentityInv, IdentityTypes, LinearInv, ErasedInv, ExchangeInv, KeepInv
<1>2. CASE IdentityNext
  <2>1. ASSUME NEW x \in Requests, ExchangeFails(x) \/ SaveUpload(x) \/ UnlinkStaged(x) PROVE IdentityInv'
    BY <2>1, QuietEnds DEF ExchangeFails, SaveUpload, UnlinkStaged
  <2> QED BY <1>2, <2>1, SignInStep, LinkStep, ProfileStep, BeginExchangeStep, BeginStep, ExchangeStep, UnlinkStep, EraseStep,
          LogoutStep, RefreshStep, ExpireStep, RetentionStep, SwitchStep, GrantSteps, CreateGrantStep
          DEF IdentityNext
<1> QED BY <1>1, <1>2

(* The tables of the accounts keep their inductive invariant, whatever     *)
(* requests are under way and in whatever order they commit.               *)
THEOREM IdentityInvariance == IdentitySpec => []IdentityInv
<1> QED BY IdentityStarts, IdentityStep, PTL DEF IdentitySpec

(* delete_account ends the authority of the account: no exchange, link,    *)
(* refresh or profile change that was under way gives an erased account a  *)
(* login, a session family or a grant again.                               *)
THEOREM ErasedForGood == IdentitySpec => []ErasedCannotReturn
<1>1. IdentityInv => ErasedCannotReturn
  BY DEF IdentityInv, ErasedInv, ErasedCannotReturn
<1> QED BY <1>1, IdentityInvariance, PTL

(* unlink_login_method: overlapping removals never take the last login.    *)
THEOREM LoginsRemain == IdentitySpec => []AccountsKeepALogin
<1>1. IdentityInv => AccountsKeepALogin
  BY DEF IdentityInv, KeepInv, AccountsKeepALogin, Connected
<1> QED BY <1>1, IdentityInvariance, PTL

(* refresh_session: one bearer and one refresh token work in a family, and *)
(* none in a family that has ended.                                        *)
THEOREM LinearSessions == IdentitySpec => []SessionsStayLinear
<1>1. ASSUME NEW live, AtMostOne(live) PROVE Cardinality(live) <= 1
  <2>1. CASE live = {}
    BY <2>1, FS_EmptySet
  <2>2. CASE \E n \in Nat : live = {n}
    <3>1. PICK n \in Nat : live = {n}
      BY <2>2
    <3>2. Cardinality(live) = 1
      BY <3>1, FS_Singleton
    <3> QED BY <3>2
  <2> QED BY <1>1, <2>1, <2>2 DEF AtMostOne
<1>2. IdentityInv => SessionsStayLinear
  <2> SUFFICES ASSUME IdentityInv PROVE SessionsStayLinear
    OBVIOUS
  <2>1. ASSUME NEW f \in Families
        PROVE  /\ AtMostOne(ValidBearers(f)) /\ AtMostOne(Usable(f))
               /\ family[f].ended => ValidBearers(f) = {} /\ Usable(f) = {}
    <3>1. Linear(family[f])
      BY DEF IdentityInv, LinearInv
    <3>2. AtMostOne(ValidBearers(f)) /\ (family[f].ended => ValidBearers(f) = {} /\ Usable(f) = {})
      BY <3>1 DEF Linear, AtMostOne, ValidBearers, Usable
    <3>3. CASE family[f].state = "open"
      <4> DEFINE k == family[f].issued
      <4>1. k \in Nat /\ k >= 1 /\ family[f].used = 1 .. (k - 1)
        BY <3>1, <3>3 DEF Linear, FamilyRows
      <4>2. Usable(f) = (1 .. k) \ (1 .. (k - 1))
        BY <3>3, <4>1 DEF Usable, RefreshTokens
      <4> HIDE DEF k
      <4>3. (1 .. k) \ (1 .. (k - 1)) = {k}
        BY <4>1
      <4> QED BY <3>2, <4>1, <4>2, <4>3 DEF AtMostOne
    <3>4. CASE family[f].state # "open"
      BY <3>2, <3>4 DEF Usable, AtMostOne
    <3> QED BY <3>3, <3>4
  <2>2. ASSUME NEW g \in Grants PROVE AtMostOne(ValidGrantBearers(g))
    BY DEF IdentityInv, LinearInv, Granting, ValidGrantBearers, AtMostOne
  <2> QED BY <1>1, <2>1, <2>2 DEF SessionsStayLinear
<1> QED BY <1>2, IdentityInvariance, PTL
=============================================================================
