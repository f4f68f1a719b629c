------------------------------ MODULE McpOauth ------------------------------
(***************************************************************************)
(* OAuth for an MCP server over HTTP (plugins/mcp/oauth.ts, class          *)
(* McpOAuth): requests that read the stored tokens, refresh them, answer a *)
(* 401 or 403, and send the user away to authorize.  The provider's store  *)
(* and the authorization server are external and asynchronous: every       *)
(* access of the store and every request is a turn of its own.             *)
(*                                                                         *)
(* A grant is a number: its access token, its refresh token and its scope  *)
(* come from one response.  The server rotates refresh tokens: using one   *)
(* revokes it.  A redirect is a number: its verifier and its state.        *)
(***************************************************************************)
EXTENDS Integers, FiniteSets

CONSTANTS
  OaUsers,      \* concurrent users of one McpOAuth: authHeader and reauthorize
  OaGrants,     \* bound: grants the server gives
  OaRedirects   \* bound: redirects of startRedirect

ASSUME OaAssumption == OaGrants \in Nat \ {0} /\ OaRedirects \in Nat \ {0}

VARIABLES
  oaClient,    \* clientInformation: absent, unbound to an issuer, bound, foreign
  oaTokens,    \* the stored grant, 0 for none
  oaForeign,   \* whether the stored tokens name another issuer
  oaExpired,   \* grants whose access token has expired
  oaLive,      \* grants whose refresh token the server accepts
  oaGranted,   \* grants so far
  oaLost,      \* grants whose response never reached the client
  oaVerifier, oaState,  \* saved by saveCodeVerifier and saveState, 0 for none
  oaStarted,   \* redirects so far
  oaOpen,      \* redirects the user has been sent to and may come back from
  oaUser,      \* each user: where it stands, the grant and the redirect it holds
  oaFinish     \* finish: where it stands and the redirect that came back

oaVars == <<oaClient, oaTokens, oaForeign, oaExpired, oaLive, oaGranted, oaLost,
            oaVerifier, oaState, oaStarted, oaOpen, oaUser, oaFinish>>

OaAt == {"idle", "read", "client", "refresh", "save", "verifier", "state", "ready", "failed"}

OaTypeOK ==
  /\ oaClient \in {"absent", "unbound", "bound", "foreign"}
  /\ oaTokens \in 0 .. oaGranted /\ oaForeign \in BOOLEAN
  /\ oaExpired \subseteq 1 .. oaGranted /\ oaLive \subseteq 1 .. oaGranted
  /\ oaGranted \in 0 .. OaGrants /\ oaLost \subseteq 1 .. oaGranted
  /\ oaVerifier \in 0 .. oaStarted /\ oaState \in 0 .. oaStarted
  /\ oaStarted \in 0 .. OaRedirects /\ oaOpen \subseteq 1 .. oaStarted
  /\ oaUser \in [OaUsers -> [at : OaAt, has : 0 .. oaGranted, for : {"header", "challenge"},
                             redirect : 0 .. oaStarted]]
  /\ oaFinish \in [at : {"idle", "exchange", "save"}, of : 0 .. oaStarted, has : 0 .. oaGranted]

OaInit ==
  /\ oaClient \in {"absent", "unbound", "bound", "foreign"}
  /\ oaTokens \in {0, 1} /\ oaForeign \in BOOLEAN
  /\ oaExpired = {} /\ oaLive = (IF oaTokens = 1 /\ ~oaForeign THEN {1} ELSE {})
  /\ oaGranted = oaTokens /\ oaLost = {}
  /\ oaVerifier = 0 /\ oaState = 0 /\ oaStarted = 0 /\ oaOpen = {}
  /\ oaUser = [u \in OaUsers |-> [at |-> "idle", has |-> 0, for |-> "header", redirect |-> 0]]
  /\ oaFinish = [at |-> "idle", of |-> 0, has |-> 0]

-----------------------------------------------------------------------------

OaUse(u, rec) == oaUser' = [oaUser EXCEPT ![u] = rec]
OaStores == <<oaVerifier, oaState, oaStarted, oaOpen>>
OaServer == <<oaExpired, oaLive, oaGranted, oaLost>>

(* boundTokens: tokens that name another issuer are not there.             *)
OaBound == IF oaForeign THEN 0 ELSE oaTokens

(* authHeader: an expired token with a refresh token is refreshed first.   *)
OaAuthHeader(u) ==
  /\ oaUser[u].at = "idle"
  /\ OaUse(u, [at |-> IF OaBound \in oaExpired THEN "client" ELSE "ready",
               has |-> OaBound, for |-> "header", redirect |-> 0])
  /\ UNCHANGED <<oaClient, oaTokens, oaForeign, OaServer, OaStores, oaFinish>>

(* reauthorize after a 401 (refresh, else redirect) or a challenge for     *)
(* more scope (redirect, as a refresh cannot widen a grant).               *)
OaReauthorize(u, scoped) ==
  /\ oaUser[u].at = "idle" /\ oaTokens # 0
  /\ OaUse(u, [at |-> IF ~scoped /\ OaBound # 0 THEN "client" ELSE "verifier",
               has |-> OaBound, for |-> "challenge", redirect |-> 0])
  /\ UNCHANGED <<oaClient, oaTokens, oaForeign, OaServer, OaStores, oaFinish>>

(* ensureClient: a registration of another issuer is not presented, one    *)
(* without issuer is stamped, a missing one is registered if it can be.    *)
OaClientFor(registers) ==
  IF oaClient \in {"bound", "unbound"} THEN "bound"
  ELSE IF oaClient = "absent" /\ registers THEN "bound" ELSE oaClient

(* A user whose refresh failed: authHeader uses what it has, a challenge   *)
(* goes on to the redirect.                                                *)
OaNoRefresh(u) == [oaUser[u] EXCEPT !.at = IF @ # "failed" /\ oaUser[u].for = "challenge"
                                           THEN "verifier" ELSE "ready"]

OaEnsureClient(u, registers) ==
  /\ oaUser[u].at = "client"
  /\ oaClient' = OaClientFor(registers)
  /\ OaUse(u, IF oaClient' = "bound" THEN [oaUser[u] EXCEPT !.at = "refresh"] ELSE OaNoRefresh(u))
  /\ UNCHANGED <<oaTokens, oaForeign, OaServer, OaStores, oaFinish>>

(* The server takes a refresh token once, and its response may be lost.    *)
OaRefresh(u, lost) ==
  /\ oaUser[u].at = "refresh"
  /\ IF oaUser[u].has \in oaLive /\ oaGranted < OaGrants
     THEN /\ oaGranted' = oaGranted + 1
          /\ oaLive' = (oaLive \ {oaUser[u].has}) \cup {oaGranted + 1}
          /\ oaLost' = IF lost THEN oaLost \cup {oaGranted + 1} ELSE oaLost
          /\ OaUse(u, IF lost THEN OaNoRefresh(u)
                      ELSE [oaUser[u] EXCEPT !.at = "save", !.has = oaGranted + 1])
     ELSE /\ OaUse(u, OaNoRefresh(u))
          /\ UNCHANGED <<oaLive, oaGranted, oaLost>>
  /\ UNCHANGED <<oaClient, oaTokens, oaForeign, oaExpired, OaStores, oaFinish>>

OaSaveSkipped(u) ==
  /\ oaUser[u].at = "save"
  /\ OaUse(u, [oaUser[u] EXCEPT !.at = "ready"])
  /\ UNCHANGED <<oaClient, oaTokens, oaForeign, OaServer, OaStores, oaFinish>>

(* saveTokens: the issuer is recorded with them, and the old refresh token *)
(* is kept when the response has none.                                     *)
OaSave(u) ==
  /\ oaUser[u].at = "save"
  /\ oaTokens' = oaUser[u].has /\ oaForeign' = FALSE
  /\ OaUse(u, [oaUser[u] EXCEPT !.at = "ready"])
  /\ UNCHANGED <<oaClient, OaServer, OaStores, oaFinish>>

(* startRedirect: the client is ensured, then the verifier, the state and  *)
(* the redirect are awaited one after the other.                           *)
OaSaveVerifier(u) ==
  /\ oaUser[u].at = "verifier"
  /\ oaClient' = OaClientFor(TRUE)
  /\ IF oaClient' = "bound" /\ oaStarted < OaRedirects
     THEN /\ oaStarted' = oaStarted + 1
          /\ oaVerifier' = oaStarted + 1
          /\ OaUse(u, [oaUser[u] EXCEPT !.at = "state", !.redirect = oaStarted + 1])
     ELSE /\ OaUse(u, [oaUser[u] EXCEPT !.at = "failed"])
          /\ UNCHANGED <<oaStarted, oaVerifier>>
  /\ UNCHANGED <<oaTokens, oaForeign, OaServer, oaState, oaOpen, oaFinish>>

OaSaveState(u) ==
  /\ oaUser[u].at = "state"
  /\ oaState' = oaUser[u].redirect
  /\ oaOpen' = oaOpen \cup {oaUser[u].redirect}
  /\ OaUse(u, [oaUser[u] EXCEPT !.at = "failed"])
  /\ UNCHANGED <<oaClient, oaTokens, oaForeign, OaServer, oaVerifier, oaStarted, oaFinish>>

(* The user of the SDK comes back for another request.                     *)
OaRest(u) ==
  /\ oaUser[u].at \in {"ready", "failed"}
  /\ OaUse(u, [at |-> "idle", has |-> 0, for |-> "header", redirect |-> 0])
  /\ UNCHANGED <<oaClient, oaTokens, oaForeign, OaServer, OaStores, oaFinish>>

(* finish: the state that came back must be the stored one.                *)
OaFinishStarts(r) ==
  /\ oaFinish.at = "idle" /\ r \in oaOpen
  /\ r = oaState
  /\ oaFinish' = [oaFinish EXCEPT !.at = "exchange", !.of = r]
  /\ UNCHANGED <<oaClient, oaTokens, oaForeign, OaServer, OaStores, oaUser>>

(* exchangeCode: the server takes the code with the verifier of its own    *)
(* redirect; with another it answers with an error.                        *)
OaExchange ==
  /\ oaFinish.at = "exchange"
  /\ IF oaVerifier = oaFinish.of /\ oaGranted < OaGrants
     THEN /\ oaGranted' = oaGranted + 1
          /\ oaLive' = oaLive \cup {oaGranted + 1}
          /\ oaFinish' = [oaFinish EXCEPT !.at = "save", !.has = oaGranted + 1]
     ELSE /\ oaFinish' = [at |-> "idle", of |-> 0, has |-> 0]
          /\ UNCHANGED <<oaGranted, oaLive>>
  /\ oaOpen' = oaOpen \ {oaFinish.of}
  /\ UNCHANGED <<oaClient, oaTokens, oaForeign, oaExpired, oaLost, oaVerifier, oaState, oaStarted, oaUser>>

OaFinishSaves ==
  /\ oaFinish.at = "save"
  /\ oaTokens' = oaFinish.has /\ oaForeign' = FALSE
  /\ oaFinish' = [at |-> "idle", of |-> 0, has |-> 0]
  /\ UNCHANGED <<oaClient, OaServer, OaStores, oaUser>>

(* External: an access token expires.                                      *)
OaExpires ==
  /\ oaTokens # 0 /\ oaTokens \notin oaExpired /\ ~oaForeign
  /\ oaExpired' = oaExpired \cup {oaTokens}
  /\ UNCHANGED <<oaClient, oaTokens, oaForeign, oaLive, oaGranted, oaLost, OaStores, oaUser, oaFinish>>

OaNext ==
  \/ \E u \in OaUsers : \/ OaAuthHeader(u) \/ OaSave(u) \/ OaSaveVerifier(u) \/ OaSaveState(u) \/ OaRest(u)
                        \/ \E b \in BOOLEAN : \/ OaReauthorize(u, b) \/ OaEnsureClient(u, b)
                                              \/ OaRefresh(u, b)
  \/ \E r \in oaOpen : OaFinishStarts(r)
  \/ OaExchange \/ OaFinishSaves \/ OaExpires

OaSpec == OaInit /\ [][OaNext]_oaVars

(* However refreshes and logins race over one store, it never keeps a dead *)
(* grant for good: the stored refresh token is one the server accepts, or  *)
(* a save of one it accepts is under way, or a response was lost           *)
(* (tryRefresh saves what it got, and nothing when the server refuses).    *)
OaGrantKept ==
  oaTokens # 0 /\ ~oaForeign /\ oaTokens \notin oaLive =>
    \/ oaLost # {}
    \/ \E u \in OaUsers : oaUser[u].at = "save" /\ oaUser[u].has \in oaLive
    \/ oaFinish.at = "save" /\ oaFinish.has \in oaLive

=============================================================================
