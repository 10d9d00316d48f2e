------------------------------- MODULE Config -------------------------------
(***************************************************************************)
(* config.Load at the start of a process: defaults, the JSON file over     *)
(* them, the environment over both, validation, and the check of the       *)
(* file's mode. And what the result is for: which listeners are open to    *)
(* others, and which requests the token checks of the health server and    *)
(* the middleware of the admin server let through.                         *)
(*                                                                         *)
(* A configuration maps the name of a field to its text, and a text stands *)
(* for its kind. The scanner section is module Profiles; the fields that   *)
(* Load neither reads nor overrides are left out.                          *)
(***************************************************************************)
EXTENDS TLC

VARIABLES
    file,     \* [state, private, given]: the config file; given: the fields it sets
    env,      \* the environment variables that name a field, and their texts
    boot,     \* "start", "refused", "loaded"
    conf      \* the Config that Load returns

configVars == <<file, env, boot, conf>>

(* Addresses to listen on: net.SplitHostPort refuses the first two.        *)
Addrs == {"", "127.0.0.1", ":port", "0.0.0.0:port", "[::]:port", "10.0.0.5:port",
          "name:port", "127.0.0.1:port", "[::1]:port", "localhost:port"}
Splits(addr) == addr \notin {"", "127.0.0.1"}

Default ==
    [db |-> "inventory.db", level |-> "info", format |-> "text",
     peerAddr |-> "", peerToken |-> "", webhook |-> "", syslog |-> "",
     healthAddr |-> "127.0.0.1:port", healthToken |-> "",
     adminAddr |-> "127.0.0.1:port", adminToken |-> ""]

Fields == DOMAIN Default

(* applyEnv reads no variable for the others.                              *)
EnvFields == Fields \ {"peerAddr", "webhook", "syslog"}

Override(base, over) == [f \in DOMAIN base |-> IF f \in DOMAIN over THEN over[f] ELSE base[f]]

(* json.Decode over the defaults: a field that is given replaces the       *)
(* default, also when it is "". os.ErrNotExist is no error.                *)
Decoded == IF file.state = "loaded" THEN Override(Default, file.given) ELSE Default

ApplyEnv(base) ==
    [f \in Fields |-> IF f \in EnvFields \cap DOMAIN env /\ env[f] # "" THEN env[f] ELSE base[f]]

-----------------------------------------------------------------------------
IsLoopbackBind(addr) ==
    Splits(addr) /\ addr \in {"127.0.0.1:port", "[::1]:port", "localhost:port"}

(* url.Parse of an address, and its scheme in lower case.                  *)
Parses(url) == url # "://"
Scheme(url) == CASE url \in {"http://host", "http://"} -> "http"
                 [] url = "https://host"               -> "https"
                 [] url \in {"udp://host", "udp://"}   -> "udp"
                 [] url = "tcp://host"                 -> "tcp"
                 [] url = "file:///path"               -> "file"
                 [] OTHER                              -> ""
HasHost(url) == url \notin {"http://", "udp://", "file:///path", "host"}

(* validatePeerAddr and validateSinkURL.                                   *)
AllowedURL(url, schemes) == Parses(url) /\ Scheme(url) \in schemes /\ HasHost(url)

NotGiven(text) == text = ""

Valid(c) ==
    /\ c.level \in {"debug", "info", "warn", "error"}
    /\ c.format \in {"text", "json"}
    /\ NotGiven(c.peerAddr) \/ AllowedURL(c.peerAddr, {"http", "https"})
    /\ IsLoopbackBind(c.healthAddr) \/ ~NotGiven(c.healthToken)
    /\ IsLoopbackBind(c.adminAddr) \/ ~NotGiven(c.adminToken)
    /\ NotGiven(c.webhook) \/ AllowedURL(c.webhook, {"http", "https"})
    /\ NotGiven(c.syslog) \/ AllowedURL(c.syslog, {"udp", "tcp"})

(* checkSecretsPerm, of the configuration with the environment applied.    *)
SecretsPrivate(c) ==
    \/ file.state # "loaded" \/ file.private
    \/ \A f \in {"healthToken", "adminToken", "peerToken"} : NotGiven(c[f])

CheckedConfig(base) ==          \* mutant: the file is validated and then overridden
    IF Valid(base) /\ SecretsPrivate(base) THEN {ApplyEnv(base)} ELSE {}

Checked(base) ==
    LET c == ApplyEnv(base) IN IF Valid(c) /\ SecretsPrivate(c) THEN {c} ELSE {}

(* The file may be absent, unreadable or no JSON for a Config.             *)
Load ==
    /\ boot = "start"
    /\ LET accepted == IF file.state \in {"unreadable", "malformed"} THEN {}
                       ELSE Checked(Decoded)
       IN IF accepted = {} THEN boot' = "refused" /\ UNCHANGED conf
          ELSE boot' = "loaded" /\ conf' \in accepted
    /\ UNCHANGED <<file, env>>

ConfigInit == boot = "start" /\ conf = Default

-----------------------------------------------------------------------------
(* A request: its method, its Authorization header and the CSRF token in   *)
(* its header and in its form. "right" is the token of this process.       *)
Methods == {"GET", "HEAD", "OPTIONS", "POST", "PUT", "PATCH", "DELETE"}
CSRFTexts == {"", "right", "wrong"}

(* requireAuthHandler of the health server.                                *)
HealthAdmits(req) ==
    NotGiven(conf.healthToken) \/ req.auth = <<"Bearer", conf.healthToken>>

(* checkAuth of the admin server; Basic carries the token as its password. *)
CheckAuth(req) ==
    NotGiven(conf.adminToken) \/ req.auth \in {"Bearer", "Basic"} \X {conf.adminToken}

CheckCSRF(req) ==
    \/ req.method \in {"GET", "HEAD", "OPTIONS"}
    \/ req.header = "right"
    \/ req.header = "" /\ req.form = "right"

AdminAdmits(req) == CheckAuth(req) /\ CheckCSRF(req)
=============================================================================
