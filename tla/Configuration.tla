---------------------------- MODULE Configuration ----------------------------
(***************************************************************************)
(* From a provider configuration to a client: the ClusterProviderConfig a  *)
(* resource names, the Secret that one refers to, the credentials in it    *)
(* under either of two naming conventions, and the credential a request    *)
(* for the environment is sent with.                                       *)
(*                                                                         *)
(* A credential is abstract: a token, or one of Pairs, the OAuth clients;  *)
(* a client id and a client secret that name the same pair fit together.   *)
(* Reads of configurations and secrets are current; that they come from    *)
(* informers only delays what is modelled here as one read.                *)
(***************************************************************************)

CONSTANTS
    Configs,      \* names of ClusterProviderConfigs
    Default,      \* the name used when a resource gives none
    SecretKeys,
    DefaultKey,   \* the key used when a configuration gives none
    Accounts, EnvURLs, Pairs, Tokens,
    Empty,        \* a field left out, or given as ""
    Gone,         \* an object that is not on the API server
    Missing,      \* a key that a Secret does not have
    Malformed,    \* data that is no JSON object of strings
    NoClient

Account == Accounts \cup {Empty}
Env     == EnvURLs \cup {Empty}
Pair    == Pairs \cup {Empty}
Token   == Tokens \cup {Empty}

RawCredentials ==
    [iam_account_id    : Account, dt_account_id     : Account,
     iam_client_id     : Pair,    dt_client_id      : Pair,
     iam_client_secret : Pair,    dt_client_secret  : Pair,
     dt_env_url        : Env,     dt_api_token      : Token,
     platform_token    : Token,   dt_platform_token : Token]

Credentials ==
    [AccountID : Account, ClientID : Pair, ClientSecret : Pair,
     EnvURL : Env, APIToken : Token, PlatformToken : Token]

Sources == {"None", "Secret", "InjectedIdentity", "Environment", "Filesystem"}

(* ClusterProviderConfig: what the code reads, and its life on the server. *)
ConfigStates == [source    : Sources,
                 secretRef : BOOLEAN,
                 key       : SecretKeys \cup {Empty},
                 finalizer : BOOLEAN,
                 deleting  : BOOLEAN]

SecretStates == [SecretKeys -> RawCredentials \cup {Missing, Malformed}]

ASSUME ConfigurationAssumption ==
    /\ Default \in Configs /\ DefaultKey \in SecretKeys
    /\ Empty \notin Configs \cup SecretKeys \cup Accounts \cup EnvURLs \cup Pairs \cup Tokens
    /\ Gone \notin ConfigStates \cup SecretStates
    /\ Missing \notin RawCredentials /\ Malformed \notin RawCredentials
    /\ NoClient \notin Credentials

First(a, b) == IF a = Empty THEN b ELSE a

(* Mutant: the client id prefers one convention, the secret the other. *)
ParseAcross(raw) ==
    [AccountID     |-> First(raw.iam_account_id, raw.dt_account_id),
     ClientID      |-> First(raw.iam_client_id, raw.dt_client_id),
     ClientSecret  |-> First(raw.dt_client_secret, raw.iam_client_secret),
     EnvURL        |-> raw.dt_env_url,
     APIToken      |-> raw.dt_api_token,
     PlatformToken |-> First(raw.platform_token, raw.dt_platform_token)]

(* ParseCredentialsJSON: each field falls back on its own. *)
ParseCredentialsJSON(raw) ==
    [AccountID     |-> First(raw.iam_account_id, raw.dt_account_id),
     ClientID      |-> First(raw.iam_client_id, raw.dt_client_id),
     ClientSecret  |-> First(raw.iam_client_secret, raw.dt_client_secret),
     EnvURL        |-> raw.dt_env_url,
     APIToken      |-> raw.dt_api_token,
     PlatformToken |-> First(raw.platform_token, raw.dt_platform_token)]

NewClient(creds) ==
    IF creds.AccountID = Empty /\ creds.EnvURL = Empty THEN NoClient ELSE creds

(* clientFromCredentials; NoClient stands for any of its errors. *)
ClientFrom(config, secret) ==
    LET key == First(config.key, DefaultKey) IN
    IF /\ config.source = "Secret" /\ config.secretRef
       /\ secret # Gone /\ secret[key] \notin {Missing, Malformed}
    THEN NewClient(ParseCredentialsJSON(secret[key]))
    ELSE NoClient

ConfigName(ref) == First(ref, Default)

(* GetClientFromProviderConfig: only a ClusterProviderConfig is looked up. *)
GetClient(configs, secret, ref) ==
    LET config == configs[ConfigName(ref)] IN
    IF config = Gone THEN NoClient ELSE ClientFrom(config, secret)

(* NewClient makes a token manager only for a client id and a secret. *)
HasOAuth(c) == c.ClientID # Empty /\ c.ClientSecret # Empty

(* A request for the environment: the platform token, then the API token
   when that one is refused, or alone; OAuth only when there is neither.
   "accepted" are the tokens and pairs the server lets in.                 *)
EnvRequestPasses(c, accepted) ==
    /\ c.EnvURL # Empty
    /\ \/ {c.PlatformToken, c.APIToken} \cap accepted # {}
       \/ /\ c.PlatformToken = Empty /\ c.APIToken = Empty /\ HasOAuth(c)
          /\ c.ClientID = c.ClientSecret /\ c.ClientID \in accepted
=============================================================================
