----------------------------- MODULE MCHostEntity -----------------------------
(* Small instances of HostEntity for TLC. *)
EXTENDS HostEntity

CONSTANTS h1, h2, a, b, k1, k2, t1, t2, other, url, spare, plain, tagged

MCTypes == {"HOST"}

S(name, ref) == [type |-> Empty, name |-> name, ref |-> ref]

(* A prefix, and everything by another configuration than the default. *)
MCSpecs == {S(<<a, Star>>, Empty), S(<<Star>>, other)}

(* A name, under either configuration, and no name at all. *)
MCEdits == {S(<<a>>, Empty), S(<<a, b>>, other), S(<< >>, Empty)}

E(id, name, tags) == [id |-> id, type |-> "HOST", name |-> name, tags |-> tags]

(* Nothing yet; two of a prefix, in either order, one tagged anew. *)
MCInventories == {<< >>,
                  <<E(h2, <<a, b>>, plain), E(h1, <<a>>, tagged)>>,
                  <<E(h1, <<a>>, plain), E(h2, <<a, b>>, plain)>>}

C(key) == [source |-> "Secret", secretRef |-> TRUE, key |-> key,
           finalizer |-> FALSE, deleting |-> FALSE]

MCConfigs == {C(Empty), C(spare)}

MCDefaultOnly == {[c \in Configs |-> IF c = Default THEN C(Empty) ELSE Gone]}

Blank == [iam_account_id |-> Empty, dt_account_id |-> Empty,
          iam_client_id |-> Empty, dt_client_id |-> Empty,
          iam_client_secret |-> Empty, dt_client_secret |-> Empty,
          dt_env_url |-> url, dt_api_token |-> Empty,
          platform_token |-> Empty, dt_platform_token |-> Empty]

Iam(raw, k) == [raw EXCEPT !.iam_client_id = k, !.iam_client_secret = k]
Dt(raw, k)  == [raw EXCEPT !.dt_client_id = k, !.dt_client_secret = k]

At(raw, rest) == [k \in SecretKeys |-> IF k = DefaultKey THEN raw ELSE rest]

(* Both conventions; tokens, and a client of the first convention; data that
   does not parse, and a client of the second convention.                  *)
MCSecrets == {At(Dt(Iam(Blank, k1), k2), Missing),
              At([Blank EXCEPT !.dt_platform_token = t1, !.dt_api_token = t2], Iam(Blank, k1)),
              At(Malformed, Dt(Blank, k2))}
=============================================================================
