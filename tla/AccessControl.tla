---------------------------- MODULE AccessControl ----------------------------
(***************************************************************************)
(* server/auth.py: how the operator's settings become an AuthConfig and    *)
(* how one upgrade request is judged against it.  Constant-level; the      *)
(* server module applies it to live connections.                           *)
(*                                                                         *)
(* Texts are compared, never built: an API key, a host and an address      *)
(* block are values.  A text that strips to nothing is Blank.  An address  *)
(* block is the set of the hosts it covers, so `ip in net` is membership.  *)
(***************************************************************************)
EXTENDS FiniteSets

CONSTANTS Blank,     \* any text that is empty once stripped
          NoHeader,  \* the request has no Authorization header
          TwoHeaders, \* it has more than one
          NoKey,     \* _extract_api_key returned None
          NoAddr     \* the transport knows no peer address

\* k.strip() for k in ... if k.strip(): the non-blank entries.
Stripped(texts) == texts \ {Blank}

\* Mutant: the environment is a fallback for --api-key, not an addition.
EnvIsFallback(apiKeys, envKeys, allowlist) ==
    [ api_keys     |-> IF Stripped(apiKeys) # {} THEN Stripped(apiKeys)
                       ELSE Stripped(envKeys),
      ip_allowlist |-> Stripped(allowlist) ]

\* AuthConfig.from_env_and_args: --api-key values and the entries of the
\* comma-separated environment variable are pooled, the blocks kept apart.
FromEnvAndArgs(apiKeys, envKeys, allowlist) ==
    [ api_keys     |-> Stripped(apiKeys) \cup Stripped(envKeys),
      ip_allowlist |-> Stripped(allowlist) ]

\* _extract_api_key: "<scheme> <value>", scheme compared in lower case.  A
\* header without a value does not split in two.
ExtractApiKey(header) ==
    IF /\ header # NoHeader
       /\ header.scheme \in {"api-key", "bearer"}
       /\ header.value # Blank
    THEN header.value
    ELSE NoKey

\* check_request, layer 1.  A text that is no address is in no block, and the
\* code answers it 403 as well.
AddressRefused(cfg, addr) ==
    /\ cfg.ip_allowlist # {}
    /\ addr # NoAddr
    /\ addr \notin UNION cfg.ip_allowlist

\* check_request, layer 2.
KeyRefused(cfg, header) ==
    /\ cfg.api_keys # {}
    /\ ExtractApiKey(header) \notin cfg.api_keys

\* headers.get raises when the header was sent more than once, which nobody
\* catches.  It is not looked at when no key is configured.
HeaderRaises(cfg, header) == cfg.api_keys # {} /\ header = TwoHeaders

\* check_request: the address is judged first; "PASS" stands for None, "ERROR"
\* for the exception, which the library answers with 500.
CheckRequest(cfg, addr, header) ==
    IF AddressRefused(cfg, addr) THEN "FORBIDDEN"
    ELSE IF HeaderRaises(cfg, header) THEN "ERROR"
    ELSE IF KeyRefused(cfg, header) THEN "UNAUTHORIZED"
    ELSE "PASS"
=============================================================================
