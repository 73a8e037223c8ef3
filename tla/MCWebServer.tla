------------------------------ MODULE MCWebServer ------------------------------
(***************************************************************************)
(* WebServer for TLC: nothing configured, every mode, direct reads alone;  *)
(* and each kind of deployment that lacks something: every mode without    *)
(* the API that answers status requests and every mode without Shared Auth *)
(* (main refuses both), and direct reads without Shared Auth (main serves  *)
(* them a closed door).                                                    *)
(***************************************************************************)
EXTENDS WebServer, TLC

MCNothing == [name \in {"SHARED_AUTH_URL", "SHARED_AUTH_SERVICE_CREDENTIAL",
                        "ACT_READONLY_DATABASE_URL", "ACT_READONLY_DATABASE_ROLE",
                        "ACT_API_URL", "ACT_API_MTLS", "ACT_NATS_URL",
                        "ACT_NATS_OPERATION_HMAC_KEY"} |-> "absent"]
             @@ [name \in {"RUST_LOG", "OTEL_EXPORTER_OTLP_ENDPOINT"} |-> "ok"]
MCEverything == [name \in DOMAIN MCNothing |-> "ok"]
MCDirect == [MCNothing EXCEPT !.SHARED_AUTH_URL = "ok",
                              !.SHARED_AUTH_SERVICE_CREDENTIAL = "ok",
                              !.ACT_READONLY_DATABASE_URL = "ok",
                              !.ACT_READONLY_DATABASE_ROLE = "ok"]
WithoutVerifier(deployment) ==
    [deployment EXCEPT !.SHARED_AUTH_URL = "absent",
                       !.SHARED_AUTH_SERVICE_CREDENTIAL = "absent"]
MCDeployments == {MCNothing, MCEverything, MCDirect,
                  [MCEverything EXCEPT !.ACT_API_URL = "absent"],
                  WithoutVerifier(MCEverything), WithoutVerifier(MCDirect)}
===============================================================================
