---------------------------- MODULE MCApplication ----------------------------
(* Instances of Application for TLC.                                        *)
EXTENDS Application, TLC

Secrets == [k \in {"API_KEY", "RABBITMQ_USERNAME", "RABBITMQ_PASSWORD",
                   "s3.endpoint", "s3.bucket"} |-> TRUE]
S3Texts == [k \in {"s3.region", "S3_ACCESS_KEY", "S3_SECRET_KEY"} |-> TRUE]

Given(texts, switches, numbers) ==
  [text |-> texts, switch |-> switches, number |-> numbers]
Off(keys) == [k \in keys |-> FALSE]

(* Every setting left to its default: both servers want port 8080.          *)
Defaults == Given(Secrets, << >>, << >>)
TwoPorts == Given(Secrets, << >>, "grpc.port" :> 9090)
OnlyHTTP == Given(Secrets, Off({"grpc.enabled"}), << >>)
OnlyGRPC == Given(Secrets @@ S3Texts,
                  Off({"http.enabled", "basic.enabled"}) @@ ("s3.enabled" :> TRUE), << >>)
NoKey == Given("s3.bucket" :> TRUE, << >>, << >>)

Setups == {Defaults, TwoPorts, OnlyHTTP, OnlyGRPC, NoKey}

Req(via, call, key) == [via |-> via, call |-> call, key |-> key, forever |-> FALSE]

Requests ==
  {Req("http", "getFile", FALSE),
   [Req("http", "upload", FALSE) EXCEPT !.forever = TRUE],
   Req("http", "generate", FALSE), Req("http", "devtools", FALSE),
   Req("grpc", "rename", TRUE), Req("grpc", "reflection", FALSE)}
=============================================================================
