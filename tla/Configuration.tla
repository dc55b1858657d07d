---------------------------- MODULE Configuration ----------------------------
(***************************************************************************)
(* internal/config: what viper finds in config.yaml and the environment,    *)
(* completed by the defaults and validated once, at start.  Of a text only  *)
(* whether it is there (not empty) matters: TRUE.                           *)
(***************************************************************************)
EXTENDS Integers

Text == {"API_KEY", "basic.directory", "s3.endpoint", "s3.region", "s3.bucket",
         "S3_ACCESS_KEY", "S3_SECRET_KEY", "rabbitmq.host", "RABBITMQ_USERNAME",
         "RABBITMQ_PASSWORD", "redis.host"}
Switch == {"http.enabled", "http.allowPage", "grpc.enabled", "basic.enabled", "s3.enabled"}
Number == {"http.port", "grpc.port", "rabbitmq.port", "redis.port",
           "file.maxSizeInMB", "file.maxBackups", "file.maxAgeInDays"}

Config == [text : [Text -> BOOLEAN], switch : [Switch -> BOOLEAN], number : [Number -> Int]]

DefaultText == {"basic.directory", "rabbitmq.host", "redis.host"}
DefaultSwitch == Switch \ {"s3.enabled"}
DefaultNumber(key) ==
  CASE key \in {"http.port", "grpc.port"} -> 8080
    [] key = "rabbitmq.port" -> 5672
    [] key = "redis.port" -> 6379
    [] key = "file.maxSizeInMB" -> 10
    [] key = "file.maxBackups" -> 3
    [] key = "file.maxAgeInDays" -> 14

(* given.text, given.switch and given.number hold the settings that are     *)
(* given; a setting that is not has its default.                            *)
newConfig(given) ==
  [text |-> [k \in Text |->
     IF k \in DOMAIN given.text THEN given.text[k] ELSE k \in DefaultText],
   switch |-> [k \in Switch |->
     IF k \in DOMAIN given.switch THEN given.switch[k] ELSE k \in DefaultSwitch],
   number |-> [k \in Number |->
     IF k \in DOMAIN given.number THEN given.number[k] ELSE DefaultNumber(k)]]

HTTPEnabled(c) == c.switch["http.enabled"]
AllowPage(c) == c.switch["http.allowPage"]
GRPCEnabled(c) == c.switch["grpc.enabled"]

IsPort(n) == n >= 0 /\ n <= 65535

ValidateHTTP(c) == HTTPEnabled(c) => IsPort(c.number["http.port"])
ValidateGRPC(c) == GRPCEnabled(c) => IsPort(c.number["grpc.port"])

ValidateLogger(c) ==
  \A k \in {"file.maxSizeInMB", "file.maxBackups", "file.maxAgeInDays"} : c.number[k] >= 0

ValidateBasic(c) == c.text["basic.directory"]

ValidateS3(c) ==
  \A k \in {"s3.endpoint", "s3.region", "s3.bucket", "S3_ACCESS_KEY", "S3_SECRET_KEY"} :
    c.text[k]

ValidateFileStorage(c) ==
  /\ c.switch["basic.enabled"] # c.switch["s3.enabled"]
  /\ IF c.switch["basic.enabled"] THEN ValidateBasic(c) ELSE ValidateS3(c)

ValidateRabbitMQ(c) ==
  /\ \A k \in {"rabbitmq.host", "RABBITMQ_USERNAME", "RABBITMQ_PASSWORD"} : c.text[k]
  /\ IsPort(c.number["rabbitmq.port"])

ValidateRedis(c) == c.text["redis.host"] /\ IsPort(c.number["redis.port"])

(* The order of the checks only decides which error is reported.            *)
Validate(c) ==
  /\ c.text["API_KEY"]
  /\ ValidateHTTP(c)
  /\ ValidateGRPC(c)
  /\ ValidateLogger(c)
  /\ ValidateFileStorage(c)
  /\ ValidateRabbitMQ(c)
  /\ ValidateRedis(c)
=============================================================================
