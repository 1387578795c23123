--------------------------- MODULE ServiceConfig ---------------------------
(***************************************************************************)
(* What the two programs make of their environment variables: config.go of *)
(* protocol-ingress, which refuses to start with a bad value, and          *)
(* app_config.go of the Core, which falls back to a default.               *)
(*                                                                         *)
(* The raw value of a variable is Unset, Blank (nothing but white space),  *)
(* a value of its kind (an integer for counts and for durations, which are *)
(* in milliseconds, a Boolean for switches) or anything else.  Names,      *)
(* addresses and topics, which default when blank and are never refused,   *)
(* are left out, except the token both programs share.                     *)
(***************************************************************************)
EXTENDS Integers

CONSTANTS Unset, Blank

Positive == Nat \ {0}

-----------------------------------------------------------------------------
\* protocol-ingress; the prefix PROTOCOL_INGRESS_ of the variables is left out

Durations ==
  {"SHUTDOWN_TIMEOUT", "CORE_TIMEOUT", "CUSTOM_TCP_READ_TIMEOUT",
   "CUSTOM_TCP_IDLE_TIMEOUT", "CUSTOM_TCP_RPC_TIMEOUT",
   "CUSTOM_TCP_REGISTER_ACK_GRACE_DELAY", "MQTT_CONNECT_TIMEOUT",
   "MQTT_KEEP_ALIVE", "MQTT_RPC_TIMEOUT", "MQTT_DOWNLINK_POLL_INTERVAL",
   "MQTT_DOWNLINK_DEVICE_TTL"}
Counts ==
  {"CUSTOM_TCP_DOWNLINK_MAX_BATCH", "MQTT_MESSAGE_BUFFER", "MQTT_DOWNLINK_MAX_BATCH"}
Switches ==
  {"CUSTOM_TCP_ENABLED", "MQTT_ENABLED", "MQTT_DOWNLINK_ENABLED", "MQTT_DOWNLINK_RETAINED"}
Choices ==
  [s \in {"MQTT_MODE", "MQTT_AUTH_MODE"} |->
     IF s = "MQTT_MODE" THEN {"external", "embedded"} ELSE {"client_password_token"}]
IngressSettings == Durations \cup Counts \cup Switches \cup DOMAIN Choices \cup {"MQTT_QOS"}

\* Default(), which Normalize repeats for what is blank
DefaultNumber ==
  [s \in Durations \cup Counts \cup {"MQTT_QOS"} |->
     CASE s = "SHUTDOWN_TIMEOUT" -> 10000
       [] s = "CUSTOM_TCP_READ_TIMEOUT" -> 60000
       [] s = "CUSTOM_TCP_IDLE_TIMEOUT" -> 300000
       [] s = "CUSTOM_TCP_REGISTER_ACK_GRACE_DELAY" -> 300
       [] s = "MQTT_KEEP_ALIVE" -> 30000
       [] s = "MQTT_DOWNLINK_POLL_INTERVAL" -> 2000
       [] s = "MQTT_DOWNLINK_DEVICE_TTL" -> 600000
       [] s = "MQTT_MESSAGE_BUFFER" -> 128
       [] s \in {"CUSTOM_TCP_DOWNLINK_MAX_BATCH", "MQTT_DOWNLINK_MAX_BATCH", "MQTT_QOS"} -> 1
       [] OTHER -> 5000]

IngressDefault(s) ==
  IF s \in DOMAIN DefaultNumber THEN DefaultNumber[s]
  ELSE IF s \in Switches THEN s = "MQTT_DOWNLINK_ENABLED"
  ELSE IF s = "MQTT_MODE" THEN "external" ELSE "client_password_token"

\* The QoS is stored in a byte before it is checked.
Byte(n) == n % 256

\* Faulty variant: any count is taken for a QoS.
BugAnyQoS(s, raw) ==
  \/ raw = Unset
  \/ s \in Durations \cup Counts /\ raw \in Positive
  \/ s \in Switches /\ raw \in BOOLEAN
  \/ s \in DOMAIN Choices /\ raw \in Choices[s] \cup {Blank}
  \/ s = "MQTT_QOS" /\ raw \in Nat

\* The parse functions, which refuse what is not positive, and Validate; what
\* is Blank is refused where it has to be parsed.
IngressValid(s, raw) ==
  \/ raw = Unset
  \/ s \in Durations \cup Counts /\ raw \in Positive
  \/ s \in Switches /\ raw \in BOOLEAN
  \/ s \in DOMAIN Choices /\ raw \in Choices[s] \cup {Blank}
  \/ s = "MQTT_QOS" /\ raw \in Nat /\ Byte(raw) <= 2

IngressAccepts(env) == \A s \in IngressSettings : IngressValid(s, env[s])

IngressLoad(env) ==
  [s \in IngressSettings |->
     IF env[s] \in {Unset, Blank} THEN IngressDefault(s)
     ELSE IF s = "MQTT_QOS" THEN Byte(env[s]) ELSE env[s]]

\* A CORE_TOKEN that is set hides TOKEN, even when it is blank.
IngressToken(env) == IF env["CORE_TOKEN"] # Unset THEN env["CORE_TOKEN"] ELSE env["TOKEN"]

-----------------------------------------------------------------------------
\* The Core

CoreNumbers ==
  {"WEB_API_MAX_BODY_BYTES", "WEB_DEVICE_LIST_DEFAULT_PAGE_SIZE",
   "WEB_DEVICE_LIST_MAX_PAGE_SIZE", "WEB_METRICS_MIN_VALID_TIMESTAMP_MS",
   "WEB_LOGIN_MAX_FAILURES", "WEB_LOGIN_WINDOW", "WEB_LOGIN_LOCKOUT",
   "AUTH_REMEMBER_COOKIE_MAX_AGE_SECONDS", "CAPTCHA_VERIFY_TIMEOUT",
   "DM_QUEUE_CAPACITY", "DM_HEARTBEAT_DEADLINE", "DM_EXTERNAL_LIST_DEFAULT_SIZE",
   "DM_EXTERNAL_LIST_MAX_SIZE", "DM_EXTERNAL_OBS_DEFAULT_LIMIT",
   "DM_EXTERNAL_OBS_MAX_LIMIT"}
CoreSettings == CoreNumbers \cup {"AUTH_SESSION_COOKIE_MAX_AGE_SECONDS", "DB_DRIVER"}

\* The Default...Config functions; the least timestamp is here in seconds
CoreDefaultNumber ==
  [s \in CoreNumbers |->
     CASE s \in {"DM_QUEUE_CAPACITY", "WEB_DEVICE_LIST_DEFAULT_PAGE_SIZE",
                 "DM_EXTERNAL_LIST_DEFAULT_SIZE"} -> 100
       [] s = "DM_EXTERNAL_OBS_MAX_LIMIT" -> 10000
       [] s = "WEB_API_MAX_BODY_BYTES" -> 1048576
       [] s = "WEB_METRICS_MIN_VALID_TIMESTAMP_MS" -> 1672531200
       [] s = "WEB_LOGIN_MAX_FAILURES" -> 5
       [] s = "WEB_LOGIN_WINDOW" -> 600000
       [] s = "WEB_LOGIN_LOCKOUT" -> 900000
       [] s = "AUTH_REMEMBER_COOKIE_MAX_AGE_SECONDS" -> 2592000
       [] s = "CAPTCHA_VERIFY_TIMEOUT" -> 5000
       [] s = "DM_HEARTBEAT_DEADLINE" -> 60000
       [] OTHER -> 1000]

CoreDefault(s) == IF s \in CoreNumbers THEN CoreDefaultNumber[s] ELSE 0

\* A default size is never larger than the largest size.
LargestOf ==
  [s \in {"WEB_DEVICE_LIST_DEFAULT_PAGE_SIZE", "DM_EXTERNAL_LIST_DEFAULT_SIZE",
          "DM_EXTERNAL_OBS_DEFAULT_LIMIT"} |->
     CASE s = "WEB_DEVICE_LIST_DEFAULT_PAGE_SIZE" -> "WEB_DEVICE_LIST_MAX_PAGE_SIZE"
       [] s = "DM_EXTERNAL_LIST_DEFAULT_SIZE" -> "DM_EXTERNAL_LIST_MAX_SIZE"
       [] s = "DM_EXTERNAL_OBS_DEFAULT_LIMIT" -> "DM_EXTERNAL_OBS_MAX_LIMIT"]

\* What each value is when it is usable, and the default otherwise.
CoreValue(env, s) ==
  IF s = "DB_DRIVER"
  THEN IF env[s] \in {"postgres", "postgresql"} THEN "postgres" ELSE "sqlite"
  ELSE IF \/ s \in CoreNumbers /\ env[s] \in Positive
          \/ s = "AUTH_SESSION_COOKIE_MAX_AGE_SECONDS" /\ env[s] \in Nat
       THEN env[s] ELSE CoreDefault(s)

Bounded(env, s) ==
  IF CoreValue(env, s) > CoreValue(env, LargestOf[s])
  THEN CoreValue(env, LargestOf[s]) ELSE CoreValue(env, s)

CoreLoad(env) ==
  [s \in CoreSettings |-> IF s \in DOMAIN LargestOf THEN Bounded(env, s) ELSE CoreValue(env, s)]

\* What the modules of the adapters assume of their constants ...
IngressFit(c) ==
  /\ \A s \in Durations \cup Counts : c[s] \in Positive
  /\ c["MQTT_QOS"] \in 0..2

\* ... and what those of the Core do.
CoreFit(c) ==
  /\ \A s \in CoreNumbers : c[s] \in Positive
  /\ \A s \in DOMAIN LargestOf : c[s] <= c[LargestOf[s]]

\* The Core checks the token of the ingress unless its own is blank.
Trusts(coreEnv, ingressEnv) ==
  \/ coreEnv["TOKEN"] \in {Unset, Blank}
  \/ IngressToken(ingressEnv) = coreEnv["TOKEN"]
=============================================================================
