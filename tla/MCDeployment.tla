---------------------------- MODULE MCDeployment ----------------------------
(* Constant values for model checking Deployment.                          *)
EXTENDS Deployment, TLC

CONSTANTS Garbage, t1, c1

Ingress(given) == given @@ [s \in IngressSettings \cup {"TOKEN", "CORE_TOKEN"} |-> Unset]
Core(given) == given @@ [s \in CoreSettings \cup {"TOKEN"} |-> Unset]

\* A usual ingress; one whose QoS becomes 0 in a byte and whose blank CORE_TOKEN
\* hides its token; one that is refused for its QoS; one that is for a blank count.
MCIngressEnv ==
  {Ingress("CUSTOM_TCP_ENABLED" :> TRUE @@ "TOKEN" :> t1),
   Ingress("CUSTOM_TCP_ENABLED" :> TRUE @@ "MQTT_ENABLED" :> TRUE @@ "MQTT_QOS" :> 256
           @@ "TOKEN" :> t1 @@ "CORE_TOKEN" :> Blank),
   Ingress("MQTT_ENABLED" :> TRUE @@ "MQTT_QOS" :> 3),
   Ingress("MQTT_MESSAGE_BUFFER" :> Blank)}

MCCoreEnv ==
  {Core("TOKEN" :> t1 @@ "DB_DRIVER" :> "postgres"),
   Core("TOKEN" :> t1 @@ "DB_DRIVER" :> Garbage @@ "DM_QUEUE_CAPACITY" :> 0
        @@ "DM_EXTERNAL_LIST_DEFAULT_SIZE" :> 2000)}
=============================================================================
