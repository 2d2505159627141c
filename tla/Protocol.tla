------------------------------ MODULE Protocol ------------------------------
(***************************************************************************)
(* The messages and frames of src/protocol.cpp: what encodeMessage writes, *)
(* what decodeMessage reads, and the checksummed frame around it.          *)
(***************************************************************************)
EXTENDS Codec

EncEndpoint ==
    Nums(<<"id", "generation">>) \o <<Enum("kind", LastEndpointKind)>>
    \o Nums(<<"node", "device", "capability.generation">>)
    \o <<Transports("transports"), Enum("capability.provenance", LastProvenance),
         Arch("computeArch")>>
    \o Texts(<<"address", "protocol", "version", "name">>)
    \o Flags(<<"healthy", "reachable", "ready">>)
    \o Nums(<<"worker", "workerBoot", "source", "sourceBoot">>)
    \o <<Text("failureDomain"), Enum("provenance", LastProvenance),
         Text("pcieRoot"), Distance("numaDistance")>>

DecEndpoint ==
    Nums(<<"id", "generation">>) \o <<Enum("kind", LastEndpointKind)>>
    \o Nums(<<"node", "device", "capability.generation">>)
    \o <<Transports("transports"), Enum("capability.provenance", LastProvenance),
         Arch("computeArch")>>
    \o Texts(<<"address", "protocol", "version", "name">>)
    \o Flags(<<"healthy", "reachable", "ready">>)
    \o Nums(<<"worker", "workerBoot", "source", "sourceBoot">>)
    \o <<Text("failureDomain"), Enum("provenance", LastProvenance),
         Text("pcieRoot"), Num("numaDistance")>>

EncLink ==
    Nums(<<"id", "generation", "source", "destination">>)
    \o <<Enum("kind", LastLinkKind), Enum("transport", LastTransport), Flag("directed")>>
    \o Nums(<<"capacity", "effectiveBandwidth", "latency">>)
    \o <<Flag("healthy")>>
    \o Nums(<<"congestion.generation", "congestion.load", "congestion.penalty">>)
    \o <<Flag("hardLimitExceeded"), Enum("congestion.provenance", LastProvenance)>>
    \o Nums(<<"capacityEvidence.generation", "usable", "headroom">>)
    \o <<Enum("capacityEvidence.provenance", LastProvenance)>>
    \o Nums(<<"topologyGeneration", "capabilityGeneration">>)
    \o <<Text("failureDomain"), Num("workerBoot"), Enum("provenance", LastProvenance)>>

DecLink ==
    Nums(<<"id", "generation", "source", "destination">>)
    \o <<Enum("kind", LastLinkKind), Enum("transport", LastTransport), Flag("directed")>>
    \o Nums(<<"capacity", "effectiveBandwidth", "latency">>)
    \o <<Flag("healthy")>>
    \o Nums(<<"congestion.generation", "congestion.load", "congestion.penalty">>)
    \o <<Flag("hardLimitExceeded"), Enum("congestion.provenance", LastProvenance)>>
    \o Nums(<<"capacityEvidence.generation", "usable", "headroom">>)
    \o <<Enum("capacityEvidence.provenance", LastProvenance)>>
    \o Nums(<<"topologyGeneration", "capabilityGeneration">>)
    \o <<Text("failureDomain"), Num("workerBoot"), Enum("provenance", LastProvenance)>>

EncRequest ==
    Nums(<<"id", "generation">>) \o <<Enum("shape", LastRequestShape)>>
    \o Nums(<<"source", "payloadSize">>) \o <<Enum("direction", LastDirection)>>
    \o Flags(<<"allowStaging", "allowHostStaging", "allowStorageStaging",
               "allowRelay", "allowMulticast">>)
    \o Nums(<<"maxHops", "maxStages", "externalPriority", "policyGeneration">>)
    \o <<Transports("allowed"), Transports("forbidden"),
         Enum("collectiveShape", LastCollectiveShape), Num("collectiveCount"),
         Ids("destinations"), Ids("participants")>>
    \o Texts(<<"provenance", "requiredFailureDomain", "preferredLocality">>)

DecRequest ==
    Nums(<<"id", "generation">>) \o <<Enum("shape", LastRequestShape)>>
    \o Nums(<<"source", "payloadSize">>) \o <<Enum("direction", LastDirection)>>
    \o Flags(<<"allowStaging", "allowHostStaging", "allowStorageStaging",
               "allowRelay", "allowMulticast">>)
    \o Nums(<<"maxHops", "maxStages", "externalPriority", "policyGeneration">>)
    \o <<Transports("allowed"), Transports("forbidden"),
         Enum("collectiveShape", LastCollectiveShape), Num("collectiveCount"),
         Ids("destinations"), Ids("participants")>>
    \o Texts(<<"provenance", "requiredFailureDomain", "preferredLocality">>)

(* The plan of a PLAN_RESULT: the few of its fields that are sent. *)
EncStages(f) == Many(f, MaxCount, Nums(<<"link", "source", "destination", "payload">>))
EncPlan ==
    Nums(<<"id", "generation", "requestId", "requestGeneration", "primaryPath">>)
    \o <<Many("candidatePaths", MaxCount,
              Nums(<<"id", "totalPayload">>) \o <<EncStages("stages")>>),
         EncStages("orderedStages"), Generations("endpointGenerations")>>

(* A plausible slip: the two ends of a stage read in the other order. *)
DecStagesSwapped(f) ==
    Many(f, MaxCount, Nums(<<"link", "destination", "source", "payload">>))
DecStages(f) == Many(f, MaxCount, Nums(<<"link", "source", "destination", "payload">>))
DecPlan ==
    Nums(<<"id", "generation", "requestId", "requestGeneration", "primaryPath">>)
    \o <<Many("candidatePaths", MaxCount,
              Nums(<<"id", "totalPayload">>) \o <<DecStages("stages")>>),
         DecStages("orderedStages"), Generations("endpointGenerations")>>

MessageType == <<"HELLO", "REGISTER", "PUBLISH_ENDPOINT", "PUBLISH_LINK",
    "PUBLISH_TOPOLOGY", "PUBLISH_CAPACITY", "PUBLISH_CONGESTION", "SUBMIT_REQUEST",
    "QUERY_PLAN", "PLAN_RESULT", "COMMIT_REQUEST", "COMMIT_RESULT", "REVALIDATE",
    "SUPERSEDE", "CANCEL", "EXECUTION_HANDOFF", "EXECUTION_RESULT", "EXECUTE",
    "SAVE", "SHUTDOWN", "ERROR">>
TypeByte(t) == CHOOSE i \in 0..Len(MessageType) - 1 : MessageType[i + 1] = t

(* encodeMessage, up to the plan of a PLAN_RESULT. *)
EncFields(t) ==
    CASE t = "HELLO" -> <<Num("epoch")>>
      [] t = "REGISTER" -> Nums(<<"worker", "boot">>) \o <<Text("name")>>
      [] t = "PUBLISH_ENDPOINT" ->
           Nums(<<"worker", "boot">>) \o <<Part("endpoint", EncEndpoint)>>
      [] t = "PUBLISH_LINK" -> Nums(<<"worker", "boot">>) \o <<Part("link", EncLink)>>
      [] t = "PUBLISH_TOPOLOGY" -> <<Num("generation")>>
      [] t = "PUBLISH_CAPACITY" ->
           Nums(<<"linkId", "generation", "usable", "headroom">>)
           \o <<Enum("provenance", LastProvenance)>>
      [] t = "PUBLISH_CONGESTION" ->
           Nums(<<"linkId", "generation", "load", "penalty">>)
           \o <<Flag("hardLimitExceeded"), Enum("provenance", LastProvenance)>>
      [] t = "SUBMIT_REQUEST" -> <<Part("request", EncRequest)>>
      [] t \in {"REVALIDATE", "COMMIT_REQUEST", "EXECUTION_HANDOFF", "QUERY_PLAN"} ->
           <<Num("planId")>>
      [] t \in {"CANCEL", "SUPERSEDE"} -> Nums(<<"requestId", "planId">>)
      [] t = "PLAN_RESULT" -> <<Flag("ok")>>
      [] t = "COMMIT_RESULT" -> <<Flag("ok"), Num("planId")>>
      [] t = "EXECUTION_RESULT" -> <<Flag("ok")>> \o Nums(<<"planId", "worker", "boot">>)
      [] t = "EXECUTE" -> Nums(<<"planId", "bytes", "worker", "boot">>)
      [] t \in {"SAVE", "SHUTDOWN"} -> <<>>
      [] t = "ERROR" -> <<Text("error")>>

(* decodeMessage, up to the plan of a PLAN_RESULT. *)
DecFields(t) ==
    CASE t = "HELLO" -> <<Num("epoch")>>
      [] t = "REGISTER" -> Nums(<<"worker", "boot">>) \o <<Text("name")>>
      [] t = "PUBLISH_ENDPOINT" ->
           Nums(<<"worker", "boot">>) \o <<Part("endpoint", DecEndpoint)>>
      [] t = "PUBLISH_LINK" -> Nums(<<"worker", "boot">>) \o <<Part("link", DecLink)>>
      [] t = "PUBLISH_CAPACITY" ->
           Nums(<<"linkId", "generation", "usable", "headroom">>)
           \o <<Enum("provenance", LastProvenance)>>
      [] t = "PUBLISH_CONGESTION" ->
           Nums(<<"linkId", "generation", "load", "penalty">>)
           \o <<Flag("hardLimitExceeded"), Enum("provenance", LastProvenance)>>
      [] t = "SUBMIT_REQUEST" -> <<Part("request", DecRequest)>>
      [] t = "PLAN_RESULT" -> <<Flag("ok"), Skip(LastFeasibility)>>
      [] t \in {"REVALIDATE", "COMMIT_REQUEST", "EXECUTION_HANDOFF", "QUERY_PLAN"} ->
           <<Num("planId")>>
      [] t \in {"CANCEL", "SUPERSEDE"} -> Nums(<<"requestId", "planId">>)
      [] t = "COMMIT_RESULT" -> <<Flag("ok"), Num("planId")>>
      [] t = "EXECUTION_RESULT" -> <<Flag("ok")>> \o Nums(<<"planId", "worker", "boot">>)
      [] t = "EXECUTE" -> Nums(<<"planId", "bytes", "worker", "boot">>)
      [] t = "PUBLISH_TOPOLOGY" -> <<Num("generation")>>
      [] t \in {"SAVE", "SHUTDOWN"} -> <<>>
      [] t = "ERROR" -> <<Text("error")>>

FEASIBLE == 0
REJECT_ENDPOINT == 1

(* A message is [type, body]; a plan travels only when the answer is yes. *)
EncodeMessage(m) ==
    Write(EncFields(m.type), m.body)
    \o (IF m.type # "PLAN_RESULT" THEN <<>>
        ELSE IF m.body.ok = 1 THEN <<FEASIBLE>> \o Write(EncPlan, m.body.plan)
        ELSE <<REJECT_ENDPOINT>>)

DecodeMessage(t, b) ==
    LET head == Read(DecFields(t), b, 1)
        plan == Read(DecPlan, b, head.pos)
    IN  IF ~(head.ok /\ t = "PLAN_RESULT" /\ head.val.ok = 1) THEN head
        ELSE IF plan.ok THEN Got(head.val @@ ("plan" :> plan.val), plan.pos)
        ELSE Fail

FrameMagic == 50000
FrameVersion == 1
HeaderSize == 4

Checksum(b, end) == fnv(SubSeq(b, 1, end))

(* encodeFrame: <<>> when the payload is too large to be sent. *)
EncodeFrame(m) ==
    LET payload == EncodeMessage(m)
        body == <<FrameMagic, FrameVersion, TypeByte(m.type), Len(payload)>> \o payload
    IN  IF Len(payload) > MaxFrame THEN <<>> ELSE Append(body, Checksum(body, Len(body)))

(* A plausible slip: no room left for the checksum's own end. *)
FrameCompleteShort(b) == HeaderSize + b[4] + 1 < Len(b)
FrameComplete(b) == HeaderSize + b[4] + 1 <= Len(b)

(* decodeFrame: type and payload, or a failure.  What follows the checksum *)
(* is not looked at.                                                       *)
DecodeFrame(b) ==
    LET end == HeaderSize + b[4]
    IN  IF /\ Len(b) >= HeaderSize
           /\ b[1] = FrameMagic
           /\ b[2] = FrameVersion
           /\ b[3] < Len(MessageType)
           /\ b[4] <= MaxFrame
           /\ FrameComplete(b)
           /\ Checksum(b, end) = b[end + 1]
        THEN Got([type |-> MessageType[b[3] + 1],
                  payload |-> SubSeq(b, HeaderSize + 1, end)], end + 2)
        ELSE Fail

---------------------------------------------------------------------------
(* One message of type t, with its plan when it carries one. *)
SampleMessage(t, k) ==
    LET fields == Sample(EncFields(t), k)
    IN  [type |-> t,
         body |-> IF t = "PLAN_RESULT" /\ fields.ok = 1
                  THEN fields @@ ("plan" :> Sample(EncPlan, k))
                  ELSE fields]

SampleMessages == {SampleMessage(t, k) : t \in ToSet(MessageType), k \in 1..2}

(* The message as its reader may see it: encEndpoint sends a negative NUMA *)
(* distance as 0.                                                          *)
Arrived(m) ==
    IF m.type = "PUBLISH_ENDPOINT" /\ m.body.endpoint.numaDistance < 0
    THEN [m EXCEPT !.body.endpoint.numaDistance = 0]
    ELSE m

(* A peer built with one enumerator more than this one. *)
NewerMessages ==
    UNION {{[m EXCEPT !.body = y] : y \in Beyond(EncFields(m.type), m.body)} :
              m \in SampleMessages}
============================================================================
