------------------------------ MODULE StoreFile -----------------------------
(***************************************************************************)
(* The store file of src/persistence.cpp: serializeStore, and parseStore   *)
(* up to its call of validateStore, which is ValidStore of module          *)
(* Recovery; and the file while it is written.  A save opens the file,     *)
(* which empties it, and writes it out under no lock, so that two          *)
(* connection threads may write it at once and the process may die in the  *)
(* middle.  Recovery takes a file to be a complete image, or torn and      *)
(* refused: here is why it may.                                            *)
(***************************************************************************)
EXTENDS Codec

CONSTANTS Saver,     \* the threads that save
          Store,     \* the states they save
          Chunk,     \* how much one call of the operating system writes
          MaxSaves   \* bound: saves begun

ASSUME StoreAssumption == Chunk \in Nat \ {0} /\ MaxSaves \in Nat

WriteCost ==
    <<Many("components", MaxCount,
           <<Enum("factor", LastCostFactor), Num("weight"), Num("value"),
             Enum("provenance", LastProvenance)>>),
      Num("total")>>

ReadCost ==
    <<Many("components", MaxCount,
           <<Enum("factor", LastCostFactor), Num("weight"), Num("value"),
             Enum("provenance", LastProvenance)>>),
      Num("total")>>

WriteStage ==
    Nums(<<"id", "generation", "source", "destination", "link">>)
    \o <<Enum("transport", LastTransport)>>
    \o Nums(<<"payload", "expectedBandwidth", "expectedLatency", "stagingResource">>)
    \o <<Flag("requiresAuthority"), Enum("provenance", LastProvenance),
         Text("description")>>

ReadStage ==
    Nums(<<"id", "generation", "source", "destination", "link">>)
    \o <<Enum("transport", LastTransport)>>
    \o Nums(<<"payload", "expectedBandwidth", "expectedLatency", "stagingResource">>)
    \o <<Flag("requiresAuthority"), Enum("provenance", LastProvenance),
         Text("description")>>

WritePath ==
    Nums(<<"id", "generation", "source", "destination", "totalPayload">>)
    \o <<Enum("provenance", LastProvenance), Many("stages", MaxCount, WriteStage),
         Part("cost", WriteCost), Text("failureDomain"), Text("reason")>>

ReadPath ==
    Nums(<<"id", "generation", "source", "destination", "totalPayload">>)
    \o <<Enum("provenance", LastProvenance), Many("stages", MaxCount, ReadStage),
         Part("cost", ReadCost), Text("failureDomain"), Text("reason")>>

(* One record of the plan table. *)
WriteRecord ==
    Nums(<<"id", "generation", "requestId", "requestGeneration">>)
    \o <<Enum("shape", LastRequestShape), Num("primaryPath"),
         Enum("feasibility", LastFeasibility), Enum("state", LastPlanState),
         Many("candidatePaths", MaxCount, WritePath), Ids("fallbackPaths"),
         Many("orderedStages", MaxCount, WriteStage)>>
    \o Nums(<<"topology", "capacity", "reservation", "congestion", "capability",
              "health", "placement", "authority">>)
    \o <<Generations("endpointGenerations"), Generations("linkGenerations"),
         Ids("requiredStagingResources"), Ids("requiredResourceClaims"),
         Part("cost", WriteCost), Many("explanations", MaxCount, <<Text("line")>>),
         Text("provenance"), Num("revalidationGeneration"),
         Flag("revalidateBeforeExecute"), Text("handoffRequirement"),
         Ids("multicastDestinations"), Enum("collectiveShape", LastCollectiveShape),
         Ids("collectiveParticipants"), Text("description"), Text("createdProvenance")>>

(* A plausible slip: the capability and the health generation exchanged. *)
ReadGenerationsSwapped ==
    Nums(<<"topology", "capacity", "reservation", "congestion", "health",
           "capability", "placement", "authority">>)
ReadGenerations ==
    Nums(<<"topology", "capacity", "reservation", "congestion", "capability",
           "health", "placement", "authority">>)

ReadRecord ==
    Nums(<<"id", "generation", "requestId", "requestGeneration">>)
    \o <<Enum("shape", LastRequestShape), Num("primaryPath"),
         Enum("feasibility", LastFeasibility), Enum("state", LastPlanState),
         Many("candidatePaths", MaxCount, ReadPath), Ids("fallbackPaths"),
         Many("orderedStages", MaxCount, ReadStage)>>
    \o ReadGenerations
    \o <<Generations("endpointGenerations"), Generations("linkGenerations"),
         Ids("requiredStagingResources"), Ids("requiredResourceClaims"),
         Part("cost", ReadCost), Many("explanations", MaxCount, <<Text("line")>>),
         Text("provenance"), Num("revalidationGeneration"),
         Flag("revalidateBeforeExecute"), Text("handoffRequirement"),
         Ids("multicastDestinations"), Enum("collectiveShape", LastCollectiveShape),
         Ids("collectiveParticipants"), Text("description"), Text("createdProvenance")>>

WriteRequest ==
    Nums(<<"id", "generation">>) \o <<Enum("shape", LastRequestShape)>>
    \o Nums(<<"source", "payloadSize">>)
    \o <<Enum("direction", LastDirection), Enum("collectiveShape", LastCollectiveShape),
         Num("collectiveCount"), Ids("destinations")>>

ReadRequest ==
    Nums(<<"id", "generation">>) \o <<Enum("shape", LastRequestShape)>>
    \o Nums(<<"source", "payloadSize">>)
    \o <<Enum("direction", LastDirection), Enum("collectiveShape", LastCollectiveShape),
         Num("collectiveCount"), Ids("destinations")>>

WriteStore ==
    <<Num("epoch"), Many("plans", MaxCount, WriteRecord),
      Many("supersessions", MaxCount, Nums(<<"superseded", "newer">>)),
      Many("requests", MaxCount, WriteRequest)>>

ReadStore ==
    <<Num("epoch"), Many("plans", MaxCount, ReadRecord),
      Many("supersessions", MaxCount, Nums(<<"superseded", "newer">>)),
      Many("requests", MaxCount, ReadRequest)>>

StoreMagic == 50001
FormatVersion == 1
StoreHeader == 4

SerializeStore(st) ==
    LET body == Write(WriteStore, st)
    IN  <<StoreMagic, FormatVersion, fnv(body), Len(body)>> \o body

(* The records of the payload, and nothing after them; no plan id is null  *)
(* or used twice.                                                          *)
ParsePayload(b) ==
    LET r == Read(ReadStore, b, 1)
    IN  IF /\ r.ok
           /\ \A i \in 1..Len(r.val.plans) : r.val.plans[i].id # 0
           /\ \A i, j \in 1..Len(r.val.plans) :
                  i # j => r.val.plans[i].id # r.val.plans[j].id
           /\ r.pos = Len(b) + 1
        THEN r ELSE Fail

(* A plausible slip: the checksum not compared. *)
ParseStoreUnsummed(b) ==
    IF /\ Len(b) >= StoreHeader
       /\ b[1] = StoreMagic
       /\ b[2] = FormatVersion
       /\ StoreHeader + b[4] = Len(b)
    THEN ParsePayload(SubSeq(b, StoreHeader + 1, StoreHeader + b[4]))
    ELSE Fail

ParseStore(b) ==
    IF /\ Len(b) >= StoreHeader
       /\ b[1] = StoreMagic
       /\ b[2] = FormatVersion
       /\ b[4] <= Len(b) - StoreHeader
       /\ b[3] = fnv(SubSeq(b, StoreHeader + 1, StoreHeader + b[4]))
       /\ StoreHeader + b[4] = Len(b)
    THEN ParsePayload(SubSeq(b, StoreHeader + 1, StoreHeader + b[4]))
    ELSE Fail

---------------------------------------------------------------------------
VARIABLES file,     \* the store file
          saver,    \* saver[t]: what t writes, how far it is, whether it is alone
          saves,    \* saves begun
          settled   \* the state last saved by a thread that was alone, or <<>>

storeVars == <<file, saver, saves, settled>>

Image == [st \in Store |-> SerializeStore(st)]
Idle == [st |-> <<>>, off |-> -1, alone |-> FALSE]
AllIdle == [t \in Saver |-> Idle]

StoreInit == file = <<>> /\ saver = AllIdle /\ saves = 0 /\ settled = <<>>

(* SAVE and saveStore: serializeStore, and the ofstream that empties the file. *)
SaveOpen(t, st) ==
    /\ saver[t] = Idle
    /\ saves < MaxSaves
    /\ saves' = saves + 1
    /\ saver' = [u \in Saver |->
                    IF u = t THEN [st |-> st, off |-> 0, alone |-> saver = AllIdle]
                    ELSE [saver[u] EXCEPT !.alone = FALSE]]
    /\ file' = <<>>
    /\ settled' = <<>>

(* b with c written over it from position off on; a hole reads as zeroes. *)
Overlay(b, off, c) ==
    [i \in 1..Max({Len(b), off + Len(c)}) |->
        IF i \in off + 1..off + Len(c) THEN c[i - off]
        ELSE IF i <= Len(b) THEN b[i] ELSE 0]

(* The next piece is written at this thread's own position in the file, and *)
(* after the last one the file is closed.                                  *)
SaveWrite(t) ==
    LET st == saver[t].st
        off == saver[t].off
        end == Min({off + Chunk, Len(Image[st])})
        last == end = Len(Image[st])
    IN  /\ saver[t] # Idle
        /\ file' = Overlay(file, off, SubSeq(Image[st], off + 1, end))
        /\ saver' = [saver EXCEPT ![t] = IF last THEN Idle ELSE [@ EXCEPT !.off = end]]
        /\ settled' = IF last /\ saver[t].alone THEN st ELSE <<>>
        /\ UNCHANGED saves

(* The process dies; what was written stays. *)
Crash ==
    /\ saver # AllIdle
    /\ saver' = AllIdle
    /\ UNCHANGED <<file, saves, settled>>

StoreNext ==
    \/ \E t \in Saver : (\E st \in Store : SaveOpen(t, st)) \/ SaveWrite(t)
    \/ Crash

---------------------------------------------------------------------------
(* After a save that no other save met, parseStore reads back the state    *)
(* that was saved, field for field.                                        *)
SavedReadsBack ==
    settled # <<>> => LET r == ParseStore(file) IN r.ok /\ r.val = settled

(* However two saves overlap, and wherever the process dies, parseStore    *)
(* refuses the file or reads a state that was saved: never a mixture of    *)
(* two, or a part of one.                                                  *)
NoMixtureIsRead ==
    LET r == ParseStore(file) IN r.ok => r.val \in Store
============================================================================
