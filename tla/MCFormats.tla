----------------------------- MODULE MCFormats -----------------------------
(* A worker's socket: one thread answers, another hands a plan off.  The   *)
(* answering thread's place is also taken by every message of the protocol *)
(* in turn, in two patterns of values and with each enumerator past its    *)
(* range, and by errors whose text is too long for decodeMessage, for      *)
(* recvFrame and for encodeFrame.  Beside it, from the initial states in   *)
(* which nothing is to be sent, the store file.                            *)
EXTENDS Wire, StoreFile

MCExecute == SampleMessage("EXECUTE", 1)
MCAck == SampleMessage("COMMIT_RESULT", 1)
MCLong(n) == [type |-> "ERROR", body |-> [error |-> [i \in 1..n |-> i]]]
MCMessages == SampleMessages \cup NewerMessages
              \cup {MCLong(n) : n \in {MaxCount + 1, MaxFrame - 1, MaxFrame}}
MCSilent == [w \in Writer |-> <<>>]
MCPrograms ==
    {[w \in Writer |-> IF w = "reply" THEN <<m, MCAck>> ELSE <<>>] : m \in MCMessages}
    \cup {[w \in Writer |-> IF w = "reply" THEN <<SampleMessage(t, 1)>> ELSE <<MCExecute>>] :
             t \in {"PLAN_RESULT", "COMMIT_RESULT", "ERROR"}}
    \cup {MCSilent}

(* Stores of three sizes, and one that differs from another at both ends only. *)
MCEarlier == Sample(WriteStore, 0)
MCLater == [MCEarlier EXCEPT !.epoch = @ + 1, !.requests[1].collectiveCount = @ + 1]
MCStores == {Sample(WriteStore, k) : k \in 0..2} \cup {MCLater}

MCInit == WireInit /\ StoreInit
MCNext == \/ program # MCSilent /\ WireNext /\ UNCHANGED storeVars
          \/ program = MCSilent /\ StoreNext /\ UNCHANGED wireVars
MCSpec == MCInit /\ [][MCNext]_<<wireVars, storeVars>> /\ WireFairness
============================================================================
