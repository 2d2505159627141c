------------------------------- MODULE Broker -------------------------------
(***************************************************************************)
(* MemoryResourceBroker (adapters/broker.hpp) as the coordinator uses it:  *)
(* connection threads call acquire with no lock held, while release is     *)
(* called by handlers that hold Impl::mtx.  The broker has no lock of its  *)
(* own, so an acquire is two steps, the loop that compares every resource  *)
(* with its capacity and the loop that adds.  Two adding loops that        *)
(* overlap are a data race on held_; the outcome modelled is that any of   *)
(* the overlapping additions may be lost.  setCapacity and setFailNext are *)
(* never called by the coordinator: every resource has the default         *)
(* capacity and no failure is scripted.  A size is a request's payload,    *)
(* which a client chooses and no code limits: any 64-bit value.            *)
(***************************************************************************)
EXTENDS Integers, FiniteSets

CONSTANTS
  Thread,      \* connection threads
  Resource,    \* staging resources
  Capacity,    \* defaultCap_
  Word,        \* 2^64: held_ and the sizes are uint64_t
  Sizes        \* the sizes callers ask for

ASSUME BrokerAssumption ==
  /\ Capacity \in Nat /\ Word \in Nat /\ Capacity < Word
  /\ Sizes \subseteq 0 .. (Word - 1)

VARIABLES
  held,        \* held_ (0: no entry)
  call,        \* call[t]: the acquire thread t is executing
  wrapped      \* history: the resources a comparison let through on a sum that
               \* wrapped

brokerVars == <<held, call, wrapped>>

Calls == [ pc : {"idle", "check", "add", "done"}, rs : SUBSET Resource,
           size : Sizes \cup {0}, ok : BOOLEAN ]

Idle == [pc |-> "idle", rs |-> {}, size |-> 0, ok |-> FALSE]

NothingHeld == [r \in Resource |-> 0]
AllIdle == [t \in Thread |-> Idle]

BrokerInit == held = NothingHeld /\ call = AllIdle /\ wrapped = {}

\* held_[r] + size in uint64_t arithmetic.
Plus(r, size) == (held[r] + size) % Word

\* The resources of t's call whose sum does not fit in a word.
Wraps(t) == {r \in call[t].rs : held[r] + call[t].size >= Word}

\* acquire(rs, sizes) is entered; the coordinator asks for one size throughout.
AcquireCall(t, rs, size) ==
  /\ call[t].pc = "idle"
  /\ call' = [call EXCEPT ![t] = [pc |-> "check", rs |-> rs, size |-> size, ok |-> FALSE]]
  /\ UNCHANGED wrapped

\* Mutation: what is held is compared, not what would be held.
AcquireCheckHeld(t) ==
  /\ call[t].pc = "check"
  /\ \/ /\ \A r \in call[t].rs : held[r] <= Capacity
        /\ call' = [call EXCEPT ![t].pc = "add"]
        /\ wrapped' = wrapped \cup Wraps(t)
     \/ /\ \E r \in call[t].rs : held[r] > Capacity
        /\ call' = [call EXCEPT ![t].pc = "done"]
        /\ UNCHANGED wrapped
  /\ UNCHANGED held

\* The loop of comparisons; the first resource that does not fit ends the call.
AcquireCheck(t) ==
  /\ call[t].pc = "check"
  /\ \/ /\ \A r \in call[t].rs : Plus(r, call[t].size) <= Capacity
        /\ call' = [call EXCEPT ![t].pc = "add"]
        /\ wrapped' = wrapped \cup Wraps(t)
     \/ /\ \E r \in call[t].rs : Plus(r, call[t].size) > Capacity
        /\ call' = [call EXCEPT ![t].pc = "done"]
        /\ UNCHANGED wrapped
  /\ UNCHANGED held

\* Additions of t that another thread's adding loop overlaps.
Overlapped(t) ==
  IF \E u \in Thread \ {t} : call[u].pc = "add" /\ call[u].rs # {}
  THEN call[t].rs ELSE {}

\* The loop of additions.
AcquireAdd(t) ==
  /\ call[t].pc = "add"
  /\ \E lost \in SUBSET Overlapped(t) :
       held' = [r \in Resource |->
         IF r \in call[t].rs \ lost THEN Plus(r, call[t].size) ELSE held[r]]
  /\ call' = [call EXCEPT ![t].pc = "done", ![t].ok = TRUE]
  /\ UNCHANGED wrapped

\* The caller has the result.
AcquireReturn(t) ==
  /\ call[t].pc = "done"
  /\ call' = [call EXCEPT ![t] = Idle]
  /\ UNCHANGED wrapped

\* release(rs): the entries are erased whole, whoever added to them.
Released(rs) == [r \in Resource |-> IF r \in rs THEN 0 ELSE held[r]]

-----------------------------------------------------------------------------
\* The broker with callers that acquire and release as they please.
BrokerNext ==
  \/ \E t \in Thread, rs \in SUBSET Resource, size \in Sizes :
        AcquireCall(t, rs, size) /\ UNCHANGED held
  \/ \E t \in Thread : AcquireCheck(t)
  \/ \E t \in Thread : AcquireAdd(t)
  \/ \E t \in Thread : AcquireReturn(t) /\ UNCHANGED held
  \/ \E rs \in SUBSET Resource : held' = Released(rs) /\ UNCHANGED <<call, wrapped>>

BrokerSpec == BrokerInit /\ [][BrokerNext]_brokerVars

-----------------------------------------------------------------------------
\* Type correctness of the broker.
BrokerTypeOK ==
  /\ held \in [Resource -> Nat]
  /\ call \in [Thread -> Calls]
  /\ wrapped \subseteq Resource

\* The calls that have passed the comparison for r and not yet added.
Adding(r) == {t \in Thread : call[t].pc = "add" /\ r \in call[t].rs}

\* The comparison and the addition are separate steps, so a resource can be
\* held beyond its capacity, but never beyond one capacity for every thread:
\* whatever sizes clients choose, a request that passes has a size within the
\* capacity and each thread must have compared before the others added.  The
\* one way past this bound is the comparison of acquire itself: it adds in
\* uint64_t, and a request that is large enough wraps the sum below the capacity.
OvershootBounded ==
  \A r \in Resource \ wrapped : held[r] <= Cardinality(Thread) * Capacity

=============================================================================
