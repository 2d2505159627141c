------------------------------- MODULE Codec -------------------------------
(***************************************************************************)
(* What the two binary formats of the program share: the messages of       *)
(* src/protocol.cpp (module Protocol) and the store file of                *)
(* src/persistence.cpp (module StoreFile).  Both are written by one        *)
(* function and read by another, field by field, and nothing in the code   *)
(* ties the two together.  Each of those functions is a layout here, the   *)
(* sequence of its fields, and Write and Read do what the classes W and    *)
(* Writer, R and Reader do with it.                                        *)
(*                                                                         *)
(* A number is one token whatever its width, and a text is its length      *)
(* followed by one token per character.  The checksum has the shape of    *)
(* FNV-1a with a 16-bit state and addition for the exclusive or: like it,  *)
(* each step is one-to-one in the state and in the token.                  *)
(***************************************************************************)
EXTENDS Integers, Sequences, SequencesExt, TLC

CONSTANTS MaxCount,   \* kMaxCount: the longest text or list that is read
          MaxFrame    \* kMaxFramePayload

ASSUME CodecAssumption == MaxCount \in Nat /\ MaxFrame \in Nat

(* The last enumerator of each enumeration: its value as a byte. *)
LastEndpointKind == 12
LastLinkKind == 13
LastTransport == 12
LastRequestShape == 4
LastDirection == 2
LastCollectiveShape == 8
LastPlanState == 15
LastFeasibility == 16
LastCostFactor == 21
LastProvenance == 6
MaxTransports == 64

(* The kinds of field.  A Skip is read, range-checked and forgotten. *)
Field(f, kind, max, item) == [name |-> f, kind |-> kind, max |-> max, item |-> item]
Num(f) == Field(f, "num", 0, <<>>)
Flag(f) == Field(f, "flag", 1, <<>>)
Enum(f, last) == Field(f, "enum", last, <<>>)
Skip(last) == Field("", "enum", last, <<>>)
Text(f) == Field(f, "text", 0, <<>>)
Arch(f) == Field(f, "arch", 8, <<>>)
Distance(f) == Field(f, "distance", 0, <<>>)
Part(f, layout) == Field(f, "part", 0, layout)
Many(f, max, layout) == Field(f, "many", max, layout)
Nums(seq) == [i \in 1..Len(seq) |-> Num(seq[i])]
Flags(seq) == [i \in 1..Len(seq) |-> Flag(seq[i])]
Texts(seq) == [i \in 1..Len(seq) |-> Text(seq[i])]
Ids(f) == Many(f, MaxCount, <<Num("id")>>)
Transports(f) == Many(f, MaxTransports, <<Enum("transport", LastTransport)>>)
Generations(f) == Many(f, MaxCount, Nums(<<"id", "generation">>))

---------------------------------------------------------------------------
(* Writing (class W, class Writer). *)

RECURSIVE Write(_, _)

WriteField(d, x) ==
    CASE d.kind \in {"num", "flag", "enum"} -> <<x>>
      [] d.kind = "distance" -> <<IF x > 0 THEN x ELSE 0>>
      [] d.kind = "text" -> <<Len(x)>> \o x
      [] d.kind = "arch" -> x
      [] d.kind = "part" -> Write(d.item, x)
      [] d.kind = "many" ->
           <<Len(x)>> \o FlattenSeq([j \in 1..Len(x) |-> Write(d.item, x[j])])

Write(layout, v) ==
    FlattenSeq([i \in 1..Len(layout) |-> WriteField(layout[i], v[layout[i].name])])

---------------------------------------------------------------------------
(* Reading (class R, class Reader): from position p of b, the value and    *)
(* the position after it, or a failure.                                    *)

RECURSIVE Read(_, _, _)
RECURSIVE ReadItems(_, _, _, _, _)

Fail == [ok |-> FALSE, val |-> <<>>, pos |-> 0]
Got(v, p) == [ok |-> TRUE, val |-> v, pos |-> p]

ReadEnum(d, b, p) == IF b[p] > d.max THEN Fail ELSE Got(b[p], p + 1)

ReadField(d, b, p) ==
    IF d.kind = "part" THEN Read(d.item, b, p)
    ELSE IF p > Len(b) THEN Fail
    ELSE CASE d.kind \in {"num", "distance"} -> Got(b[p], p + 1)
           [] d.kind = "flag" -> Got(IF b[p] # 0 THEN 1 ELSE 0, p + 1)
           [] d.kind = "enum" -> ReadEnum(d, b, p)
           [] d.kind = "text" -> IF b[p] > MaxCount \/ p + b[p] > Len(b) THEN Fail
                                 ELSE Got(SubSeq(b, p + 1, p + b[p]), p + b[p] + 1)
           [] d.kind = "arch" -> IF p + 7 > Len(b) THEN Fail
                                 ELSE Got(Append(SubSeq(b, p, p + 6), 0), p + 8)
           [] d.kind = "many" -> IF b[p] > d.max THEN Fail
                                 ELSE ReadItems(d.item, b[p], b, p + 1, <<>>)

ReadItems(item, n, b, p, items) ==
    IF n = 0 THEN Got(items, p)
    ELSE LET r == Read(item, b, p)
         IN  IF ~r.ok THEN Fail
             ELSE ReadItems(item, n - 1, b, r.pos, Append(items, r.val))

(* One field after the other; a layout is read as its first half and then  *)
(* its second, and a failure in one field is a failure of the whole.       *)
Read(layout, b, p) ==
    IF layout = <<>> THEN Got(<<>>, p)
    ELSE IF Len(layout) = 1
    THEN LET d == layout[1]
             r == ReadField(d, b, p)
         IN  IF ~r.ok THEN Fail
             ELSE Got(IF d.name = "" THEN <<>> ELSE d.name :> r.val, r.pos)
    ELSE LET mid == Len(layout) \div 2
             r == Read(SubSeq(layout, 1, mid), b, p)
             s == Read(SubSeq(layout, mid + 1, Len(layout)), b, r.pos)
         IN  IF ~r.ok \/ ~s.ok THEN Fail ELSE Got(r.val @@ s.val, s.pos)

(* The state after the tokens from the i-th to the j-th, from h before     *)
(* them; halving the stretch keeps the recursion shallow.                  *)
fnv(b) ==
    LET mix[h \in 0..65535, i \in 1..Len(b), j \in 1..Len(b)] ==
            IF i = j THEN ((h + b[i]) * 403) % 65536
            ELSE LET mid == (i + j) \div 2
                 IN  mix[mix[h, i, mid], mid + 1, j]
    IN  IF b = <<>> THEN 40389 ELSE mix[40389, 1, Len(b)]

---------------------------------------------------------------------------
(* Values to try a layout with: every field gets a value of its own, so    *)
(* that no two fields can be exchanged unnoticed.  k varies the pattern.   *)

RECURSIVE Sample(_, _)

SampleField(d, i, k) ==
    CASE d.kind = "num" -> 1 + i + 40 * k
      [] d.kind \in {"flag", "enum"} -> (i + k) % (d.max + 1)
      [] d.kind = "distance" -> i * (1 - 2 * (k % 2))
      [] d.kind = "text" -> [j \in 1..(i + k) % 3 |-> i + j + k]
      [] d.kind = "arch" -> [j \in 1..8 |-> IF j = 8 THEN 0 ELSE i + j]
      [] d.kind = "part" -> Sample(d.item, k)
      [] d.kind = "many" -> [j \in 1..(i + k) % 3 |-> Sample(d.item, k + 2 * j)]

Sample(layout, k) ==
    [f \in {layout[i].name : i \in 1..Len(layout)} |->
        LET i == CHOOSE n \in 1..Len(layout) : layout[n].name = f
        IN  SampleField(layout[i], i, k)]

(* A value the program's types allow: enumerators and lists in range. *)
RECURSIVE WellFormed(_, _)

WellFormed(layout, v) ==
    \A i \in 1..Len(layout) :
        LET d == layout[i]
            x == v[d.name]
        IN  /\ d.kind \in {"enum", "flag"} => x \in 0..d.max
            /\ d.kind = "text" => Len(x) <= MaxCount
            /\ d.kind = "arch" => Len(x) = 8 /\ x[8] = 0
            /\ d.kind = "part" => WellFormed(d.item, x)
            /\ d.kind = "many" => /\ Len(x) <= d.max
                                  /\ \A j \in 1..Len(x) : WellFormed(d.item, x[j])

(* v with one enumerator, at any depth, one past its last. *)
RECURSIVE Beyond(_, _)

Beyond(layout, v) ==
    UNION {LET d == layout[i]
               x == v[d.name]
           IN  CASE d.kind = "enum" -> {[v EXCEPT ![d.name] = d.max + 1]}
                 [] d.kind = "part" -> {[v EXCEPT ![d.name] = y] : y \in Beyond(d.item, x)}
                 [] d.kind = "many" ->
                      UNION {{[v EXCEPT ![d.name][j] = y] : y \in Beyond(d.item, x[j])} :
                                j \in 1..Len(x)}
                 [] OTHER -> {} : i \in 1..Len(layout)}
============================================================================
