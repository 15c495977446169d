----------------------------- MODULE MCGateway -----------------------------
(* Instances of Gateway for TLC. *)
EXTENDS Gateway, TLC

Files == {[id |-> "a", size |-> 3], [id |-> "b", size |-> 0]}

RangeHeaders == {NoRange, Bytes(1, 1)}

AllNames == {Objects}

(* Both buckets come and go; objects are in the first. *)
MCCalls ==
  {c \in Param :
     /\ c.h \in {"PutObject", "GetObjectNInfo", "DeleteObjects", "ListBuckets",
                "MakeBucketWithLocation", "DeleteBucket"}
     /\ "b" \in DOMAIN c => c.b = 1
     /\ "names" \in DOMAIN c => c.names # {}}
=============================================================================
