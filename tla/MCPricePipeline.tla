-------------------------- MODULE MCPricePipeline --------------------------
(* Instances of PricePipeline.  A behaviour is one of two mixes: the stream alone, three *)
(* messages of one minute and two moves of the partition; or the stream with a steady    *)
(* owner, one message, and two history requests that write the same minutes.  The mixes  *)
(* restrict what is published, requested and moved, which no fairness asks for.          *)
EXTENDS PricePipeline

CONSTANTS w1, c1

VARIABLE mix

Stream ==
  /\ \A i \in 1..Len(raw) : raw[i].ts = 1 /\ raw[i].close = c1
  /\ \A q \in Queries : query[q].at = "idle"
  /\ flags = {}

History ==
  /\ owner = w1 /\ moves = 0
  /\ Len(raw) <= 1

Within == CASE mix = "stream" -> Stream
            [] mix = "history" -> History

MCInit == Init /\ mix \in {"stream", "history"} /\ Within
MCNext == Next /\ UNCHANGED mix /\ Within'
MCSpec == MCInit /\ [][MCNext]_<<vars, mix>> /\ Fairness
============================================================================
