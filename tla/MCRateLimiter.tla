--------------------------- MODULE MCRateLimiter ---------------------------
(* Constants of the RateLimiter runs: rows of the code's table, scaled down. *)
EXTENDS RateLimiter

Row == [scope |-> "device", burst |-> 0, refill |-> None, maxConcurrent |-> None, maxBytes |-> None]

\* A unit of the rate takes two ticks.
Search == [Row EXCEPT !.burst = 1, !.refill = [tokens |-> 1, per |-> 2 * Scale], !.maxConcurrent = 2]
Watcher == [Row EXCEPT !.maxConcurrent = 2]
Pairing == [Row EXCEPT !.scope = "global", !.burst = 2, !.maxConcurrent = 1]
SendBuffer == [Row EXCEPT !.scope = "global", !.maxBytes = 3]

MCLimits ==
    [c \in {"search", "pairing", "send_buffer"} |->
        CASE c = "search" -> Search [] c = "pairing" -> Pairing [] c = "send_buffer" -> SendBuffer]
MCMaxHeld == [search |-> 3, pairing |-> 1, send_buffer |-> 0]

\* Without a rate, for two devices.
MCUses ==
    [c \in {"watcher", "pairing", "send_buffer"} |->
        CASE c = "watcher" -> Watcher [] c = "pairing" -> Pairing [] c = "send_buffer" -> SendBuffer]
MCUsesHeld == [watcher |-> 4, pairing |-> 2, send_buffer |-> 0]
=============================================================================
