------------------------------- MODULE MCIpLib -------------------------------
EXTENDS IpLib

R(start, end, country) == [start |-> start, end |-> end, country |-> country]

(* Two dictionaries that cut the addresses differently and leave some out.  *)
MCDict ==
    [p \in {"global", "latest"} |->
        IF p = "global" THEN <<R(0, 0, "CN"), R(1, 2, "US"), R(4, 4, "FR")>>
        ELSE <<R(0, 1, "JP"), R(3, 4, "DE")>>]
MCRanges == [start : 0..4, end : 0..4, country : {"CN", "US", "FR", "JP", "DE"}]
MCPaths == {"global", "latest"}
=============================================================================
