--------------------------- MODULE MCGatewayAudit ---------------------------
(* Queue: one small and one large record of requests next to the records of *)
(* starts and stops; the large one fills a batch. Segments: records of one  *)
(* and of two whole messages; a large one is a segment of its own. Archive: *)
(* records of one to four bytes in chunks of two; the noise is the parts of *)
(* another record under the same id, a part with another chunk under the    *)
(* digest of a record, parts out of range and of a wrong length, Garbage.   *)
EXTENDS GatewayAudit, TLC

CONSTANTS small, large, s1, s2, e1, w1, w2, id1, id2

MCSize  == [r \in All |-> IF r = large THEN 2 ELSE 1]
MCParts == [r \in All |-> IF r = large THEN 2 ELSE 1]

MCRaws == {<<1>>, <<0, 1, 1>>, <<0, 1, 0, 0>>}
Other  == <<1, 1, 0>>
MCNoise ==
    {Garbage,
     [id |-> id1, part |-> 0, parts |-> 2, sha |-> Other, data |-> <<1, 1>>],
     [id |-> id1, part |-> 1, parts |-> 2, sha |-> <<0, 1, 1>>, data |-> <<0>>],
     [id |-> id1, part |-> 2, parts |-> 2, sha |-> <<0, 1, 1>>, data |-> <<1>>],
     [id |-> id1, part |-> 0, parts |-> 2, sha |-> <<0, 1, 1>>, data |-> <<0>>],
     [id |-> id2, part |-> 0, parts |-> 0, sha |-> <<>>, data |-> <<>>]}
=============================================================================
