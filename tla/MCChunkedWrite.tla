--------------------------- MODULE MCChunkedWrite ---------------------------
(* Small instances of ChunkedWrite: two calls of every kind and a reader.  *)
EXTENDS ChunkedWrite

MCCalls == {"c1", "c2", "c3"}

Put(size) == [NoRequest EXCEPT !.kind = "put", !.size = size]
Remove == [NoRequest EXCEPT !.kind = "delete"]
IfMatch(req) == [req EXCEPT !.pinned = TRUE]
IfNoneMatch(req) == [req EXCEPT !.absent = TRUE]

MCPuts == {Put(n) : n \in 0 .. MaxChunks}
MCWrites == MCPuts \union
    {IfMatch(Put(0)), IfMatch(Put(1)), IfNoneMatch(Put(2)), Remove, IfMatch(Remove)}

MCMixed == [c \in MCCalls |-> CASE c = "c1" -> MCWrites
                                [] c = "c2" -> MCPuts \union {Remove}
                                [] OTHER -> {NoRequest}]
=============================================================================
