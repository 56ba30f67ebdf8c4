------------------------ MODULE MCCollectionMetadata ------------------------
(* Small instances of CollectionMetadata: two clients with one handle each *)
(* (h1, h2) and three calls; c1 and c2 share a handle.                     *)
EXTENDS CollectionMetadata

MCConfs == {"blue"}
MCTexts == {"x"}
MCAttrs == {"a", "b"}

MCHandles == {"h1", "h2"}
MCCalls == {"c1", "c2", "c3"}
MCHandleOf == [c \in MCCalls |-> IF c = "c3" THEN "h2" ELSE "h1"]
MCOneClient == {"h1"}

States(enc, conf) == [enc |-> enc, conf |-> conf]
Configure(fields, force) ==
    [NoRequest EXCEPT !.kind = "configure", !.fields = fields, !.force = force]
Replace(fields) == [NoRequest EXCEPT !.kind = "replace", !.fields = fields]
SetMeta(name, tags) ==
    [NoRequest EXCEPT !.kind = "set", !.name = name, !.tags = tags]
Patch(name, tags) ==
    [NoRequest EXCEPT !.kind = "patch", !.name = name, !.tags = tags]
Index(attr, unique) ==
    [NoRequest EXCEPT !.kind = "index",
                      !.decls = {[attr |-> attr, unique |-> unique]}]
Contradictory(attr) ==
    [NoRequest EXCEPT !.kind = "index",
                      !.decls = {[attr |-> attr, unique |-> u] : u \in BOOLEAN}]
Plainly(kind) == [NoRequest EXCEPT !.kind = kind]
IfMatch(req) == [req EXCEPT !.pinned = TRUE]
IfNoneMatch(req) == [req EXCEPT !.absent = TRUE]
Current(req) == [req EXCEPT !.seeded = TRUE]

Sealed(enc, tags, schema) ==
    [enc |-> enc, conf |-> None,
     custom |-> [seal |-> enc, name |-> None, tags |-> tags, schema |-> schema]]

MCPlainObject == {Sealed("plain", "x", {})}
MCEncryptedObject == {Sealed("edv", "x", {})}
MCEitherObject == MCPlainObject \union MCEncryptedObject

(* Writers that name a baseline in every way there is, creation, deletion  *)
(* and encryption declared late, against a read that fills the handle's    *)
(* memory.  The handle h2 can neither read the object nor build the EDV    *)
(* codec.                                                                  *)
MCBaselines ==
    {Configure(States("edv", "blue"), FALSE),
     Current(Configure(States(None, "blue"), FALSE)),
     IfMatch(Current(Configure(States(None, "blue"), FALSE))),
     IfMatch(SetMeta("x", None)), IfNoneMatch(Replace(States("edv", None))),
     Patch("x", None), Plainly("describe"), Plainly("delete")}

(* Declarations that add, that conflict and that contradict themselves,    *)
(* among every other writer of the annotations and configuration of a      *)
(* Collection, encrypted from the start or on the way.                     *)
MCIndexing ==
    {Index("a", FALSE), Index("a", TRUE), Index("b", FALSE), Contradictory("a"),
     Patch("x", None), SetMeta("x", None), Configure(States("edv", "blue"), FALSE)}
=============================================================================
