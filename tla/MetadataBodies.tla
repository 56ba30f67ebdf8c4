--------------------------- MODULE MetadataBodies ---------------------------
(***************************************************************************)
(* The stored Collection Metadata object and the write bodies the client   *)
(* composes over it: src/Collection.ts (#configurationBody,                *)
(* #resealedCustom, the setMeta compose), src/internal/describe.ts         *)
(* (carriedForward) and src/internal/indexSchema.ts.                       *)
(*                                                                         *)
(* An object has one configuration member `conf' standing for name,        *)
(* backend and generator, the encryption scheme `enc' it declares, and     *)
(* the annotation `custom': the scheme it is sealed under and, inside,     *)
(* the name, the tags and the index schema.                                *)
(***************************************************************************)
EXTENDS Naturals, FiniteSets

CONSTANTS Confs,   \* values of a configuration member
          Texts,   \* values of custom.name and custom.tags
          Attrs    \* attributes a search index can be declared over

None == "none"

Schemes == {"plain", "edv"}

(* An index declaration: the attribute and whether it is unique.           *)
Declarations == [attr : Attrs, unique : BOOLEAN]

Custom == [seal : Schemes \union {None}, name : Texts \union {None},
           tags : Texts \union {None}, schema : SUBSET Declarations]

NoCustom == [seal |-> None, name |-> None, tags |-> None, schema |-> {}]

Objects == [enc : Schemes, conf : Confs \union {None}, custom : Custom]

(* What a write composes over when nothing is stored.                      *)
Blank == [enc |-> "plain", conf |-> None, custom |-> NoCustom]

(* The writable configuration a caller states; None is a member left out.  *)
Fields == [enc : {"edv", None}, conf : Confs \union {None}]

Stated(value, otherwise) == IF value # None THEN value ELSE otherwise

-----------------------------------------------------------------------------
(* Reading custom through a codec.  The plaintext codec returns whatever   *)
(* is stored, so it sees an envelope as a custom with members of its own   *)
(* and none of the ones sealed inside; the EDV codec refuses a value that  *)
(* is not an envelope.                                                     *)
CanOpen(codec, custom) == codec = "edv" => custom.seal # "plain"

Opened(codec, custom) ==
    IF codec = "plain" /\ custom.seal = "edv"
    THEN NoCustom
    ELSE custom

(* The schema a codec finds stored, and a setMeta whose custom names none  *)
(* carries forward: none when the stored custom cannot be opened.          *)
StoredSchema(codec, custom) ==
    IF CanOpen(codec, custom) THEN Opened(codec, custom).schema ELSE {}

-----------------------------------------------------------------------------
(* Configuration writes.  A write that leaves the scheme alone carries     *)
(* custom as served; one that changes it re-seals, and drops custom when   *)
(* this client has no key for the encrypted side.                          *)
ResealedCustom(stored, scheme, keyed) ==
    IF scheme = stored.enc \/ stored.custom = NoCustom THEN stored.custom
    ELSE IF keyed THEN [stored.custom EXCEPT !.seal = scheme]
    ELSE NoCustom

ConfigurationBody(stored, scheme, conf, keyed) ==
    [enc |-> scheme, conf |-> conf,
     custom |-> ResealedCustom(stored, scheme, keyed)]

(* configure: members the caller left out are merged forward.              *)
Configured(stored, fields, keyed) ==
    ConfigurationBody(stored, Stated(fields.enc, stored.enc),
                      Stated(fields.conf, stored.conf), keyed)

(* replaceDescription: members the caller left out are dropped.            *)
Replaced(stored, fields, keyed) ==
    ConfigurationBody(stored, Stated(fields.enc, "plain"), fields.conf, keyed)

(* configure refuses to merge over an object it could not read unless the  *)
(* caller stated both protected members or forced the write.               *)
BlindMergeAllowed(fields, force) ==
    force \/ (fields.enc # None /\ fields.conf # None)

-----------------------------------------------------------------------------
(* Annotation writes: configuration carried forward, custom replaced.      *)
Annotated(stored, codec, custom) ==
    [stored EXCEPT !.custom = [custom EXCEPT !.seal = codec]]

(* Faulty variant: a full-replacement custom drops the index schema.       *)
WithoutStoredSchema(custom, codec, stored) == custom

(* A caller's custom that names no schema keeps the stored one.            *)
WithStoredSchema(custom, codec, stored) ==
    [custom EXCEPT !.schema = StoredSchema(codec, stored.custom)]

(* mergeIndexDeclarations: refused when an attribute is already declared   *)
(* under the other uniqueness.                                             *)
Conflicting(schema, requested) ==
    \E d \in schema, r \in requested : d.attr = r.attr /\ d.unique # r.unique

-----------------------------------------------------------------------------
(* The server's own rules for a metadata write (external): a declared      *)
(* scheme is never withdrawn, and custom is sealed under the incoming one. *)
ServerAdmits(old, new) ==
    /\ old.enc = "edv" => new.enc = "edv"
    /\ new.custom.seal \in {new.enc, None}
=============================================================================
