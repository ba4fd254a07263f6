--------------------------- MODULE UploadValidation ---------------------------
(***************************************************************************)
(* What the uploaded-file feature lets into storage: config.ts normalizes   *)
(* the module's configuration, and every entry point (upload and            *)
(* uploadTemporary with a buffer or a stream, HTTP initiate followed by a   *)
(* raw PUT) validates names, types, sizes and bytes with upload-security.ts.*)
(* A MIME type stands for itself and for the extensions mapped to it; bytes *)
(* are what the detectors see of them.                                      *)
(***************************************************************************)
EXTENDS Integers, FiniteSets

CONSTANTS
    Unset,         \* an absent (undefined) option
    Rejected,      \* the outcome of a check that throws
    Mimes,         \* DEFAULT_ALLOWED_MIME_TYPES
    Zip, Ooxml,    \* application/zip, and the types that are ZIP containers
    Texts, Json,   \* text types, and the one that must parse
    AbsoluteMax,   \* ABSOLUTE_MAX_UPLOAD_BYTES
    DefaultMax,    \* DEFAULT_MAX_UPLOAD_BYTES
    RawConfigs,    \* configurations a consumer may pass
    Calls,         \* arguments of an upload: ext, declared, size, allowed, max, visibility
    Contents,      \* bytes: [len, strong, ooxml, text, json]
    Chunks         \* sizes of the chunks of a request body

VARIABLES
    config,   \* the normalized configuration; Unset before forRoot, Rejected if it throws
    accepted, \* the upload that HTTP initiate accepted, or Unset
    body,     \* bytes buffered from the request stream
    stored    \* the last object stored, or Unset

validationVars == <<config, accepted, body, stored>>

\* A limit or a size is a number or absent; a detected signature is never that
\* of a text type, and no text type is a container.
ValidationConstants ==
    /\ AbsoluteMax \in Nat \ {0} /\ DefaultMax \in Nat /\ Chunks \subseteq Nat
    /\ \A c \in RawConfigs : c.max \in Int \cup {Unset} /\ c.remoteMax \in Int \cup {Unset}
    /\ \A a \in Calls : a.size \in Int \cup {Unset} /\ a.max \in Int \cup {Unset}
    /\ \A c \in Contents : c.len \in Nat /\ c.strong \notin Texts
    /\ Ooxml \cap Texts = {}

-----------------------------------------------------------------------------
(* config.ts *)

Min2(a, b) == IF a < b THEN a ELSE b

Max2(a, b) == IF a > b THEN a ELSE b

Given(x, y) == IF x # Unset THEN x ELSE y

\* The configuration is refused when credentials are incomplete, S3 has no
\* bucket, a public default is not enabled, or a lifetime is out of order.
ValidConfig(c) ==
    LET visibility == Given(c.defaultVisibility, IF c.publicFiles THEN "public" ELSE "private")
        maxTtl == Given(c.maxTtl, 2)
        ttl == Given(c.ttl, 1)
    IN  /\ (c.accessId = Unset) = (c.accessKey = Unset) /\ "" \notin {c.accessId, c.accessKey}
        /\ Given(c.driver, IF c.accessId # Unset THEN "s3" ELSE "local") = "s3" => c.bucket
        /\ visibility = "public" => Given(c.allowPublic, c.publicFiles) = TRUE
        /\ 0 < ttl /\ ttl <= maxTtl /\ maxTtl <= 2

Normalized(c) ==
    LET max == Max2(1, Min2(Given(c.max, DefaultMax), AbsoluteMax))
        visibility == Given(c.defaultVisibility, IF c.publicFiles THEN "public" ELSE "private")
    IN  [max |-> max, allowed |-> IF c.allowed = {} THEN Mimes ELSE c.allowed, magic |-> c.magic # FALSE,
         remoteMax |-> Max2(1, Min2(Given(c.remoteMax, max), max)), visibility |-> visibility,
         allowPublic |-> Given(c.allowPublic, c.publicFiles) = TRUE, cleanup |-> c.cleanup,
         remote |-> c.remote]

\* forRoot: the module does not start with a refused configuration.
normalizeUploadedFileConfig ==
    /\ config = Unset
    /\ \E c \in RawConfigs : config' = IF ValidConfig(c) THEN Normalized(c) ELSE Rejected
    /\ UNCHANGED <<accepted, body, stored>>

-----------------------------------------------------------------------------
(* upload-security.ts *)

validatePracticalSignature(c, mime) ==
    IF mime \in Ooxml THEN mime \in c.ooxml
    ELSE IF c.strong # Unset THEN c.strong = mime
    ELSE mime \in Texts /\ c.text /\ (mime = Json => c.json)

\* Mutant of validateUploadBuffer: a ZIP signature passes for every container
\* type, whatever the configuration says about signatures.
validateUploadBufferZip(c, ext, declared, allowed, magic, max) ==
    LET type == IF declared # Unset THEN declared
                ELSE IF c.strong = Zip /\ ext \in Ooxml THEN ext
                ELSE IF c.strong # Unset THEN c.strong ELSE ext
    IN  IF /\ c.len > 0 /\ c.len <= max /\ ext # Unset
           /\ type \in allowed /\ type = ext
           /\ c.strong \in {Unset, type} \/ (c.strong = Zip /\ type \in Ooxml)
           /\ magic /\ type \notin Ooxml => validatePracticalSignature(c, type)
        THEN type ELSE Rejected

\* The declared type wins, then the detected one, then the extension's; it must
\* be allowed and agree with the extension and with a detected signature.
validateUploadBuffer(c, ext, declared, allowed, magic, max) ==
    LET type == IF declared # Unset THEN declared
                ELSE IF c.strong = Zip /\ ext \in Ooxml THEN ext
                ELSE IF c.strong # Unset THEN c.strong ELSE ext
    IN  IF /\ c.len > 0 /\ c.len <= max /\ ext # Unset
           /\ type \in allowed /\ type = ext
           /\ c.strong \in {Unset, type} \/ (c.strong = Zip /\ type \in Ooxml)
           /\ magic => validatePracticalSignature(c, type)
        THEN type ELSE Rejected

\* What is known before the bytes are: an exact size, an extension and a type.
validateUploadMetadata(ext, declared, size, allowed, max) ==
    /\ size # Unset /\ size > 0 /\ size <= max
    /\ ext # Unset /\ declared # Unset /\ declared \in allowed /\ declared = ext

-----------------------------------------------------------------------------
(* Limits of one call *)

Allowed(a) == IF a.allowed = Unset THEN config.allowed ELSE config.allowed \cap a.allowed

MaxBytes(a) == IF a.max = Unset THEN config.max ELSE Min2(config.max, a.max)

\* uploadValidationLimits throws on an allowlist that leaves nothing, or a
\* maximum that is not positive.
LimitsOK(a) == Allowed(a) # {} /\ (a.max # Unset => a.max > 0)

DirectVisibility(requested, temporary) ==
    IF temporary THEN "private"
    ELSE IF requested = "public" /\ ~config.allowPublic THEN Rejected
    ELSE requested

Object(via, type, size, content, visibility, temporary) ==
    [via |-> via, type |-> type, size |-> size, content |-> content,
     visibility |-> visibility, temporary |-> temporary]

\* The module has started and nothing has been uploaded yet: each behaviour
\* follows one upload.
NoUploadYet == config \notin {Unset, Rejected} /\ accepted = Unset /\ stored = Unset

-----------------------------------------------------------------------------
(* Entry points *)

\* isManagedUploadCall: a buffer without owner, visibility, disposition or size
\* keeps the historical behaviour.
isManagedUploadCall(a) == a.owner \/ a.visibility # Unset \/ a.size # Unset

\* upload(buffer) in its historical form; the row has no visibility of its own.
uploadLegacy ==
    \E a \in Calls, c \in Contents :
        LET type == validateUploadBuffer(c, a.ext, a.declared, Allowed(a), config.magic, MaxBytes(a))
        IN  /\ NoUploadYet /\ ~isManagedUploadCall(a) /\ LimitsOK(a) /\ type # Rejected
            /\ stored' = Object("legacy", type, c.len, c, config.visibility, FALSE)
            /\ UNCHANGED <<config, accepted, body>>

\* cloneFromUrl: the fetched bytes, at most remoteMax, with the type the remote
\* server declares, are uploaded in the historical form.
cloneFromUrl ==
    \E a \in Calls, c \in Contents :
        LET type == validateUploadBuffer(c, a.ext, a.declared, config.allowed, config.magic, config.max)
        IN  /\ NoUploadYet /\ config.remote /\ c.len <= config.remoteMax /\ type # Rejected
            /\ stored' = Object("remote", type, c.len, c, config.visibility, FALSE)
            /\ UNCHANGED <<config, accepted, body>>

\* uploadTemporary(buffer) in its historical form needs configured cleanup.
uploadTemporaryLegacy ==
    \E a \in Calls, c \in Contents :
        LET type == validateUploadBuffer(c, a.ext, a.declared, Allowed(a), config.magic, MaxBytes(a))
        IN  /\ NoUploadYet /\ config.cleanup /\ LimitsOK(a) /\ type # Rejected
            /\ stored' = Object("temporary", type, c.len, c, "private", TRUE)
            /\ UNCHANGED <<config, accepted, body>>

\* uploadManaged with a buffer: the bytes are validated, an announced size must
\* be exact, then the metadata is validated like a client's.
uploadManagedBuffer ==
    \E a \in Calls, c \in Contents, temporary \in BOOLEAN :
        LET type == validateUploadBuffer(c, a.ext, a.declared, Allowed(a), config.magic, MaxBytes(a))
            visibility == DirectVisibility(Given(a.visibility, config.visibility), temporary)
        IN  /\ NoUploadYet /\ LimitsOK(a) /\ type # Rejected /\ a.size \in {Unset, c.len}
            /\ IF temporary THEN a.visibility = Unset ELSE isManagedUploadCall(a)
            /\ validateUploadMetadata(a.ext, type, c.len, Allowed(a), MaxBytes(a))
            /\ visibility # Rejected
            /\ stored' = Object("managed", type, c.len, c, visibility, temporary)
            /\ UNCHANGED <<config, accepted, body>>

\* uploadManaged with a stream: size and type must be announced, and the bytes
\* are not looked at.
uploadManagedStream ==
    \E a \in Calls, temporary \in BOOLEAN :
        LET visibility == DirectVisibility(Given(a.visibility, config.visibility), temporary)
        IN  /\ NoUploadYet /\ LimitsOK(a) /\ (temporary => a.visibility = Unset)
            /\ validateUploadMetadata(a.ext, a.declared, a.size, Allowed(a), MaxBytes(a))
            /\ visibility # Rejected
            /\ stored' = Object("stream", a.declared, a.size, Unset, visibility, temporary)
            /\ UNCHANGED <<config, accepted, body>>

\* HTTP initiate: always private, under the module's limits.
initiateUpload ==
    \E a \in Calls, temporary \in BOOLEAN :
        /\ NoUploadYet
        /\ validateUploadMetadata(a.ext, a.declared, a.size, config.allowed, config.max)
        /\ accepted' = [ext |-> a.ext, type |-> a.declared, size |-> a.size, temporary |-> temporary]
        /\ body' = 0
        /\ UNCHANGED <<config, stored>>

\* rawUploadBody adds a chunk; a body above the absolute limit is refused and
\* the client starts over.
readChunk ==
    \E n \in Chunks :
        /\ accepted # Unset
        /\ body' = IF body + n > AbsoluteMax THEN 0 ELSE body + n
        /\ UNCHANGED <<config, accepted, stored>>

\* putUploadContent: the body is validated against the row and must have
\* exactly the announced size.
putValidContent ==
    \E c \in Contents :
        /\ accepted # Unset /\ c.len = body
        /\ validateUploadBuffer(c, accepted.ext, accepted.type, config.allowed, config.magic, accepted.size) # Rejected
        /\ c.len = accepted.size
        /\ stored' = Object("content", accepted.type, accepted.size, c, "private", accepted.temporary)
        /\ accepted' = Unset /\ body' = 0
        /\ UNCHANGED config

-----------------------------------------------------------------------------

ValidationInit == config = Unset /\ accepted = Unset /\ body = 0 /\ stored = Unset

ValidationNext ==
    \/ normalizeUploadedFileConfig
    \/ uploadLegacy \/ cloneFromUrl \/ uploadTemporaryLegacy \/ uploadManagedBuffer \/ uploadManagedStream
    \/ initiateUpload \/ readChunk \/ putValidContent

ValidationSpec == ValidationInit /\ [][ValidationNext]_validationVars

-----------------------------------------------------------------------------
(* Properties *)

\* With signature validation on, bytes that were looked at are of the stored
\* type: a strong signature is that type's or its container's, a container has
\* its main part, and a text type holds text that parses (validateUploadBuffer
\* on every path).
StoredTypeTrue ==
    stored # Unset /\ stored.via # "stream" =>
        LET c == stored.content
        IN  /\ c.strong \in {Unset, stored.type} \/ (c.strong = Zip /\ stored.type \in Ooxml)
            /\ config.magic =>
                  CASE stored.type \in Ooxml -> stored.type \in c.ooxml
                    [] stored.type \in Texts -> c.strong = Unset /\ c.text /\ (stored.type = Json => c.json)
                    [] OTHER -> c.strong = stored.type

\* Whatever was configured or asked for, no object is larger than the absolute
\* limit or empty, and its recorded size is the size of its bytes
\* (normalizeUploadedFileConfig, uploadValidationLimits, putUploadContent).
SizesTrue ==
    stored # Unset =>
        /\ stored.size \in 1..AbsoluteMax /\ stored.type \in config.allowed
        /\ stored.via # "stream" => stored.content.len = stored.size

\* Nothing is public unless public uploads were enabled, and nothing temporary
\* is ever public, on every path and for every default (directVisibility,
\* normalizeUploadedFileConfig).
PublicOptIn ==
    stored # Unset /\ stored.visibility = "public" => config.allowPublic /\ ~stored.temporary

\* The request body never takes more memory than the absolute limit
\* (rawUploadBody).
BodyBounded == body <= AbsoluteMax

\* An upload that initiate accepted can be completed: bytes of the announced
\* type and size fit the body limit and pass putUploadContent's validation.
AcceptedCompletes ==
    accepted # Unset =>
        LET ideal == [len |-> accepted.size, strong |-> IF accepted.type \in Texts THEN Unset
                                                   ELSE IF accepted.type \in Ooxml THEN Zip ELSE accepted.type,
                      ooxml |-> {accepted.type} \cap Ooxml, text |-> accepted.type \in Texts, json |-> accepted.type = Json]
        IN  /\ accepted.size <= AbsoluteMax
            /\ validateUploadBuffer(ideal, accepted.ext, accepted.type, config.allowed, config.magic, accepted.size) = accepted.type

\* What is stored is of the type, size and visibility that is recorded, within
\* the limits, and what initiate accepted can be completed.
StoredIsChecked == StoredTypeTrue /\ SizesTrue /\ PublicOptIn /\ BodyBounded /\ AcceptedCompletes

=============================================================================
