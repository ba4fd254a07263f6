----------------------------- MODULE MCUploads -----------------------------
(***************************************************************************)
(* What comes in and what goes out: direct uploads, access to files, and   *)
(* the checks of uploads, containers, fetches and local paths.  The        *)
(* components share no state, so that a behaviour is one of a single part. *)
(* The components that theorems are about have variables of their own and  *)
(* rest in an initial state when they do not run; the other instances      *)
(* share v1 to v9, in the order of their substitutions.                    *)
(***************************************************************************)
EXTENDS DirectUpload, FileAccess, UploadValidation, Sequences, Functions, TLC

CONSTANTS Parts,   \* the parts of a run
          Rest,    \* the value of v1 to v9 where they are not used
          p1, p2, w1, w2

VARIABLES part, v1, v2, v3, v4, v5, v6, v7, v8, v9

others == << v1, v2, v3, v4, v5, v6, v7, v8, v9 >>

-----------------------------------------------------------------------------
(* Direct uploads: two processes, each in an instance of its own.          *)

EachItsOwn == [p \in Procs |-> p]

\* Local storage, HTTP clients and uploadManaged.
Local == INSTANCE DirectUpload WITH
  now <- v1, row <- v2, target <- v3, staging <- v4, final <- v5, task <- v6, lastClaim <- v7, faults <- v8,
  Kind <- "local", Temporary <- FALSE, ManagedCalls <- {FALSE, TRUE}, LastRequest <- 4

Managed == INSTANCE DirectUpload WITH
  now <- v1, row <- v2, target <- v3, staging <- v4, final <- v5, task <- v6, lastClaim <- v7, faults <- v8,
  Kind <- "s3", Temporary <- FALSE, ManagedCalls <- {TRUE}, LastRequest <- 4

ASSUME UploadsAssumption == ConstantsOK /\ Local!ConstantsOK /\ Managed!ConstantsOK /\ ~Outlive

-----------------------------------------------------------------------------
(* Access to one file by one request, while others change its row.         *)

Row(tenant, dept, user, temporary, visibility, used) ==
  [tenant |-> tenant, dept |-> dept, user |-> user, temporary |-> temporary, visibility |-> visibility,
   used |-> used, attachment |-> IF used THEN "a1" ELSE None, status |-> "pending", uploading |-> TRUE,
   claimed |-> FALSE, deleted |-> FALSE, expiredAt |-> None, extra |-> None]

SomeRows ==
  {Row("t1", None, "u1", TRUE, "private", FALSE), Row("t1", "d1", "u2", FALSE, None, TRUE),
   Row("t2", "d1", "u1", FALSE, "public", TRUE), Row("t1", "d2", "u1", FALSE, "private", FALSE)}

ASSUME AccessAssumption == AccessConstants

Ctx(configured, custom, tenant, dept, user) ==
  [configured |-> configured, customTenant |-> custom, tenant |-> tenant, dept |-> dept, user |-> user]

SomeContexts ==
  {None, Ctx(None, None, "t1", None, "u1"), Ctx(None, None, "t1", "d1", "u2"), Ctx(None, "t2", "t1", None, "u1"),
   Ctx("t1", "t2", None, "d2", "u1"), Ctx(None, None, None, None, "u1"), Ctx(None, None, "t1", Bad, "u1"),
   Ctx(Bad, None, "t1", None, "u1"), Ctx(None, None, "t1", None, Bad)}

-----------------------------------------------------------------------------
(* What is accepted: one type of every kind, sizes 0..4.                   *)

Base == [max |-> None, allowed |-> {}, magic |-> None, remoteMax |-> None, defaultVisibility |-> None,
         publicFiles |-> FALSE, allowPublic |-> None, cleanup |-> TRUE, remote |-> TRUE, accessId |-> None,
         accessKey |-> None, driver |-> None, bucket |-> FALSE, ttl |-> None, maxTtl |-> None]

\* Everything the configuration decides about uploads, and refused ones.
UploadConfigs ==
  {[Base EXCEPT !.max = m, !.allowed = al, !.magic = g, !.remoteMax = r] :
      m \in {None, 0, 9}, al \in {{}, {"docx", "txt"}}, g \in {None, FALSE}, r \in {None, 9}}
  \cup {[Base EXCEPT !.defaultVisibility = d, !.publicFiles = p, !.allowPublic = q, !.cleanup = FALSE, !.remote = FALSE] :
      d \in {None, "private", "public"}, p \in BOOLEAN, q \in {None, TRUE, FALSE}}
  \cup {[Base EXCEPT !.accessId = i, !.accessKey = k, !.bucket = b, !.driver = d] :
      i, k \in {None, "", "id"}, b \in BOOLEAN, d \in {None, "s3", "local"}}
  \cup {[Base EXCEPT !.ttl = t, !.maxTtl = x] : t \in {None, 0, 2, 3}, x \in {None, 1, 2, 3}}

UploadCalls ==
  [ext : {None, "png", "docx", "json"}, declared : {None, "png", "zip", "docx", "txt", "json"},
   size : {None, 2, 4}, allowed : {None, {"docx", "json"}}, max : {None, 1},
   visibility : {None, "public"}, owner : {FALSE}]

Bytes(strong, ooxml, text, json) ==
  [len : {0, 2, 3, 4}, strong : {strong}, ooxml : {ooxml}, text : {text}, json : {json}]

UploadContents ==
  Bytes("png", {}, FALSE, FALSE) \cup Bytes("zip", {}, FALSE, FALSE) \cup Bytes("zip", {"docx"}, FALSE, FALSE)
  \cup Bytes(None, {}, TRUE, FALSE) \cup Bytes(None, {}, TRUE, TRUE) \cup Bytes(None, {}, FALSE, FALSE)

-----------------------------------------------------------------------------
(* Containers: directories of up to three entries whose headers take one   *)
(* unit each, with sizes around every limit.                               *)

Content == << "[Content_Types].xml" >>
Document == << "word", "document.xml" >>
Sheet == << "xl", "workbook.xml" >>

MainParts == ("docx" :> Document) @@ ("xlsx" :> Sheet)

Entry(name, local, usize, csize, descriptor, plain) ==
  [name |-> name, local |-> local, usize |-> usize, csize |-> csize, descriptor |-> descriptor, plain |-> plain, rest |-> 0]

Header(name, usize, csize, same) == [name |-> name, usize |-> usize, csize |-> csize, same |-> same, extra |-> 0]

\* Local headers at 0 and 4, the directory at 9.
ZipEntries ==
  {<< Entry(Content, 0, 2, 1, FALSE, TRUE), Entry(name, local, u, c, d, p) >> :
      name \in {Document, Sheet, Content, << "..", "document.xml" >>}, local \in {0, 4, 8}, u \in {0, 4, 5, 6},
      c \in {0, 2, 3}, d \in BOOLEAN, p \in BOOLEAN}
  \cup {<< Entry(Content, 0, 2, 1, FALSE, TRUE) >>,
        << Entry(Content, 0, 2, 1, FALSE, TRUE), Entry(Document, 4, 4, 2, FALSE, TRUE), Entry(Content, 0, 0, 0, TRUE, TRUE) >>}

\* Bytes of the directory that hold the entries; the rest of it is something else.
Used(entries) == FoldFunction(LAMBDA e, n : n + 1 + Len(e.name), 0, entries)

ZipFiles ==
  {z \in {[end |-> end, disks |-> 1, total |-> n, start |-> 9, size |-> size, entries |-> entries, mime |-> "docx",
            locals |-> (0 :> Header(Content, 2, 1, TRUE)) @@ (4 :> Header(name, 4, 2, same))] :
              end \in {None, 14, 16}, n \in 0 .. 4, size \in {2, 5, 7}, entries \in ZipEntries,
              name \in {Document, Sheet}, same \in BOOLEAN} : Used(z.entries) <= z.size}

Container == INSTANCE OoxmlContainer WITH
  zip <- v1, index <- v2, offset <- v3, names <- v4, total <- v5, verdict <- v6,
  Zips <- ZipFiles, MainPart <- MainParts, CentralHeader <- 1, LocalHeader <- 1,
  MaxEntries <- 3, MaxEntryBytes <- 5, MaxTotalBytes <- 6, MaxRatio <- 3

-----------------------------------------------------------------------------
(* Remote fetches.                                                         *)

Url(scheme, host, credentials) == [scheme |-> scheme, host |-> host, credentials |-> credentials]

V4(a, b, c, d) == [v4 |-> << a, b, c, d >>]

V6(head, elided, right, dotted) == [left |-> head, elided |-> elided, right |-> right, dotted |-> dotted]

\* Addresses on both sides of every block's borders, in each notation.
Boundary ==
  {V4(x[1], x[2], x[3], 0) : x \in
      {<<0, 255, 255>>, <<1, 0, 0>>, <<9, 255, 255>>, <<10, 0, 0>>, <<11, 0, 0>>, <<100, 63, 255>>, <<100, 64, 0>>,
       <<100, 127, 255>>, <<100, 128, 0>>, <<126, 255, 255>>, <<127, 0, 0>>, <<128, 0, 0>>, <<169, 253, 255>>,
       <<169, 254, 0>>, <<169, 255, 0>>, <<172, 15, 255>>, <<172, 16, 0>>, <<172, 31, 255>>, <<172, 32, 0>>,
       <<191, 255, 255>>, <<192, 0, 0>>, <<192, 0, 1>>, <<192, 0, 2>>, <<192, 0, 3>>, <<192, 88, 98>>,
       <<192, 88, 99>>, <<192, 88, 100>>, <<192, 167, 255>>, <<192, 168, 0>>, <<192, 169, 0>>, <<198, 17, 255>>,
       <<198, 18, 0>>, <<198, 19, 255>>, <<198, 20, 0>>, <<198, 51, 99>>, <<198, 51, 100>>, <<198, 51, 101>>,
       <<203, 0, 112>>, <<203, 0, 113>>, <<203, 0, 114>>, <<223, 255, 255>>, <<224, 0, 0>>, <<239, 255, 255>>,
       <<240, 0, 0>>, <<255, 255, 255>>}}
  \cup {V6(l, TRUE, r, None) : l \in {<<>>, <<8191>>, <<8192>>, <<8193, 0>>, <<8193, 1>>, <<8193, 2>>, <<8193, 3512>>,
                                      <<8194>>, <<16383>>, <<16384>>, <<100, 65435>>, <<64512>>, <<65152>>, <<65280>>},
                               r \in {<<>>, <<1>>}}
  \cup {V6(<<>>, TRUE, <<65535>>, <<a, 0, 0, 1>>) : a \in {8, 10, 127}}
  \cup {V6(<<>>, TRUE, <<65535, g, 1>>, None) : g \in {2048, 2560, 49320, 65535}}
  \cup {V6(<<8193, 18432, 0, 0, 0, 0, 0, 1>>, FALSE, <<>>, None), V6(<<8193, 1>>, FALSE, <<>>, None),
        V6(<<0, 0, 0, 0, 0, 65535>>, FALSE, <<>>, <<192, 168, 0, 1>>), V6(<<>>, TRUE, <<>>, <<8, 8, 8, 8>>),
        V6(<<8193, 65536>>, TRUE, <<>>, None), V6(<<1, 2, 3, 4, 5>>, TRUE, <<6, 7, 8, 9>>, None)}

\* Every boundary address, alone or behind a public one.
BoundaryAnswers == {<< a >> : a \in Boundary} \cup {<< V4(8, 8, 8, 8), a >> : a \in Boundary} \cup {<< Bad >>, <<>>, Bad}

FetchOptions(enabled, bytes, redirects, hosts) ==
  [enabled |-> enabled, maxBytes |-> bytes, maxRedirects |-> redirects, allowedHosts |-> hosts]

Addresses == INSTANCE RemoteFetch WITH
  options <- v1, pc <- v2, current <- v3, redirect <- v4, dns <- v5, rebinds <- v6, pinned <- v7, made <- v8, result <- v9,
  Urls <- {Url("https", "h1", FALSE)}, Answers <- BoundaryAnswers, OptionSets <- {FetchOptions(TRUE, None, 0, None)},
  Sizes <- {1}, MaxRebinds <- 1

\* Few addresses, long chains.
FetchUrls == {Url("https", "h1", FALSE), Url("http", "h2", FALSE), Url("ftp", "h1", FALSE), Url("https", "h1", TRUE)}

FetchAnswers ==
  {<< V4(8, 8, 8, 8) >>, << V4(8, 8, 8, 8), V4(10, 0, 0, 1) >>, << V6(<<>>, TRUE, << 65535 >>, << 127, 0, 0, 1 >>) >>}

FetchOptionSets ==
  {FetchOptions(FALSE, None, None, None), FetchOptions(TRUE, None, None, {}), FetchOptions(TRUE, 30, 9, {"h1"}),
   FetchOptions(TRUE, Bad, Bad, {"h2"}), FetchOptions(TRUE, 5, -1, None), FetchOptions(TRUE, 0, 1, None)}

Chains == INSTANCE RemoteFetch WITH
  options <- v1, pc <- v2, current <- v3, redirect <- v4, dns <- v5, rebinds <- v6, pinned <- v7, made <- v8, result <- v9,
  Urls <- FetchUrls, Answers <- FetchAnswers, OptionSets <- FetchOptionSets, Sizes <- {1, 5, 10, 11, 25, 26}, MaxRebinds <- 2

-----------------------------------------------------------------------------
(* Local paths: keys of up to three parts that share parents.              *)

PathKeys == {Bad, << "a", "b", "f" >>, << "a", "b", "g" >>, << "a", "f" >>, << "a", "..", "f" >>}

Tree(a, b, f) ==
  [p \in {<< "a" >>, << "a", "b" >>, << "a", "f" >>, << "a", "b", "f" >>, << "a", "b", "g" >>} |->
     CASE p = << "a" >> -> a [] p = << "a", "b" >> -> b [] p = << "a", "f" >> -> f [] OTHER -> "none"]

PathTrees ==
  {Tree("none", "none", "none"), Tree("dir", "none", "file"), Tree("dir", "link", "link"), Tree("link", "none", "none"),
   Tree("dir", "file", "none")}

Path == INSTANCE LocalPath WITH
  tree <- v1, root <- v2, faults <- v3, call <- v4,
  Calls <- {p1, p2}, Keys <- PathKeys, Trees <- PathTrees, MaxRootFaults <- 1

-----------------------------------------------------------------------------

ASSUME ValidationAssumption == ValidationConstants

After4 == << v5, v6, v7, v8, v9 >>
After6 == << v7, v8, v9 >>

Rests6 == v7 = Rest /\ v8 = Rest /\ v9 = Rest
Rests4 == v5 = Rest /\ v6 = Rest /\ Rests6

AccessRests == files = [f \in Files |-> CHOOSE r \in FileRows : TRUE] /\ AccessInit

OthersInit ==
  \/ part = "local" /\ Local!Init /\ v9 = Rest
  \/ part = "managed" /\ Managed!Init /\ v9 = Rest
  \/ part = "container" /\ Container!Init /\ Rests6
  \/ part = "addresses" /\ Addresses!Init
  \/ part = "chains" /\ Chains!Init
  \/ part = "path" /\ Path!Init /\ Rests4
  \/ part \in {"s3", "access", "checked"} /\ v1 = Rest /\ v2 = Rest /\ v3 = Rest /\ v4 = Rest /\ Rests4

PartsInit ==
  /\ part \in Parts
  /\ Init /\ ValidationInit
  /\ IF part = "access" THEN AccessInit ELSE AccessRests
  /\ OthersInit

OthersNext ==
  \/ part = "local" /\ Local!Next /\ UNCHANGED v9
  \/ part = "managed" /\ Managed!Next /\ UNCHANGED v9
  \/ part = "container" /\ Container!Next /\ UNCHANGED After6
  \/ part = "addresses" /\ Addresses!Next
  \/ part = "chains" /\ Chains!Next
  \/ part = "path" /\ Path!Next /\ UNCHANGED After4

PartsNext ==
  /\ UNCHANGED part
  /\ \/ part = "s3" /\ Next /\ UNCHANGED << accessVars, validationVars, others >>
     \/ part = "access" /\ AccessNext /\ UNCHANGED << vars, validationVars, others >>
     \/ part = "checked" /\ ValidationNext /\ UNCHANGED << vars, accessVars, others >>
     \/ OthersNext /\ UNCHANGED << vars, accessVars, validationVars >>

PartsSpec == PartsInit /\ [][PartsNext]_<< part, vars, accessVars, validationVars, others >>

UploadSymmetry == Permutations({p1, p2}) \cup Permutations({w1, w2})

-----------------------------------------------------------------------------

\* Over the local driver and through uploadManaged, too, what is ready was
\* verified, running completions keep their row, an uploadManaged that failed
\* and could abort leaves no pending upload, and promoted bytes keep a row.
DeploymentsAlike ==
  /\ part = "local" => Local!ReadyIsVerified /\ Local!CompletionsRespected /\ Local!NoOrphanFinal
  /\ part = "managed" => Managed!ReadyIsVerified /\ Managed!CompletionsRespected /\ Managed!NoOrphanFinal

\* What comes in stays where it belongs.  A clone connects only to public
\* addresses and allowed hosts, within its redirects and bytes, and a key
\* resolves only inside the storage root; neither a public address nor a
\* concurrent write is refused.  An accepted OOXML container has one consistent
\* view and declares bounded data inside the file.
InputsConfined ==
  /\ [](/\ part = "addresses" => Addresses!PublicDestinations
        /\ part = "chains" => /\ Chains!PublicDestinations /\ Chains!HostsAllowed
                              /\ Chains!RedirectsBounded /\ Chains!BodyWithinLimit
        /\ part = "path" => Path!Contained /\ Path!WritesMeet
        /\ part = "container" => Container!DeclaredBounded /\ Container!OneView /\ Container!DataInside)
  /\ [][part = "addresses" => Addresses!PublicAccepted]_<< part, others >>
=============================================================================
