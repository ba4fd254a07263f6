---------------------------- MODULE OoxmlContainer ----------------------------
(***************************************************************************)
(* validateOoxmlContainer: a bounded walk over the central directory of a   *)
(* ZIP that never decompresses. Each entry is read at the offset the one    *)
(* before it ends at, checked, and compared with the local header it points *)
(* to. Offsets and sizes are small numbers; a name is a sequence of parts.  *)
(***************************************************************************)
EXTENDS Integers, Sequences, SequencesExt, FiniteSets, Folds

CONSTANTS
    None,
    Zips,       \* [end, disks, total, start, size, entries, locals, mime]
    MainPart,   \* MainPart[mime]
    CentralHeader, LocalHeader,            \* 46 and 30 bytes
    MaxEntries, MaxEntryBytes, MaxTotalBytes, MaxRatio

VARIABLES
    zip,
    index, offset,   \* entries read, and where the next one begins
    names, total,
    verdict          \* None, TRUE or FALSE

vars == <<zip, index, offset, names, total, verdict>>

-----------------------------------------------------------------------------
directoryEnd == zip.start + zip.size

\* The end record is found where its comment ends the file; one disk, no ZIP64
\* marks, and a directory that ends where the record begins.
EndRecordOk ==
    /\ zip.end # None /\ zip.disks = 1
    /\ zip.total <= MaxEntries
    /\ directoryEnd = zip.end

\* Flags, method, ZIP64 marks and disk of a central header.
HeaderOk(e) == e.plain

\* decodeEntryName and canonicalEntryName: no empty, "." or ".." part; a part that
\* is absolute, has a drive, a backslash or bytes that do not decode is Bad.
NameOk(name) == name # <<>> /\ \A i \in DOMAIN name : name[i] \notin {"", ".", "..", "Bad"}

SizesOk(e) ==
    /\ e.usize <= MaxEntryBytes
    /\ ~(e.usize > 0 /\ e.csize = 0)
    /\ e.csize > 0 => e.usize <= MaxRatio * e.csize

Here(e) == e.local \in DOMAIN zip.locals

\* The local header is before the directory, agrees with the central one, and its
\* name, extra field and data end before the directory as well.
LocalOk(e) ==
    /\ e.local + LocalHeader <= zip.start /\ Here(e)
    /\ LET l == zip.locals[e.local]
       IN  /\ l.same /\ l.name = e.name
           /\ e.descriptor \/ (l.csize = e.csize /\ l.usize = e.usize)
           /\ e.local + LocalHeader + Len(e.name) + l.extra + e.csize <= zip.start

EntryEnd(e) == offset + CentralHeader + Len(e.name) + e.rest

EntryOk(e) ==
    /\ HeaderOk(e) /\ EntryEnd(e) <= directoryEnd
    /\ NameOk(e.name) /\ e.name \notin names
    /\ SizesOk(e) /\ total + e.usize <= MaxTotalBytes
    /\ LocalOk(e)

Answer(v) == verdict' = v /\ UNCHANGED <<zip, index, offset, names, total>>

\* Before the first entry.
Begin ==
    /\ verdict = None /\ index = -1
    /\ IF EndRecordOk
       THEN index' = 0 /\ offset' = zip.start /\ UNCHANGED <<zip, names, total, verdict>>
       ELSE Answer(FALSE)

\* The next entry of those that the end record declares; there may be fewer.
ReadEntry ==
    /\ verdict = None /\ index >= 0 /\ index < zip.total
    /\ IF offset + CentralHeader > directoryEnd \/ index >= Len(zip.entries) THEN Answer(FALSE)
       ELSE LET e == zip.entries[index + 1]
            IN  IF ~EntryOk(e) THEN Answer(FALSE)
                ELSE /\ index' = index + 1 /\ offset' = EntryEnd(e)
                     /\ names' = names \cup {e.name} /\ total' = total + e.usize
                     /\ UNCHANGED <<zip, verdict>>

\* All declared entries were read: nothing is left over and the parts are there.
Finish ==
    /\ verdict = None /\ index = zip.total
    /\ Answer(offset = directoryEnd /\ <<"[Content_Types].xml">> \in names /\ MainPart[zip.mime] \in names)

Init == zip \in Zips /\ index = -1 /\ offset = 0 /\ names = {} /\ total = 0 /\ verdict = None

Next == Begin \/ ReadEntry \/ Finish

Spec == Init /\ [][Next]_vars

-----------------------------------------------------------------------------
Entries == {zip.entries[i] : i \in DOMAIN zip.entries}

Sum(f(_)) == FoldSeq(LAMBDA e, n : n + f(e), 0, zip.entries)

\* An accepted container declares no more data than the limits allow, in all and
\* per entry, and none of its entries more than the ratio allows for its bytes.
DeclaredBounded ==
    verdict = TRUE =>
        /\ Sum(LAMBDA e : e.usize) <= MaxTotalBytes
        /\ \A e \in Entries : e.usize <= MaxEntryBytes /\ e.usize <= MaxRatio * e.csize

\* In an accepted container the directory has exactly the declared entries with
\* different names, and central and local view of each are the same.
OneView ==
    verdict = TRUE =>
        /\ Len(zip.entries) = zip.total
        /\ \A i, j \in DOMAIN zip.entries : zip.entries[i].name = zip.entries[j].name => i = j
        /\ \A e \in Entries : e.local \in DOMAIN zip.locals /\ zip.locals[e.local].name = e.name

\* The data of every entry of an accepted container lies before the directory, and
\* the parts of its type are among the names.
DataInside ==
    verdict = TRUE =>
        /\ \A e \in Entries :
               e.local + LocalHeader + Len(e.name) + zip.locals[e.local].extra + e.csize <= zip.start
        /\ {<<"[Content_Types].xml">>, MainPart[zip.mime]} \subseteq {e.name : e \in Entries}

=============================================================================
