------------------------------ MODULE Archives ------------------------------
(***************************************************************************)
(* files/compress and files/extract: the files below a directory are read  *)
(* one after the other and written as one archive; an archive is read, a   *)
(* tar at once and a zip in ranges, from its end, and only then written    *)
(* below the target.  Each read is a call of its own, and meanwhile others *)
(* edit the files and replace the archive.                                 *)
(*                                                                         *)
(* An archive is a sequence of cells: a header or a record is one, and so  *)
(* are a block of a tar and a byte of a zip.  Checksums are taken for what *)
(* they sum up.                                                            *)
(***************************************************************************)
EXTENDS Lists

CONSTANTS
    Sources,     \* the paths of the files below the directory, in order
    Contents,    \* what a file can hold: sequences of bytes
    Others,      \* archives of other tools
    BlockSize,   \* of a tar, in bytes
    NameField,   \* the longest path a tar header holds
    Window,      \* what is read of the end of a zip
    MaxEntries,
    MaxBytes,    \* of the payload, MAX_ARCHIVE_BYTES
    MaxCells,    \* of an archive that is read, MAX_ARCHIVE_FILE_BYTES
    Missing,
    MaxEdits     \* bound: changes by others, and calls

VARIABLES
    tree,     \* the content of the sources
    archive,  \* [members, cells], or Missing
    packer,   \* the compress that is on
    reader,   \* the extract that is on
    target,   \* what has been written below the target, in order
    edits, packs, extracts

archiveVars == <<tree, archive, packer, reader, target, edits, packs, extracts>>

------------------------------------------------------------------------------
(* sanitize_entry_path: a path is a sequence of components, "" at the front *)
(* of an absolute one and at the end of a directory.                       *)
Clean(name) == SelectSeq(name, LAMBDA c : c \notin {"", "."})
Safe(name) ==
    /\ name # <<>> /\ Head(name) # ""
    /\ ".." \notin ToSet(name)
    /\ Clean(name) # <<>>

Member(kind, path, data) == [kind |-> kind, path |-> path, data |-> data]
FilesOf(members) == SelectSeq(members, LAMBDA m : m.kind = "file")
Total(members) == FoldLeft(LAMBDA n, m : n + Len(m.data), 0, members)

Cell == [is |-> "zero", type |-> "0", name |-> <<>>, size |-> 0, at |-> 0,
         bytes |-> <<>>, records |-> <<>>]

------------------------------------------------------------------------------
(* tar: blocks, those of a member after its header.                        *)
Blocks(n) == (n + BlockSize - 1) \div BlockSize
Payload(data) ==
    [i \in 1..Blocks(Len(data)) |->
        [Cell EXCEPT !.is = "data",
            !.bytes = [j \in 1..BlockSize |->
                          IF (i - 1) * BlockSize + j <= Len(data)
                          THEN data[(i - 1) * BlockSize + j] ELSE 0]]]
TarHead(type, name, size) ==
    [Cell EXCEPT !.is = "head", !.type = type, !.name = name, !.size = size]
Meta(type, records) ==
    <<TarHead(type, <<"meta">>, 1), [Cell EXCEPT !.is = "data", !.records = records]>>

(* tar_entry_header: a long path goes into a record before the header.     *)
TarFile(m) ==
    (IF Len(m.path) > NameField
     THEN Append(Meta("x", [path |-> m.path]), TarHead("0", <<"longname">>, Len(m.data)))
     ELSE <<TarHead("0", m.path, Len(m.data))>>)
    \o Payload(m.data)
Tar(members) ==
    FlattenSeq([i \in DOMAIN members |-> TarFile(members[i])]) \o <<Cell, Cell>>

(* parse_tar: headers are walked by their sizes.  Records before a header  *)
(* are for it alone, unless they are global.                               *)
Refused == [ok |-> FALSE, off |-> 0, long |-> <<>>, pax |-> <<>>, global |-> <<>>,
            members |-> <<>>]
Walker == [Refused EXCEPT !.ok = TRUE]

Field(records, name) == IF name \in DOMAIN records THEN records[name] ELSE <<>>
NameOf(head, w) ==
    LET paths == SelectSeq(<<Field(w.pax, "path"), Field(w.global, "path"), w.long, head.name>>,
                           LAMBDA name : name # <<>>)
    IN IF paths = <<>> THEN <<>> ELSE Head(paths)
SizeOf(head, w) == IF "size" \in DOMAIN w.pax THEN w.pax.size ELSE head.size
KindOf(head, name) ==
    IF head.type \in {"1", "2"} THEN "link"
    ELSE IF head.type = "5" \/ Last(name) = "" THEN "dir" ELSE "file"

(* Mistake: the records of a header are kept for the next.                 *)
AfterMemberKept(w) == [w EXCEPT !.long = <<>>]
AfterMember(w) == [w EXCEPT !.long = <<>>, !.pax = <<>>]

TakesMember(cells, head, start, w) ==
    LET name == NameOf(head, w)
        size == SizeOf(head, w)
        bytes == FlattenSeq([i \in 1..Blocks(size) |-> cells[start + i].bytes])
        full == Len(w.members) >= MaxEntries
    IN IF start + Blocks(size) > Len(cells) \/ (name # <<>> /\ (~Safe(name) \/ full))
       THEN Refused
       ELSE IF name = <<>> THEN AfterMember(w)
       ELSE [AfterMember(w) EXCEPT
                !.members = Append(@, Member(KindOf(head, name), Clean(name),
                    IF head.type \in {"0", "7"} THEN SubSeq(bytes, 1, size) ELSE <<>>))]

(* As many steps as there are cells are enough: each goes further, or the  *)
(* walk is over.                                                           *)
Steps(cells, w) ==
    IF ~w.ok \/ w.off = Len(cells) \/ cells[w.off + 1].is = "zero" THEN w
    ELSE LET head == cells[w.off + 1]
             start == w.off + 1
             next == [w EXCEPT !.off = start + Blocks(head.size)]
         IN IF head.is # "head" \/ next.off > Len(cells) THEN Refused
            ELSE CASE head.type = "L" -> [next EXCEPT !.long = cells[start + 1].records.path]
                   [] head.type = "K" -> next
                   [] head.type = "x" -> [next EXCEPT !.pax = cells[start + 1].records]
                   [] head.type = "g" -> [next EXCEPT !.global = cells[start + 1].records]
                   [] OTHER -> TakesMember(cells, head, start, next)
Walk(cells) == FoldLeft(LAMBDA w, cell : Steps(cells, w), Walker, cells)

(* extract_entries: links are refused, directories come by themselves.     *)
TarPlan(cells) ==
    LET w == Walk(cells)
    IN IF ~w.ok \/ w.members = <<>> \/ (\E m \in ToSet(w.members) : m.kind = "link")
          \/ Total(FilesOf(w.members)) > MaxBytes
       THEN Missing ELSE FilesOf(w.members)

------------------------------------------------------------------------------
(* zip: local headers with their bytes, the directory, and the record that *)
(* tells where it is.                                                      *)
Raw(data) == [i \in DOMAIN data |-> [Cell EXCEPT !.is = "byte", !.bytes = <<data[i]>>]]
Local(m) == [Cell EXCEPT !.is = "local", !.name = m.path]
Record(m, at) ==
    [Cell EXCEPT !.is = "central", !.name = m.path, !.size = Len(m.data), !.at = at,
        !.bytes = m.data]
Offset(members, i) == FoldLeft(LAMBDA n, m : n + 1 + Len(m.data), 0, SubSeq(members, 1, i - 1))
Eocd(count, at) == [Cell EXCEPT !.is = "eocd", !.size = count, !.at = at]
ZipFile(members) ==
    FlattenSeq([i \in DOMAIN members |-> <<Local(members[i])>> \o Raw(members[i].data)])
    \o [i \in DOMAIN members |-> Record(members[i], Offset(members, i))]
    \o <<Eocd(Len(members), Offset(members, Len(members) + 1))>>

(* read_exact_range: all of it, or nothing.                                *)
Ranged(start, len) ==
    IF archive = Missing \/ start + len > Len(archive.cells) THEN Missing
    ELSE SubSeq(archive.cells, start + 1, start + len)

(* find_eocd: the last record whose comment ends where the file does.      *)
Eocds(tail) ==
    {i \in DOMAIN tail : tail[i].is = "eocd" /\ i + Len(tail[i].name) = Len(tail)}

EntryOk(record) == record.is = "central" /\ record.type # "encrypted" /\ Safe(record.name)
ZipDirs(record) == Last(record.name) = ""

------------------------------------------------------------------------------
NoPacker == [at |-> "idle", as |-> "tar", plan |-> <<>>, packed |-> <<>>]
NoReader == [at |-> "idle", seen |-> Missing, size |-> 0, eocd |-> Cell, entries |-> <<>>,
             budget |-> 0, local |-> Cell, plan |-> <<>>]

ArchiveInit ==
    /\ tree \in [ToSet(Sources) -> Contents \cup {Missing}]
    /\ archive = Missing
    /\ packer = NoPacker /\ reader = NoReader
    /\ target = <<>>
    /\ edits = 0 /\ packs = 0 /\ extracts = 0

Counters == <<edits, packs, extracts>>

(* Others change a file, or put an archive of their own in place.          *)
Edits ==
    /\ edits < MaxEdits /\ edits' = edits + 1
    /\ \/ /\ \E s \in ToSet(Sources), data \in Contents \cup {Missing} :
                tree' = [tree EXCEPT ![s] = data]
          /\ UNCHANGED archive
       \/ /\ archive' \in Others
          /\ UNCHANGED tree
    /\ UNCHANGED <<packer, reader, target, packs, extracts>>

PackerGoes(next) ==
    /\ packer' = next
    /\ UNCHANGED <<tree, reader, target, edits, extracts>>

(* plan_compress: what is there is listed, and must be some but not too    *)
(* much.                                                                   *)
Listed == SelectSeq(Sources, LAMBDA s : tree[s] # Missing)
Sizes(paths) == FoldLeft(LAMBDA n, s : n + Len(tree[s]), 0, paths)
Plans ==
    /\ packer.at = "idle" /\ packs < MaxEdits
    /\ packs' = packs + 1
    /\ \E as \in {"tar", "zip"} :
          IF archive = Missing /\ Listed # <<>> /\ Len(Listed) <= MaxEntries
             /\ Sizes(Listed) <= MaxBytes
          THEN PackerGoes([NoPacker EXCEPT !.at = "pack", !.as = as, !.plan = Listed])
          ELSE PackerGoes(NoPacker)
    /\ UNCHANGED archive

(* build_tar, build_zip: what is read now counts, not what was listed.     *)
Packs ==
    /\ packer.at = "pack" /\ packer.plan # <<>>
    /\ LET path == Head(packer.plan)
           packed == Append(packer.packed, Member("file", path, tree[path]))
       IN IF tree[path] = Missing THEN PackerGoes(NoPacker)
          ELSE IF Total(packed) > MaxBytes THEN PackerGoes(NoPacker)
          ELSE PackerGoes([packer EXCEPT !.plan = Tail(@), !.packed = packed])
    /\ UNCHANGED <<archive, packs>>

Cells(as, members) == IF as = "tar" THEN Tar(members) ELSE ZipFile(members)
Seals ==
    /\ packer.at = "pack" /\ packer.plan = <<>>
    /\ archive' = [members |-> packer.packed, cells |-> Cells(packer.as, packer.packed)]
    /\ PackerGoes(NoPacker)
    /\ UNCHANGED packs

------------------------------------------------------------------------------
ReaderGoes(next) ==
    /\ reader' = next
    /\ UNCHANGED <<tree, archive, packer, edits, packs>>
Reads(next) == ReaderGoes(next) /\ UNCHANGED <<target, extracts>>
Refuses == Reads(NoReader)

(* stat_archive; what is written below the target is told from scratch.    *)
Opens ==
    /\ reader.at = "idle" /\ extracts < MaxEdits
    /\ extracts' = extracts + 1
    /\ target' = <<>>
    /\ IF archive = Missing THEN ReaderGoes(NoReader)
       ELSE IF Len(archive.cells) > MaxCells THEN ReaderGoes(NoReader)
       ELSE ReaderGoes([NoReader EXCEPT !.at = "magic", !.size = Len(archive.cells)])

(* open_archive: the first bytes tell a zip.                               *)
Detects ==
    /\ reader.at = "magic"
    /\ LET head == Ranged(0, 1)
       IN IF head = Missing THEN Refuses
          ELSE Reads([reader EXCEPT !.at = IF head[1].is \in {"local", "eocd"}
                                           THEN "tail" ELSE "tar"])

ReadsTar ==
    /\ reader.at = "tar"
    /\ IF archive = Missing THEN Refuses
       ELSE LET plan == TarPlan(archive.cells)
            IN IF plan = Missing THEN Refuses
               ELSE Reads([reader EXCEPT !.at = "write", !.seen = archive, !.plan = plan])

(* zip_central_directory: the end of the file, then the directory.         *)
WindowOf(size) == IF Window < size THEN Window ELSE size
ReadsTail ==
    /\ reader.at = "tail"
    /\ LET width == WindowOf(reader.size)
           tail == Ranged(reader.size - width, width)
       IN IF tail = Missing THEN Refuses
          ELSE IF Eocds(tail) = {} THEN Refuses
          ELSE LET eocd == tail[CHOOSE i \in Eocds(tail) : \A j \in Eocds(tail) : j <= i]
               IN IF eocd.at + eocd.size > reader.size \/ eocd.size > MaxEntries THEN Refuses
                  ELSE Reads([reader EXCEPT !.at = "directory", !.eocd = eocd])
ReadsDirectory ==
    /\ reader.at = "directory"
    /\ LET entries == Ranged(reader.eocd.at, reader.eocd.size)
       IN IF entries = Missing THEN Refuses
          ELSE IF \E i \in DOMAIN entries : ~EntryOk(entries[i]) THEN Refuses
          ELSE Reads([reader EXCEPT !.at = "local", !.seen = archive,
                        !.entries = SelectSeq(entries, LAMBDA e : ~ZipDirs(e))])

(* read_zip_entry_data: the header of an entry, then its bytes.            *)
ReadsLocal ==
    /\ reader.at = "local"
    /\ IF reader.entries = <<>> THEN Reads([reader EXCEPT !.at = "write"])
       ELSE LET entry == Head(reader.entries)
                cells == Ranged(entry.at, 1)
                budget == reader.budget + entry.size
            IN IF budget > MaxBytes \/ cells = Missing THEN Refuses
               ELSE IF cells[1].is # "local" THEN Refuses
               ELSE Reads([reader EXCEPT !.at = "bytes", !.budget = budget, !.local = cells[1]])

(* Length and checksum are those of the directory.                         *)
(* Mistake: the checksum is only looked at when the length differs.        *)
IntactBySize(data, entry) == Len(data) = entry.size
Intact(data, entry) == Len(data) = entry.size /\ data = entry.bytes

ReadsBytes ==
    /\ reader.at = "bytes"
    /\ LET entry == Head(reader.entries)
           cells == Ranged(entry.at + 1, entry.size)
           data == [i \in DOMAIN cells |-> cells[i].bytes[1]]
       IN IF cells = Missing THEN Refuses
          ELSE IF \E i \in DOMAIN cells : cells[i].is # "byte" THEN Refuses
          ELSE IF ~Intact(data, entry) THEN Refuses
          ELSE Reads([reader EXCEPT !.at = "local", !.entries = Tail(@),
                        !.plan = Append(@, Member("file", Clean(entry.name), data))])

(* write_plan: one file after the other; a write that fails ends it.       *)
Writes ==
    /\ reader.at = "write"
    /\ IF Len(target) < Len(reader.plan)
       THEN target' = Append(target, reader.plan[Len(target) + 1]) /\ ReaderGoes(reader)
       ELSE ReaderGoes(NoReader) /\ UNCHANGED target
    /\ UNCHANGED extracts
WriteFails == reader.at = "write" /\ Refuses

ArchiveNext ==
    \/ Edits \/ Plans \/ Packs \/ Seals
    \/ Opens \/ Detects \/ ReadsTar \/ ReadsTail \/ ReadsDirectory \/ ReadsLocal \/ ReadsBytes
    \/ Writes \/ WriteFails

ArchiveSpec == ArchiveInit /\ [][ArchiveNext]_archiveVars

------------------------------------------------------------------------------
ArchiveTypeOK ==
    /\ tree \in [ToSet(Sources) -> Contents \cup {Missing}]
    /\ packer.at \in {"idle", "pack"}
    /\ reader.at \in {"idle", "magic", "tar", "tail", "directory", "local", "bytes", "write"}
    /\ edits \in 0..MaxEdits /\ packs \in 0..MaxEdits /\ extracts \in 0..MaxEdits

(* What an extract is about to write are the files of one archive, the one *)
(* whose directory it read, all and in order and with their bytes, though  *)
(* the archive is replaced while it is read; it writes nothing before it   *)
(* has them all, and no more than the guard lets (archive.rs:238-317).     *)
ExtractsTrue ==
    /\ reader.at = "write" =>
          /\ reader.plan = FilesOf(reader.seen.members)
          /\ IsPrefix(target, reader.plan)
          /\ Total(reader.plan) <= MaxBytes
    /\ reader.at \notin {"idle", "write"} => target = <<>>
=============================================================================
